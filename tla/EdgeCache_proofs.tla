-------------------------- MODULE EdgeCache_proofs --------------------------
(***************************************************************************)
(* How old a copy the directory serves can be, what a purge removes, and   *)
(* what a memory counts, for any number of isolates, requests, URLs and    *)
(* registrations, any latency and any size of memory.                      *)
(***************************************************************************)
EXTENDS EdgeCache, FiniteSetTheorems, SequenceTheorems, TLAPS

(* The types the argument about copies needs; what `order` and             *)
(* `memoryBytes` are is of no matter to it.                                *)
CopiesTypeOK ==
  /\ memory \in [Isolate -> [Key -> SUBSET Entry(Copy)]]
  /\ now \in 0 .. MaxTime
  /\ version \in Version
  /\ since \in [Version -> 0 .. MaxTime]
  /\ edge \in [Key -> SUBSET Entry(Copy)]
  /\ reader \in [Reader -> Request]
  /\ putting \subseteq Put
  /\ purge.isolate \in Isolate

(* The copy c is of a registry at least t - d old, if of an old one at all. *)
Outdated(c, t, d) ==
  /\ c.version <= version
  /\ c.version < version => t <= since[c.version + 1] + d

(* A request is not older than Latency, and what it has in its hands is    *)
(* not older than the request, or than the edge allows.                    *)
ReaderInv ==
  \A r \in Reader : LET q == reader[r] IN
    /\ q.stage # "idle" => q.start <= now /\ now <= q.start + Latency
    /\ q.stage = "hit" => /\ q.start < q.copy.signed + EDGE_TTL + Latency
                          /\ Outdated(q.copy, q.start, EDGE_TTL + 2 * Latency - 1)
    /\ q.stage \in {"sign", "store"} => Outdated(q.copy, q.start, 0)
    /\ q.stage = "store" => q.start <= q.copy.signed /\ q.copy.signed <= now

PutInv ==
  \A p \in putting :
    /\ p.copy.signed <= now /\ now <= p.copy.signed + Latency
    /\ Outdated(p.copy, p.copy.signed, Latency)

EdgeInv ==
  \A k \in Key : \A e \in edge[k] :
    /\ e.until <= now + EDGE_TTL
    /\ e.until <= e.copy.signed + EDGE_TTL + Latency
    /\ Outdated(e.copy, e.until, EDGE_TTL + 2 * Latency)

MemoryInv ==
  \A i \in Isolate, k \in Key : \A e \in memory[i][k] :
    /\ e.until <= now + EDGE_TTL
    /\ e.until <= e.copy.signed + 2 * EDGE_TTL + Latency
    /\ Outdated(e.copy, e.until, 2 * EDGE_TTL + 2 * Latency)

AgeInv == CopiesTypeOK /\ ReaderInv /\ PutInv /\ EdgeInv /\ MemoryInv

-----------------------------------------------------------------------------
(* What the operations on a memory may leave in it.                        *)

LEMMA MemGetKeeps ==
  ASSUME memory \in [Isolate -> [Key -> SUBSET Entry(Copy)]],
         NEW i \in Isolate, NEW k \in Key, memGet(i, k, now)
  PROVE  /\ memory' \in [Isolate -> [Key -> SUBSET Entry(Copy)]]
         /\ \A j \in Isolate, l \in Key : memory'[j][l] \subseteq memory[j][l]
<1>1. \/ memory' = [memory EXCEPT ![i] = memory[i]]
      \/ memory' = [memory EXCEPT ![i] = [memory[i] EXCEPT ![k] = {}]]
  BY DEF memGet, Become
<1>2. QED
  BY <1>1

LEMMA MemPutAdds ==
  ASSUME memory \in [Isolate -> [Key -> SUBSET Entry(Copy)]],
         NEW i \in Isolate, NEW k \in Key, NEW e \in Entry(Copy), memPut(i, k, e)
  PROVE  /\ memory' \in [Isolate -> [Key -> SUBSET Entry(Copy)]]
         /\ \A j \in Isolate, l \in Key : memory'[j][l] \subseteq memory[j][l] \cup {e}
<1>1. CASE UNCHANGED memoryVars
  BY <1>1 DEF memoryVars
<1>2. CASE \E gone : memory' = [memory EXCEPT ![i] =
                       [j \in Key |-> IF j \in gone THEN {} ELSE [memory[i] EXCEPT ![k] = {e}][j]]]
  <2>1. PICK gone : memory' = [memory EXCEPT ![i] =
                      [j \in Key |-> IF j \in gone THEN {} ELSE [memory[i] EXCEPT ![k] = {e}][j]]]
    BY <1>2
  <2>2. \A l \in Key : /\ memory'[i][l] \subseteq memory[i][l] \cup {e}
                       /\ memory'[i][l] \subseteq Entry(Copy)
    BY <2>1
  <2>3. \A j \in Isolate : j # i => memory'[j] = memory[j]
    BY <2>1
  <2>4. memory' \in [Isolate -> [Key -> SUBSET Entry(Copy)]]
    BY <2>1, <2>2
  <2>5. QED
    BY <2>2, <2>3, <2>4
<1>3. QED
  BY <1>1, <1>2 DEF memPut, Become

LEMMA MemPutLocal ==
  ASSUME memory \in [Isolate -> [Key -> SUBSET Entry(Copy)]],
         NEW i \in Isolate, NEW k \in Key, NEW e, memPut(i, k, e)
  PROVE  \A j \in Isolate, l \in Key : l # k => memory'[j][l] \subseteq memory[j][l]
<1>1. CASE UNCHANGED memoryVars
  BY <1>1 DEF memoryVars
<1>2. CASE \E gone : memory' = [memory EXCEPT ![i] =
                       [j \in Key |-> IF j \in gone THEN {} ELSE [memory[i] EXCEPT ![k] = {e}][j]]]
  <2>1. PICK gone : memory' = [memory EXCEPT ![i] =
                      [j \in Key |-> IF j \in gone THEN {} ELSE [memory[i] EXCEPT ![k] = {e}][j]]]
    BY <1>2
  <2>2. \A l \in Key : l # k => memory'[i][l] \subseteq memory[i][l]
    BY <2>1
  <2>3. \A j \in Isolate : j # i => memory'[j] = memory[j]
    BY <2>1
  <2>4. QED
    BY <2>2, <2>3
<1>3. QED
  BY <1>1, <1>2 DEF memPut, Become

LEMMA ClearKeeps ==
  ASSUME memory \in [Isolate -> [Key -> SUBSET Entry(Copy)]],
         NEW i \in Isolate, clearMemoryCache(i)
  PROVE  /\ memory' \in [Isolate -> [Key -> SUBSET Entry(Copy)]]
         /\ \A j \in Isolate, l \in Key : memory'[j][l] \subseteq memory[j][l]
<1>1. memory' = [memory EXCEPT ![i] = [l \in Key |-> {}]]
  BY DEF clearMemoryCache, Become
<1>2. QED
  BY <1>1

-----------------------------------------------------------------------------

(* A step of the request r that leaves the rest of the world alone: what   *)
(* remains to be shown is that r itself is as young as its stage asks.     *)
RequestOK(q) ==
  /\ q.stage # "idle" => q.start <= now /\ now <= q.start + Latency
  /\ q.stage = "hit" => /\ q.start < q.copy.signed + EDGE_TTL + Latency
                        /\ Outdated(q.copy, q.start, EDGE_TTL + 2 * Latency - 1)
  /\ q.stage \in {"sign", "store"} => Outdated(q.copy, q.start, 0)
  /\ q.stage = "store" => q.start <= q.copy.signed /\ q.copy.signed <= now

LEMMA ReaderStep ==
  ASSUME CopiesTypeOK, ReaderInv, UNCHANGED <<now, version, since>>,
         NEW r \in Reader, NEW q \in Request, RequestOK(q),
         reader' = [reader EXCEPT ![r] = q]
  PROVE  ReaderInv' /\ reader' \in [Reader -> Request]
<1>1. \A s \in Reader : reader'[s] = IF s = r THEN q ELSE reader[s]
  BY DEF CopiesTypeOK
<1>2. \A s \in Reader : RequestOK(reader'[s])
  BY <1>1 DEF ReaderInv, RequestOK
<1>3. QED
  BY <1>2 DEF ReaderInv, RequestOK, CopiesTypeOK, Outdated

LEMMA IdleOK == Idle \in Request /\ RequestOK(Idle)
BY KeyAssumption, NumberAssumption
   DEF Idle, AnIsolate, NoCopy, Request, Stage, Copy, Version, RequestOK

LEMMA StepIs ==
  ASSUME CopiesTypeOK, NEW r \in Reader, NEW stage \in Stage, NEW c \in Copy, Step(r, stage, c)
  PROVE  At(r, stage, c) \in Request /\ reader' = [reader EXCEPT ![r] = At(r, stage, c)]
BY DEF At, Step, Request, CopiesTypeOK

(* Entries that stay, while the world does, are as young as before.        *)
LEMMA MemoryStays ==
  ASSUME MemoryInv, UNCHANGED <<now, version, since>>,
         \A j \in Isolate, l \in Key : memory'[j][l] \subseteq memory[j][l]
  PROVE  MemoryInv'
BY DEF MemoryInv, Outdated

LEMMA MemoryGains ==
  ASSUME MemoryInv, UNCHANGED <<now, version, since>>, NEW e,
         \A j \in Isolate, l \in Key : memory'[j][l] \subseteq memory[j][l] \cup {e},
         e.until <= now + EDGE_TTL,
         e.until <= e.copy.signed + 2 * EDGE_TTL + Latency,
         Outdated(e.copy, e.until, 2 * EDGE_TTL + 2 * Latency)
  PROVE  MemoryInv'
BY DEF MemoryInv, Outdated

LEMMA EntryOfType ==
  ASSUME NEW k \in Key, NEW c \in Copy, NEW n \in Nat
  PROVE  /\ EntryOf(k, c, n) \in Entry(Copy)
         /\ EntryOf(k, c, n).until = n /\ EntryOf(k, c, n).copy = c
BY SizeAssumption DEF EntryOf, Entry, Copy, Version

LEMMA AgeInvInit == Init => AgeInv
<1> SUFFICES ASSUME Init PROVE AgeInv
  OBVIOUS
<1> USE NumberAssumption DEF Init, MemoryInit
<1>1. CopiesTypeOK
  BY IdleOK, KeyAssumption DEF CopiesTypeOK, Version, AnIsolate
<1>2. ReaderInv
  BY DEF ReaderInv, Idle
<1>3. PutInv /\ EdgeInv /\ MemoryInv
  BY DEF PutInv, EdgeInv, MemoryInv
<1>4. QED
  BY <1>1, <1>2, <1>3 DEF AgeInv

LEMMA GetStep ==
  ASSUME AgeInv, NEW r \in Reader, NEW i \in Isolate, NEW k \in Key, Get(r, i, k)
  PROVE  AgeInv'
<1> USE DEF AgeInv
<1>1. UNCHANGED <<now, version, since, edge, putting, purge>> /\ memGet(i, k, now)
  BY DEF Get
<1>2. /\ memory' \in [Isolate -> [Key -> SUBSET Entry(Copy)]]
      /\ \A j \in Isolate, l \in Key : memory'[j][l] \subseteq memory[j][l]
  BY <1>1, MemGetKeeps DEF CopiesTypeOK
<1>3. ReaderInv' /\ reader' \in [Reader -> Request]
  <2>1. CASE UNCHANGED reader
    BY <1>1, <2>1 DEF ReaderInv, CopiesTypeOK, Outdated
  <2>2. CASE ~UNCHANGED reader
    <3> DEFINE q == [stage |-> "match", isolate |-> i, key |-> k, start |-> now, copy |-> NoCopy]
    <3>1. reader' = [reader EXCEPT ![r] = q]
      BY <2>2 DEF Get
    <3>2. q \in Request
      BY NumberAssumption DEF Request, Stage, NoCopy, Copy, Version, CopiesTypeOK
    <3>3. RequestOK(q)
      BY NumberAssumption DEF RequestOK, CopiesTypeOK
    <3>4. QED
      BY <1>1, <3>1, <3>2, <3>3, ReaderStep
  <2>3. QED
    BY <2>1, <2>2
<1>4. MemoryInv'
  BY <1>1, <1>2, MemoryStays
<1>5. CopiesTypeOK' /\ PutInv' /\ EdgeInv'
  BY <1>1, <1>2, <1>3 DEF CopiesTypeOK, PutInv, EdgeInv, Outdated
<1>6. QED
  BY <1>3, <1>4, <1>5

(* Match, Read, Sign, Fail: only the request moves.                        *)
LEMMA ReaderOnly ==
  ASSUME AgeInv, NEW r \in Reader, NEW q \in Request, RequestOK(q),
         reader' = [reader EXCEPT ![r] = q],
         UNCHANGED <<memoryVars, now, version, since, edge, putting, purge>>
  PROVE  AgeInv'
<1>1. ReaderInv' /\ reader' \in [Reader -> Request]
  BY ReaderStep DEF AgeInv
<1>2. QED
  BY <1>1 DEF AgeInv, CopiesTypeOK, PutInv, EdgeInv, MemoryInv, Outdated, memoryVars

LEMMA MatchStep ==
  ASSUME AgeInv, NEW r \in Reader, Match(r)
  PROVE  AgeInv'
<1> USE DEF AgeInv
<1>1. /\ reader[r].stage = "match"
      /\ UNCHANGED <<memoryVars, now, version, since, edge, putting, purge>>
      /\ reader[r].key \in Key
  BY DEF Match, CopiesTypeOK, Request
<1>2. CASE Step(r, "read", NoCopy)
  <2>1. NoCopy \in Copy
    BY NumberAssumption DEF NoCopy, Copy, Version
  <2> DEFINE q == At(r, "read", NoCopy)
  <2>0. "read" \in Stage /\ Step(r, "read", NoCopy)
    BY <1>2 DEF Stage, Read, Sign
  <2>2. q \in Request /\ reader' = [reader EXCEPT ![r] = q]
    BY <2>0, <2>1, StepIs
  <2>3. q.start = reader[r].start /\ q.stage = "read"
    BY DEF At
  <2> HIDE DEF q
  <2>4. RequestOK(q)
    BY <1>1, <2>3 DEF RequestOK, ReaderInv
  <2>5. QED
    BY <1>1, <2>2, <2>4, ReaderOnly
<1>3. ASSUME NEW e \in Live(edge[reader[r].key], now), Step(r, "hit", e.copy)
      PROVE  AgeInv'
  <2>1. e \in edge[reader[r].key] /\ e \in Entry(Copy) /\ now < e.until
    BY <1>1 DEF Live, CopiesTypeOK, Entry
  <2> DEFINE q == At(r, "hit", e.copy)
  <2>0. "hit" \in Stage /\ Step(r, "hit", e.copy)
    BY <1>3 DEF Stage, Read, Sign
  <2>2. q \in Request /\ reader' = [reader EXCEPT ![r] = q]
    BY <2>0, <2>1, StepIs DEF Entry
  <2>3. q.start = reader[r].start /\ q.stage = "hit" /\ q.copy = e.copy
    BY DEF At
  <2> HIDE DEF q
  <2>4. q.start <= now /\ now <= q.start + Latency
    BY <1>1, <2>3 DEF ReaderInv
  <2>5. /\ e.until <= e.copy.signed + EDGE_TTL + Latency
        /\ Outdated(e.copy, e.until, EDGE_TTL + 2 * Latency)
    BY <1>1, <2>1 DEF EdgeInv
  <2>6. /\ now \in Nat /\ q.start \in Nat /\ e.until \in Nat /\ e.copy.signed \in Nat
        /\ e.copy.version \in Nat /\ version \in Nat
        /\ e.copy.version < version => since[e.copy.version + 1] \in Nat
    <3>1. e.until \in Nat /\ e.copy \in Copy
      BY <2>1 DEF Entry
    <3>2. e.copy.signed \in 0 .. MaxTime /\ e.copy.version \in Version
      BY <3>1 DEF Copy
    <3>3. reader[r].start \in 0 .. MaxTime
      BY DEF CopiesTypeOK, Request
    <3>4. /\ now \in 0 .. MaxTime /\ version \in 0 .. MaxVersion
          /\ \A v \in 0 .. MaxVersion : since[v] \in 0 .. MaxTime
      BY DEF CopiesTypeOK, Version
    <3>5. e.copy.version < version => e.copy.version + 1 \in 0 .. MaxVersion
      BY <3>2, <3>4, NumberAssumption DEF Version
    <3> HIDE DEF AgeInv
    <3>6. QED
      BY <2>3, <3>1, <3>2, <3>3, <3>4, <3>5, NumberAssumption DEF Version
  <2>7. RequestOK(q)
    BY <2>1, <2>3, <2>4, <2>5, <2>6, NumberAssumption DEF RequestOK, Outdated
  <2>8. QED
    BY <1>1, <2>2, <2>7, ReaderOnly
<1>4. QED
  BY <1>2, <1>3 DEF Match

LEMMA ReadSignFailStep ==
  ASSUME AgeInv, NEW r \in Reader, Read(r) \/ Sign(r) \/ Fail(r)
  PROVE  AgeInv'
<1> USE DEF AgeInv
<1>1. UNCHANGED <<memoryVars, now, version, since, edge, putting, purge>>
  BY DEF Read, Sign, Fail
<1>2. reader[r] \in Request /\ now \in Nat /\ version \in Nat
  BY NumberAssumption DEF CopiesTypeOK, Version
<1>3. CASE Read(r)
  <2> DEFINE c == [NoCopy EXCEPT !.version = version]
  <2>1. c \in Copy /\ c.version = version
    BY NumberAssumption DEF NoCopy, Copy, CopiesTypeOK
  <2> DEFINE q == At(r, "sign", c)
  <2>0. "sign" \in Stage /\ Step(r, "sign", c)
    BY <1>3 DEF Stage, Read, Sign
  <2>2. q \in Request /\ reader' = [reader EXCEPT ![r] = q]
    BY <2>0, <2>1, StepIs
  <2>3. q.start = reader[r].start /\ q.stage = "sign" /\ q.copy = c
    BY DEF At
  <2> HIDE DEF q
  <2>4. RequestOK(q)
    BY <1>2, <1>3, <2>1, <2>3 DEF Read, RequestOK, ReaderInv, Outdated
  <2>5. QED
    BY <1>1, <2>2, <2>4, ReaderOnly
<1>4. CASE Sign(r)
  <2> DEFINE c == [reader[r].copy EXCEPT !.signed = now]
  <2>1. c \in Copy /\ c.version = reader[r].copy.version /\ c.signed = now
    BY <1>2 DEF Request, Copy, CopiesTypeOK
  <2> DEFINE q == At(r, "store", c)
  <2>0. "store" \in Stage /\ Step(r, "store", c)
    BY <1>4 DEF Stage, Read, Sign
  <2>2. q \in Request /\ reader' = [reader EXCEPT ![r] = q]
    BY <2>0, <2>1, StepIs
  <2>3. q.start = reader[r].start /\ q.stage = "store" /\ q.copy = c
    BY DEF At
  <2> HIDE DEF q
  <2>4. RequestOK(q)
    BY <1>2, <1>4, <2>1, <2>3 DEF Sign, RequestOK, ReaderInv, Outdated
  <2>5. QED
    BY <1>1, <2>2, <2>4, ReaderOnly
<1>5. CASE Fail(r)
  BY <1>1, <1>5, IdleOK, ReaderOnly DEF Fail, Answer
<1>6. QED
  BY <1>3, <1>4, <1>5

(* An answer from the edge, or from the handler, is kept in memory.        *)
LEMMA HitStep ==
  ASSUME AgeInv, NEW r \in Reader, Hit(r)
  PROVE  AgeInv'
<1> USE DEF AgeInv
<1> DEFINE q == reader[r]
<1> DEFINE e == EntryOf(q.key, q.copy, q.start + EDGE_TTL)
<1>1. /\ UNCHANGED <<now, version, since, edge, putting, purge>>
      /\ memPut(q.isolate, q.key, e) /\ Answer(r)
      /\ q.stage = "hit"
  BY DEF Hit
<1>2. /\ q.key \in Key /\ q.isolate \in Isolate /\ q.copy \in Copy
      /\ q.start \in Nat /\ q.copy.signed \in Nat /\ now \in Nat
      /\ q.copy.version \in Nat /\ version \in Nat
      /\ q.copy.version < version => since[q.copy.version + 1] \in Nat
  BY NumberAssumption DEF CopiesTypeOK, Request, Copy, Version
<1>3. e \in Entry(Copy) /\ e.until = q.start + EDGE_TTL /\ e.copy = q.copy
  BY <1>2, EntryOfType, NumberAssumption
<1>4. /\ memory' \in [Isolate -> [Key -> SUBSET Entry(Copy)]]
      /\ \A j \in Isolate, l \in Key : memory'[j][l] \subseteq memory[j][l] \cup {e}
  BY <1>1, <1>2, <1>3, MemPutAdds DEF CopiesTypeOK
<1>5. /\ q.start <= now
      /\ q.start < q.copy.signed + EDGE_TTL + Latency
      /\ Outdated(q.copy, q.start, EDGE_TTL + 2 * Latency - 1)
  BY <1>1 DEF ReaderInv
<1>6. /\ e.until <= now + EDGE_TTL
      /\ e.until <= e.copy.signed + 2 * EDGE_TTL + Latency
      /\ Outdated(e.copy, e.until, 2 * EDGE_TTL + 2 * Latency)
  BY <1>2, <1>3, <1>5, NumberAssumption DEF Outdated
<1>7. MemoryInv'
  BY <1>1, <1>4, <1>6, MemoryGains
<1>8. ReaderInv' /\ reader' \in [Reader -> Request]
  BY <1>1, IdleOK, ReaderStep DEF Answer
<1>9. QED
  BY <1>1, <1>4, <1>7, <1>8 DEF CopiesTypeOK, PutInv, EdgeInv, Outdated

LEMMA StoreStep ==
  ASSUME AgeInv, NEW r \in Reader, Store(r)
  PROVE  AgeInv'
<1> USE DEF AgeInv
<1> DEFINE q == reader[r]
<1> DEFINE e == EntryOf(q.key, q.copy, q.start + EDGE_TTL)
<1> DEFINE p == [key |-> q.key, copy |-> q.copy]
<1>1. /\ UNCHANGED <<now, version, since, edge, purge>>
      /\ putting' = putting \cup {p}
      /\ memPut(q.isolate, q.key, e) /\ Answer(r)
      /\ q.stage = "store"
  BY DEF Store
<1>2. /\ q.key \in Key /\ q.isolate \in Isolate /\ q.copy \in Copy
      /\ q.start \in Nat /\ q.copy.signed \in Nat /\ now \in Nat
      /\ q.copy.version \in Nat /\ version \in Nat
      /\ q.copy.version < version => since[q.copy.version + 1] \in Nat
  BY NumberAssumption DEF CopiesTypeOK, Request, Copy, Version
<1>3. e \in Entry(Copy) /\ e.until = q.start + EDGE_TTL /\ e.copy = q.copy
  BY <1>2, EntryOfType, NumberAssumption
<1>4. /\ memory' \in [Isolate -> [Key -> SUBSET Entry(Copy)]]
      /\ \A j \in Isolate, l \in Key : memory'[j][l] \subseteq memory[j][l] \cup {e}
  BY <1>1, <1>2, <1>3, MemPutAdds DEF CopiesTypeOK
<1>5. /\ q.start <= q.copy.signed /\ q.copy.signed <= now /\ now <= q.start + Latency
      /\ Outdated(q.copy, q.start, 0)
  BY <1>1 DEF ReaderInv
<1>6. /\ e.until <= now + EDGE_TTL
      /\ e.until <= e.copy.signed + 2 * EDGE_TTL + Latency
      /\ Outdated(e.copy, e.until, 2 * EDGE_TTL + 2 * Latency)
  BY <1>2, <1>3, <1>5, NumberAssumption DEF Outdated
<1>7. MemoryInv'
  BY <1>1, <1>4, <1>6, MemoryGains
<1>8. ReaderInv' /\ reader' \in [Reader -> Request]
  BY <1>1, IdleOK, ReaderStep DEF Answer
<1>9. putting' \subseteq Put /\ PutInv'
  <2>1. /\ p.copy.signed <= now /\ now <= p.copy.signed + Latency
        /\ Outdated(p.copy, p.copy.signed, Latency)
    BY <1>2, <1>5, NumberAssumption DEF Outdated
  <2>2. QED
    BY <1>1, <1>2, <2>1 DEF PutInv, Put, CopiesTypeOK, Outdated
<1>10. QED
  BY <1>1, <1>4, <1>7, <1>8, <1>9 DEF CopiesTypeOK, EdgeInv, Outdated

LEMMA PutStep ==
  ASSUME AgeInv, NEW p \in putting, PutAtEdge(p)
  PROVE  AgeInv'
<1> USE DEF AgeInv
<1> DEFINE e == EntryOf(p.key, p.copy, now + EDGE_TTL)
<1>1. /\ UNCHANGED <<memoryVars, now, version, since, reader, purge>>
      /\ putting' \subseteq putting
      /\ UNCHANGED edge \/ edge' = [edge EXCEPT ![p.key] = {e}]
  BY DEF PutAtEdge
<1>2. /\ p.key \in Key /\ p.copy \in Copy /\ p.copy.signed \in Nat /\ now \in Nat
      /\ p.copy.version \in Nat /\ version \in Nat
      /\ p.copy.version < version => since[p.copy.version + 1] \in Nat
  BY NumberAssumption DEF CopiesTypeOK, Put, Copy, Version
<1>3. e \in Entry(Copy) /\ e.until = now + EDGE_TTL /\ e.copy = p.copy
  BY <1>2, EntryOfType, NumberAssumption
<1>4. /\ p.copy.signed <= now /\ now <= p.copy.signed + Latency
      /\ Outdated(p.copy, p.copy.signed, Latency)
  BY DEF PutInv
<1>5. /\ e.until <= now + EDGE_TTL
      /\ e.until <= e.copy.signed + EDGE_TTL + Latency
      /\ Outdated(e.copy, e.until, EDGE_TTL + 2 * Latency)
  BY <1>2, <1>3, <1>4, NumberAssumption DEF Outdated
<1>6. edge' \in [Key -> SUBSET Entry(Copy)] /\ EdgeInv'
  <2>1. /\ edge' \in [Key -> SUBSET Entry(Copy)]
        /\ \A k \in Key : edge'[k] \subseteq edge[k] \cup {e}
    BY <1>1, <1>2, <1>3 DEF CopiesTypeOK
  <2>2. QED
    BY <1>1, <1>5, <2>1 DEF EdgeInv, Outdated
<1>7. QED
  BY <1>1, <1>6 DEF CopiesTypeOK, ReaderInv, PutInv, MemoryInv, Outdated, memoryVars

(* A registration makes every copy an outdated one, as of now.             *)
LEMMA RegisterStep ==
  ASSUME AgeInv, NEW i \in Isolate, Register(i)
  PROVE  AgeInv'
<1> USE DEF AgeInv
<1>1. /\ version' = version + 1 /\ version < MaxVersion /\ version \in Nat
      /\ since' = [since EXCEPT ![version + 1] = now]
      /\ UNCHANGED <<memoryVars, now, edge, reader, putting>>
      /\ purge'.isolate = i
  BY NumberAssumption DEF Register, CopiesTypeOK, Version
<1>2. CopiesTypeOK'
  BY <1>1, NumberAssumption DEF CopiesTypeOK, Version, memoryVars
<1>3. ASSUME NEW c \in Copy, NEW t \in Int, NEW d \in Int, Outdated(c, t, d), t <= now + d
      PROVE  Outdated(c, t, d)'
  <2>1. c.version \in 0 .. MaxVersion /\ c.version <= version
    BY <1>3 DEF Copy, Version, Outdated
  <2>2. c.version < version => since'[c.version + 1] = since[c.version + 1]
    BY <1>1, <2>1, NumberAssumption DEF CopiesTypeOK, Version
  <2>3. c.version = version => since'[c.version + 1] = now
    BY <1>1, NumberAssumption DEF CopiesTypeOK, Version
  <2>4. QED
    BY <1>1, <1>3, <2>1, <2>2, <2>3 DEF Outdated
<1>4. now \in Nat /\ EDGE_TTL \in Nat \ {0} /\ Latency \in Nat
  BY NumberAssumption DEF CopiesTypeOK
<1>5. ReaderInv'
  <2> SUFFICES ASSUME NEW r \in Reader, NEW q, q = reader[r]
               PROVE  /\ q.stage # "idle" => q.start <= now /\ now <= q.start + Latency
                      /\ q.stage = "hit" =>
                           /\ q.start < q.copy.signed + EDGE_TTL + Latency
                           /\ Outdated(q.copy, q.start, EDGE_TTL + 2 * Latency - 1)'
                      /\ q.stage \in {"sign", "store"} => Outdated(q.copy, q.start, 0)'
                      /\ q.stage = "store" => q.start <= q.copy.signed /\ q.copy.signed <= now
    BY <1>1 DEF ReaderInv, Outdated
  <2>1. q.copy \in Copy /\ q.start \in Nat
    BY NumberAssumption DEF CopiesTypeOK, Request
  <2>2. q.stage = "hit" => Outdated(q.copy, q.start, EDGE_TTL + 2 * Latency - 1)'
    BY <1>3, <1>4, <2>1 DEF ReaderInv
  <2>3. q.stage \in {"sign", "store"} => Outdated(q.copy, q.start, 0)'
    BY <1>3, <1>4, <2>1 DEF ReaderInv
  <2>4. QED
    BY <2>2, <2>3 DEF ReaderInv
<1>6. PutInv'
  <2>1. \A p \in putting : Outdated(p.copy, p.copy.signed, Latency)'
    BY <1>3, <1>4 DEF PutInv, CopiesTypeOK, Put, Copy
  <2>2. QED
    BY <1>1, <2>1 DEF PutInv, Outdated
<1>7. EdgeInv'
  <2>1. ASSUME NEW k \in Key, NEW e \in edge[k]
        PROVE  Outdated(e.copy, e.until, EDGE_TTL + 2 * Latency)'
    <3>1. e.copy \in Copy /\ e.until \in Nat
      BY DEF CopiesTypeOK, Entry
    <3>2. QED
      BY <1>3, <1>4, <3>1 DEF EdgeInv
  <2>2. QED
    BY <1>1, <2>1 DEF EdgeInv, Outdated
<1>8. MemoryInv'
  <2>1. ASSUME NEW j \in Isolate, NEW k \in Key, NEW e \in memory[j][k]
        PROVE  Outdated(e.copy, e.until, 2 * EDGE_TTL + 2 * Latency)'
    <3>1. e.copy \in Copy /\ e.until \in Nat
      BY DEF CopiesTypeOK, Entry
    <3>2. QED
      BY <1>3, <1>4, <3>1 DEF MemoryInv
  <2>2. QED
    BY <1>1, <2>1 DEF MemoryInv, Outdated, memoryVars
<1>9. QED
  BY <1>2, <1>5, <1>6, <1>7, <1>8

LEMMA PurgeStep ==
  ASSUME AgeInv, PurgeMemory \/ \E k \in Exact : PurgeEdge(k)
  PROVE  AgeInv'
<1> USE DEF AgeInv
<1>1. CASE PurgeMemory
  <2>1. /\ UNCHANGED <<now, version, since, edge, reader, putting>>
        /\ purge'.isolate = purge.isolate \/ purge' = [purge EXCEPT !.memory = FALSE]
        /\ clearMemoryCache(purge.isolate)
    BY <1>1 DEF PurgeMemory
  <2>2. purge.isolate \in Isolate /\ purge'.isolate \in Isolate
    BY <1>1 DEF PurgeMemory, CopiesTypeOK
  <2>3. /\ memory' \in [Isolate -> [Key -> SUBSET Entry(Copy)]]
        /\ \A j \in Isolate, l \in Key : memory'[j][l] \subseteq memory[j][l]
    BY <2>1, <2>2, ClearKeeps DEF CopiesTypeOK
  <2>4. MemoryInv'
    BY <2>1, <2>3, MemoryStays
  <2>5. QED
    BY <2>1, <2>2, <2>3, <2>4 DEF CopiesTypeOK, ReaderInv, PutInv, EdgeInv, Outdated
<1>2. CASE \E k \in Exact : PurgeEdge(k)
  <2>1. /\ UNCHANGED <<memoryVars, now, version, since, reader, putting>>
        /\ \E k \in Key : edge' = [edge EXCEPT ![k] = {}]
    BY <1>2, KeyAssumption DEF PurgeEdge
  <2>2. purge'.isolate \in Isolate
    BY <1>2 DEF PurgeEdge, CopiesTypeOK
  <2>3. /\ edge' \in [Key -> SUBSET Entry(Copy)]
        /\ \A k \in Key : edge'[k] \subseteq edge[k]
    BY <2>1 DEF CopiesTypeOK
  <2>4. QED
    BY <2>1, <2>2, <2>3 DEF CopiesTypeOK, ReaderInv, PutInv, EdgeInv, MemoryInv, Outdated, memoryVars
<1>3. QED
  BY <1>1, <1>2

LEMMA TickStep ==
  ASSUME AgeInv, Tick
  PROVE  AgeInv'
<1> USE DEF AgeInv
<1>1. /\ now < MaxTime /\ now' = now + 1
      /\ UNCHANGED <<memoryVars, version, since, reader, putting, purge>>
      /\ edge' = [k \in Key |-> Live(edge[k], now + 1)]
      /\ \A r \in Reader : reader[r].stage # "idle" => now < reader[r].start + Latency
      /\ \A p \in putting : now < p.copy.signed + Latency
  BY DEF Tick
<1>2. /\ edge' \in [Key -> SUBSET Entry(Copy)]
      /\ \A k \in Key : edge'[k] \subseteq edge[k]
  BY <1>1 DEF Live, CopiesTypeOK
<1>3. CopiesTypeOK'
  BY <1>1, <1>2, NumberAssumption DEF CopiesTypeOK, memoryVars
<1>4. now \in Nat /\ Latency \in Nat /\ EDGE_TTL \in Nat
  BY NumberAssumption DEF CopiesTypeOK
<1>5. ReaderInv'
  <2>1. \A r \in Reader : reader[r].start \in Nat /\ reader[r].copy.signed \in Nat
    BY NumberAssumption DEF CopiesTypeOK, Request, Copy
  <2>2. QED
    BY <1>1, <1>4, <2>1 DEF ReaderInv, Outdated
<1>6. PutInv'
  <2>1. \A p \in putting : p.copy.signed \in Nat
    BY NumberAssumption DEF CopiesTypeOK, Put, Copy
  <2>2. QED
    BY <1>1, <1>4, <2>1 DEF PutInv, Outdated
<1>7. EdgeInv'
  <2>1. \A k \in Key : \A e \in edge[k] : e.until \in Nat
    BY DEF CopiesTypeOK, Entry
  <2>2. QED
    BY <1>1, <1>2, <1>4, <2>1 DEF EdgeInv, Outdated
<1>8. MemoryInv'
  <2>1. \A j \in Isolate, k \in Key : \A e \in memory[j][k] : e.until \in Nat
    BY DEF CopiesTypeOK, Entry
  <2>2. QED
    BY <1>1, <1>4, <2>1 DEF MemoryInv, Outdated, memoryVars
<1>9. QED
  BY <1>3, <1>5, <1>6, <1>7, <1>8

LEMMA AgeInvStep == AgeInv /\ [Next]_vars => AgeInv'
<1> SUFFICES ASSUME AgeInv, [Next]_vars PROVE AgeInv'
  OBVIOUS
<1>1. CASE UNCHANGED vars
  BY <1>1 DEF vars, restVars, memoryVars, AgeInv, CopiesTypeOK, ReaderInv, PutInv, EdgeInv,
     MemoryInv, Outdated
<1>2. CASE Next
  BY <1>2, GetStep, MatchStep, HitStep, ReadSignFailStep, StoreStep, PutStep, RegisterStep,
     PurgeStep, TickStep DEF Next
<1>3. QED
  BY <1>1, <1>2

(* The ages of all that is kept, and what they mean for what is served.    *)
THEOREM CopiesAge == Spec => []AgeInv
BY AgeInvInit, AgeInvStep, PTL DEF Spec

LEMMA ServedAge ==
  ASSUME AgeInv
  PROVE  SignatureFresh /\ RegistrationShows
<1> SUFFICES ASSUME NEW k \in Key, NEW c \in Served(k)
             PROVE  /\ now < c.signed + 2 * EDGE_TTL + Latency
                    /\ c.version < version =>
                         now < since[c.version + 1] + 2 * (EDGE_TTL + Latency)
  BY DEF SignatureFresh, RegistrationShows
<1> USE DEF AgeInv
<1>1. PICK e : /\ c = e.copy /\ e.until > now
               /\ e \in edge[k] \/ \E i \in Isolate : e \in memory[i][k]
  BY DEF Served, Live
<1>2. /\ e \in Entry(Copy) /\ now \in Nat /\ version \in Nat
      /\ EDGE_TTL \in Nat /\ Latency \in Nat
  BY <1>1, NumberAssumption DEF CopiesTypeOK, Version
<1>3. /\ e.until \in Nat /\ c.signed \in Nat /\ c.version \in Nat
      /\ c.version < version => since[c.version + 1] \in Nat
  BY <1>1, <1>2, NumberAssumption DEF Entry, Copy, Version, CopiesTypeOK
<1>4. /\ e.until <= c.signed + 2 * EDGE_TTL + Latency
      /\ c.version < version => e.until <= since[c.version + 1] + 2 * EDGE_TTL + 2 * Latency
  <2>1. CASE e \in edge[k]
    BY <1>1, <1>2, <1>3, <2>1 DEF EdgeInv, Outdated
  <2>2. CASE \E i \in Isolate : e \in memory[i][k]
    BY <1>1, <1>2, <1>3, <2>2 DEF MemoryInv, Outdated
  <2>3. QED
    BY <1>1, <2>1, <2>2
<1>5. QED
  BY <1>1, <1>2, <1>3, <1>4

(* A copy served from a cache has all but two times EDGE_TTL, and the time *)
(* a request takes, of its signature's lifetime left (cache.ts:118-145).   *)
THEOREM SignaturesFresh == Spec => []SignatureFresh
BY CopiesAge, ServedAge, PTL

(* A registration is visible everywhere within that time, and another      *)
(* Latency, whatever becomes of its purge (cache.ts:118-170).              *)
THEOREM RegistrationsShow == Spec => []RegistrationShows
BY CopiesAge, ServedAge, PTL

-----------------------------------------------------------------------------
(* A purge that nothing overlaps.                                          *)

(* While it deletes, nobody reads or puts, and what it has deleted stays   *)
(* so: the memory of its isolate, and the keys that are not left.          *)
Quiet ==
  /\ \A r \in Reader : reader[r].stage = "idle"
  /\ putting = {}
  /\ \A k \in Key : memory[purge.isolate][k] = {}
  /\ \A k \in Exact \ purge.left : edge[k] = {}

(* Afterwards all that is kept, put, or in the hands of a request for one  *)
(* of its keys says what the registry does, whichever isolate it is in.    *)
Current ==
  \A k \in Exact :
    /\ \A e \in memory[purge.isolate][k] : e.copy.version = version
    /\ \A e \in edge[k] : e.copy.version = version
    /\ \A r \in Reader : reader[r].key = k /\ reader[r].stage \in {"hit", "sign", "store"} =>
         reader[r].copy.version = version
    /\ \A p \in putting : p.key = k => p.copy.version = version

AloneInv ==
  /\ purge \in Purge
  /\ purge.memory => purge.left = Exact
  /\ alone => /\ ~purge.memory
              /\ Purging => Quiet
              /\ ~Purging => Current

LEMMA AloneInvInit == Init => AloneInv
BY KeyAssumption DEF Init, AloneInv, Purge, AnIsolate

(* What a step has to show that moves a request or a put, which nobody     *)
(* does during the purge, and keeps the purge and its history.             *)
LEMMA RequestMoves ==
  ASSUME AloneInv, UNCHANGED <<purge, alone>>,
         (\E r \in Reader : reader[r].stage # "idle") \/ putting # {},
         Current => Current'
  PROVE  AloneInv'
BY DEF AloneInv, Quiet, Purging

(* A request that moves on, with nothing in its hands, a copy from the     *)
(* edge or one from the registry.                                          *)
LEMMA ReaderCurrent ==
  ASSUME Current, CopiesTypeOK, NEW r \in Reader, NEW q, reader' = [reader EXCEPT ![r] = q],
         UNCHANGED <<memoryVars, version, edge, putting, purge>>,
         q.key \in Exact /\ q.stage \in {"hit", "sign", "store"} => q.copy.version = version
  PROVE  Current'
<1>1. \A s \in Reader : reader'[s] = IF s = r THEN q ELSE reader[s]
  BY DEF CopiesTypeOK
<1>2. /\ memory' = memory /\ version' = version /\ edge' = edge
      /\ putting' = putting /\ purge' = purge
  BY DEF memoryVars
<1>3. QED
  BY <1>1, <1>2 DEF Current

LEMMA AloneReader ==
  ASSUME AloneInv, AgeInv, NEW r \in Reader, Match(r) \/ Read(r) \/ Sign(r) \/ Fail(r)
  PROVE  AloneInv'
<1>1. /\ UNCHANGED <<memoryVars, version, edge, putting, purge, alone>>
      /\ reader[r].stage # "idle"
      /\ CopiesTypeOK /\ reader[r].copy \in Copy /\ reader[r].key \in Key
  BY DEF Match, Read, Sign, Fail, AgeInv, CopiesTypeOK, Request
<1>2. ASSUME NEW q, reader' = [reader EXCEPT ![r] = q],
             Current /\ q.key \in Exact /\ q.stage \in {"hit", "sign", "store"} =>
               q.copy.version = version
      PROVE  AloneInv'
  <2>1. Current => Current'
    BY <1>1, <1>2, ReaderCurrent
  <2>2. QED
    BY <1>1, <2>1, RequestMoves
<1>3. ASSUME NEW stage, NEW c, Step(r, stage, c),
             Current /\ reader[r].key \in Exact /\ stage \in {"hit", "sign", "store"} =>
               c.version = version
      PROVE  AloneInv'
  <2> DEFINE q == At(r, stage, c)
  <2>1. reader' = [reader EXCEPT ![r] = q]
    BY <1>3 DEF Step
  <2>2. q.stage = stage /\ q.key = reader[r].key /\ q.copy = c
    BY DEF At
  <2> HIDE DEF q
  <2>3. QED
    BY <1>2, <1>3, <2>1, <2>2
<1>4. CASE Match(r)
  <2>1. \/ \E e \in edge[reader[r].key] : Step(r, "hit", e.copy)
        \/ Step(r, "read", NoCopy)
    BY <1>4 DEF Match, Live
  <2>2. ASSUME NEW e \in edge[reader[r].key], Step(r, "hit", e.copy)
        PROVE  AloneInv'
    <3>1. Current /\ reader[r].key \in Exact => e.copy.version = version
      BY DEF Current
    <3>2. QED
      BY <1>3, <2>2, <3>1
  <2>3. CASE Step(r, "read", NoCopy)
    BY <1>3, <2>3
  <2>4. QED
    BY <2>1, <2>2, <2>3
<1>5. CASE Read(r)
  <2> DEFINE c == [NoCopy EXCEPT !.version = version]
  <2>1. c.version = version
    BY DEF NoCopy
  <2>2. Step(r, "sign", c)
    BY <1>5 DEF Read
  <2> HIDE DEF c
  <2>3. QED
    BY <1>3, <2>1, <2>2
<1>6. CASE Sign(r)
  <2> DEFINE c == [reader[r].copy EXCEPT !.signed = now]
  <2>1. c.version = reader[r].copy.version
    BY <1>1 DEF Copy
  <2>2. Step(r, "store", c) /\ reader[r].stage = "sign"
    BY <1>6 DEF Sign
  <2> HIDE DEF c
  <2>3. Current /\ reader[r].key \in Exact => c.version = version
    BY <2>1, <2>2 DEF Current
  <2>4. QED
    BY <1>3, <2>2, <2>3
<1>7. CASE Fail(r)
  <2>1. reader' = [reader EXCEPT ![r] = Idle] /\ Idle.stage = "idle"
    BY <1>7 DEF Fail, Answer, Idle
  <2>2. QED
    BY <1>2, <2>1
<1>8. QED
  BY <1>4, <1>5, <1>6, <1>7

(* Hit and Store keep a copy in a memory, and start its put.               *)
LEMMA AloneKeep ==
  ASSUME AloneInv, AgeInv, NEW r \in Reader, Hit(r) \/ Store(r)
  PROVE  AloneInv'
<1> DEFINE q == reader[r]
           e == EntryOf(q.key, q.copy, q.start + EDGE_TTL)
<1>1. /\ UNCHANGED <<version, edge, purge, alone>>
      /\ memPut(q.isolate, q.key, e) /\ reader' = [reader EXCEPT ![r] = Idle]
      /\ q.stage \in {"hit", "store"}
      /\ putting' \subseteq putting \cup {[key |-> q.key, copy |-> q.copy]}
  BY DEF Hit, Store, Answer
<1>2. /\ q.key \in Key /\ q.isolate \in Isolate /\ q.copy \in Copy /\ q.start + EDGE_TTL \in Nat
      /\ purge.isolate \in Isolate
  BY NumberAssumption DEF AgeInv, CopiesTypeOK, Request
<1>3. e \in Entry(Copy) /\ e.copy = q.copy
  BY <1>2, EntryOfType
<1> HIDE DEF e
<1>4. \A l \in Key :
        memory'[purge.isolate][l] \subseteq memory[purge.isolate][l] \cup IF l = q.key THEN {e} ELSE {}
  <2>1. \A j \in Isolate, l \in Key :
          /\ memory'[j][l] \subseteq memory[j][l] \cup {e}
          /\ l # q.key => memory'[j][l] \subseteq memory[j][l]
    BY <1>1, <1>2, <1>3, MemPutAdds, MemPutLocal DEF AgeInv, CopiesTypeOK
  <2>2. QED
    BY <1>2, <2>1
<1>5. \A s \in Reader : reader'[s] = IF s = r THEN Idle ELSE reader[s]
  BY <1>1 DEF AgeInv, CopiesTypeOK
<1>6. ASSUME Current
      PROVE  Current'
  <2>1. q.key \in Exact => q.copy.version = version
    BY <1>1, <1>6 DEF Current
  <2> SUFFICES ASSUME NEW k \in Exact
               PROVE  /\ \A f \in memory'[purge.isolate][k] : f.copy.version = version
                      /\ \A f \in edge[k] : f.copy.version = version
                      /\ \A s \in Reader :
                           reader'[s].key = k /\ reader'[s].stage \in {"hit", "sign", "store"} =>
                             reader'[s].copy.version = version
                      /\ \A p \in putting' : p.key = k => p.copy.version = version
    BY <1>1 DEF Current
  <2>2. k \in Key
    BY KeyAssumption
  <2>3. \A f \in memory'[purge.isolate][k] : f.copy.version = version
    BY <1>3, <1>4, <1>6, <2>1, <2>2 DEF Current
  <2>4. \A s \in Reader : reader'[s].key = k /\ reader'[s].stage \in {"hit", "sign", "store"} =>
                             reader'[s].copy.version = version
    <3>1. Idle.stage = "idle"
      BY DEF Idle
    <3>2. QED
      BY <1>5, <1>6, <3>1 DEF Current
  <2>5. \A p \in putting' : p.key = k => p.copy.version = version
    BY <1>1, <1>6, <2>1 DEF Current
  <2>6. QED
    BY <1>6, <2>3, <2>4, <2>5 DEF Current
<1>7. QED
  BY <1>1, <1>6, RequestMoves

LEMMA AlonePut ==
  ASSUME AloneInv, AgeInv, NEW p \in putting, PutAtEdge(p)
  PROVE  AloneInv'
<1> DEFINE e == EntryOf(p.key, p.copy, now + EDGE_TTL)
<1>1. /\ UNCHANGED <<memoryVars, version, reader, purge, alone>> /\ putting' \subseteq putting
      /\ UNCHANGED edge \/ edge' = [edge EXCEPT ![p.key] = {e}]
  BY DEF PutAtEdge
<1>2. p.key \in Key /\ p.copy \in Copy /\ now + EDGE_TTL \in Nat
  BY NumberAssumption DEF AgeInv, CopiesTypeOK, Put
<1>3. e.copy = p.copy
  BY <1>2, EntryOfType
<1> HIDE DEF e
<1>4. \A k \in Key : edge'[k] = edge[k] \/ (k = p.key /\ edge'[k] = {e})
  BY <1>1, <1>2 DEF AgeInv, CopiesTypeOK
<1>5. Current => Current'
  <2>1. memory' = memory /\ version' = version /\ reader' = reader /\ purge' = purge
    BY <1>1 DEF memoryVars
  <2>2. QED
    BY <1>1, <1>3, <1>4, <2>1, KeyAssumption DEF Current
<1>6. QED
  BY <1>1, <1>5, RequestMoves

LEMMA AloneGet ==
  ASSUME AloneInv, AgeInv, NEW r \in Reader, NEW i \in Isolate, NEW k \in Key, Get(r, i, k)
  PROVE  AloneInv'
<1>1. /\ UNCHANGED <<version, edge, putting, purge>> /\ alone' = (alone /\ ~Purging)
      /\ memGet(i, k, now)
      /\ \/ reader' = reader
         \/ \E q : reader' = [reader EXCEPT ![r] = q] /\ q.stage = "match"
  <2> DEFINE q == [stage |-> "match", isolate |-> i, key |-> k, start |-> now, copy |-> NoCopy]
  <2>1. q.stage = "match"
    OBVIOUS
  <2>2. reader' = reader \/ reader' = [reader EXCEPT ![r] = q]
    BY DEF Get
  <2>3. /\ UNCHANGED <<version, edge, putting, purge>> /\ alone' = (alone /\ ~Purging)
        /\ memGet(i, k, now)
    BY DEF Get
  <2> HIDE DEF q
  <2>4. QED
    BY <2>1, <2>2, <2>3
<1>2. \A j \in Isolate, l \in Key : memory'[j][l] \subseteq memory[j][l]
  BY <1>1, MemGetKeeps DEF AgeInv, CopiesTypeOK
<1>3. \A s \in Reader : reader'[s] = reader[s] \/ reader'[s].stage = "match"
  BY <1>1 DEF AgeInv, CopiesTypeOK
<1>4. purge.isolate \in Isolate
  BY DEF AgeInv, CopiesTypeOK
<1>5. Current => Current'
  BY <1>1, <1>2, <1>3, <1>4, KeyAssumption DEF Current
<1>6. QED
  BY <1>1, <1>5 DEF AloneInv, Purging

LEMMA AlonePurge ==
  ASSUME AloneInv, AgeInv, PurgeMemory \/ \E k \in Exact : PurgeEdge(k)
  PROVE  AloneInv'
<1>1. CASE PurgeMemory
  <2>1. /\ UNCHANGED <<version, edge, reader, putting>>
        /\ purge' = [purge EXCEPT !.memory = FALSE] /\ purge.memory
        /\ memory' = [memory EXCEPT ![purge.isolate] = [k \in Key |-> {}]]
    BY <1>1 DEF PurgeMemory, clearMemoryCache, Become
  <2>2. alone' => putting = {} /\ \A r \in Reader : reader[r].stage = "idle"
    BY <1>1 DEF PurgeMemory
  <2>3. /\ purge' \in Purge /\ ~purge'.memory
        /\ purge'.isolate = purge.isolate /\ purge'.left = purge.left
        /\ purge.isolate \in Isolate /\ purge.left \subseteq Exact
    BY <2>1 DEF AloneInv, Purge
  <2>4. \A k \in Key : memory'[purge'.isolate][k] = {}
    BY <2>1, <2>3 DEF AgeInv, CopiesTypeOK
  <2>5. ASSUME alone'
        PROVE  (Purging => Quiet)' /\ (~Purging => Current)'
    <3>1. purge'.left = Exact
      BY <2>1, <2>3 DEF AloneInv
    <3>2. Quiet'
      BY <2>1, <2>2, <2>4, <2>5, <3>1 DEF Quiet
    <3>3. ~Purging' => Current'
      BY <3>1 DEF Current, Purging
    <3>4. QED
      BY <3>2, <3>3
  <2>6. QED
    BY <2>3, <2>5 DEF AloneInv
<1>2. CASE \E k \in Exact : PurgeEdge(k)
  <2>1. PICK k \in Exact : PurgeEdge(k)
    BY <1>2
  <2>2. /\ UNCHANGED <<memoryVars, version, reader, putting, alone>>
        /\ edge' = [edge EXCEPT ![k] = {}] /\ purge' = [purge EXCEPT !.left = @ \ {k}]
        /\ ~purge.memory /\ k \in purge.left
    BY <2>1 DEF PurgeEdge
  <2>3. /\ purge' \in Purge /\ ~purge'.memory
        /\ purge'.isolate = purge.isolate /\ purge'.left = purge.left \ {k}
    BY <2>2 DEF AloneInv, Purge
  <2>4. \A l \in Key : edge'[l] = IF l = k THEN {} ELSE edge[l]
    BY <2>2 DEF AgeInv, CopiesTypeOK
  <2>5. ASSUME alone'
        PROVE  Quiet'
    <3>1. Quiet /\ ~purge.memory
      BY <2>2, <2>5 DEF AloneInv, Purging
    <3>2. memory' = memory /\ reader' = reader /\ putting' = putting
      BY <2>2 DEF memoryVars
    <3>3. QED
      BY <2>3, <2>4, <3>1, <3>2, KeyAssumption DEF Quiet
  <2>6. ASSUME Quiet', ~Purging'
        PROVE  Current'
    BY <2>6, KeyAssumption DEF Quiet, Current, Purging
  <2>7. QED
    BY <2>3, <2>5, <2>6 DEF AloneInv
<1>3. QED
  BY <1>1, <1>2

LEMMA AloneTick ==
  ASSUME AloneInv, AgeInv, Tick
  PROVE  AloneInv'
<1>1. /\ UNCHANGED <<memoryVars, version, reader, putting, purge, alone>>
      /\ edge' = [k \in Key |-> Live(edge[k], now + 1)]
  BY DEF Tick
<1>2. \A k \in Key : edge'[k] \subseteq edge[k]
  BY <1>1 DEF Live
<1>3. memory' = memory
  BY <1>1 DEF memoryVars
<1>4. QED
  BY <1>1, <1>2, <1>3, KeyAssumption DEF AloneInv, Quiet, Current, Purging

LEMMA AloneInvStep == AgeInv /\ AloneInv /\ [Next]_vars => AloneInv'
<1> SUFFICES ASSUME AgeInv, AloneInv, [Next]_vars PROVE AloneInv'
  OBVIOUS
<1>1. CASE UNCHANGED vars
  BY <1>1 DEF vars, restVars, memoryVars, AloneInv, Quiet, Current, Purging
<1>2. ASSUME NEW i \in Isolate, Register(i)
      PROVE  AloneInv'
  BY <1>2 DEF Register, AloneInv, Purge
<1>3. QED
  BY <1>1, <1>2, AloneReader, AloneKeep, AlonePut, AloneGet, AlonePurge, AloneTick DEF Next

(* A registration that nothing overlaps shows at once, at the URLs it      *)
(* names, in its isolate's memory and at the edge, whatever is requested   *)
(* afterwards in whichever isolate (cache.ts:154-170).                     *)
THEOREM PurgesWork == Spec => []PurgeEffective
<1>1. AloneInv => PurgeEffective
  BY DEF AloneInv, Current, PurgeEffective
<1>2. Spec => []AloneInv
  BY CopiesAge, AloneInvInit, AloneInvStep, PTL DEF Spec
<1>3. QED
  BY <1>1, <1>2, PTL
-----------------------------------------------------------------------------
(* The bytes of a memory: how many they are.                               *)

(* A key has one entry, or none.                                           *)
AtMostOne(es) == es = {} \/ \E e : es = {e} /\ e.size \in Nat

Singles(f) == DOMAIN f = Key /\ \A k \in Key : AtMostOne(f[k])

LEMMA NumbersOf ==
  ASSUME NEW es, AtMostOne(es)
  PROVE  /\ IsFiniteSet(Numbers(es))
         /\ es = {} => Numbers(es) = {} /\ Bytes(es) = 0
         /\ \A e : es = {e} => Bytes(es) = e.size
<1>1. CASE es = {}
  <2>1. Numbers(es) = {}
    BY <1>1 DEF Numbers
  <2>2. QED
    BY <1>1, <2>1, FS_EmptySet DEF Bytes
<1>2. CASE \E e : es = {e} /\ e.size \in Nat
  <2>1. PICK e : es = {e} /\ e.size \in Nat
    BY <1>2
  <2>2. Numbers(es) = 1 .. e.size
    BY <2>1 DEF Numbers
  <2> DEFINE n == e.size
  <2>3. 1 \in Int /\ n \in Int /\ (n >= 1 \/ n = 0)
    BY <2>1
  <2>4. IsFiniteSet(1 .. n) /\ Cardinality(1 .. n) = IF 1 > n THEN 0 ELSE n - 1 + 1
    BY <2>3, FS_Interval
  <2>5. Cardinality(1 .. n) = n
    BY <2>3, <2>4
  <2>6. \A d : es = {d} => d = e
    BY <2>1
  <2>7. QED
    BY <2>1, <2>2, <2>4, <2>5, <2>6 DEF Bytes
<1>3. QED
  BY <1>1, <1>2 DEF AtMostOne

LEMMA ContentFinite ==
  ASSUME NEW f, Singles(f), NEW ks, ks \subseteq Key, IsFiniteSet(ks)
  PROVE  IsFiniteSet(Content(f, ks)) /\ BytesAt(f, ks) \in Nat
<1> DEFINE part(k) == {k} \X Numbers(f[k])
           P == {part(k) : k \in ks}
           g == [k \in ks |-> part(k)]
<1>1. \A k \in ks : IsFiniteSet(part(k))
  <2> SUFFICES ASSUME NEW k \in ks PROVE IsFiniteSet(part(k))
    OBVIOUS
  <2>1. IsFiniteSet(Numbers(f[k]))
    BY NumbersOf DEF Singles
  <2>2. IsFiniteSet({k})
    BY FS_Singleton
  <2>3. QED
    BY <2>1, <2>2, FS_Product
<1>2. g \in Surjection(ks, P)
  <2>1. g \in [ks -> P]
    OBVIOUS
  <2>2. \A p \in P : \E k \in ks : g[k] = p
    OBVIOUS
  <2>3. QED
    BY <2>1, <2>2 DEF Surjection
<1>3. IsFiniteSet(P)
  BY <1>2, FS_Surjection
<1>4. IsFiniteSet(UNION P)
  BY <1>1, <1>3, FS_UNION
<1>5. UNION P = Content(f, ks)
  BY DEF Content
<1>6. QED
  BY <1>4, <1>5, FS_CardinalityType DEF BytesAt

(* What is cached for the keys gs is part of what is cached.               *)
LEMMA BytesSplit ==
  ASSUME NEW f, Singles(f), NEW ks, ks \subseteq Key, IsFiniteSet(ks), NEW gs, gs \subseteq ks
  PROVE  /\ BytesAt(f, ks \ gs) = BytesAt(f, ks) - BytesAt(f, gs)
         /\ BytesAt(f, ks \ gs) \in Nat /\ BytesAt(f, ks) \in Nat /\ BytesAt(f, gs) \in Nat
<1> DEFINE A == Content(f, ks)
           B == Content(f, gs)
           C == Content(f, ks \ gs)
<1>1. IsFiniteSet(gs) /\ IsFiniteSet(ks \ gs)
  BY FS_Subset, FS_Difference
<1>2. IsFiniteSet(A) /\ IsFiniteSet(B) /\ IsFiniteSet(C)
      /\ BytesAt(f, ks) \in Nat /\ BytesAt(f, gs) \in Nat /\ BytesAt(f, ks \ gs) \in Nat
  BY <1>1, ContentFinite
<1>3. B \cap C = {}
  BY DEF Content
<1>4. A = B \cup C
  BY DEF Content
<1> HIDE DEF A, B, C
<1>5. Cardinality(A) = Cardinality(B) + Cardinality(C) - Cardinality(B \cap C)
  BY <1>2, <1>4, FS_Union
<1>6. Cardinality(B \cap C) = 0
  BY <1>3, FS_EmptySet
<1>7. /\ Cardinality(A) = BytesAt(f, ks) /\ Cardinality(B) = BytesAt(f, gs)
      /\ Cardinality(C) = BytesAt(f, ks \ gs)
  BY DEF BytesAt, A, B, C
<1>8. QED
  BY <1>2, <1>5, <1>6, <1>7

LEMMA BytesSame ==
  ASSUME NEW f, NEW g, NEW ks, \A k \in ks : f[k] = g[k]
  PROVE  BytesAt(f, ks) = BytesAt(g, ks)
<1>1. Content(f, ks) = Content(g, ks)
  BY DEF Content
<1>2. QED
  BY <1>1 DEF BytesAt

LEMMA BytesOfKey ==
  ASSUME NEW f, Singles(f), NEW k \in Key
  PROVE  BytesAt(f, {k}) = Bytes(f[k]) /\ Bytes(f[k]) \in Nat
<1> DEFINE N == Numbers(f[k])
<1>1. IsFiniteSet(N)
  BY NumbersOf DEF Singles
<1>2. IsFiniteSet({k}) /\ Cardinality({k}) = 1
  BY FS_Singleton
<1>3. Content(f, {k}) = {k} \X N
  BY DEF Content
<1> HIDE DEF N
<1>4. Cardinality({k} \X N) = Cardinality({k}) * Cardinality(N) /\ Cardinality(N) \in Nat
  BY <1>1, <1>2, FS_Product, FS_CardinalityType
<1>5. Cardinality({k} \X N) = Cardinality(N)
  BY <1>2, <1>4
<1>6. QED
  BY <1>3, <1>4, <1>5 DEF BytesAt, Bytes, N
-----------------------------------------------------------------------------
(* The order of the keys, each once.                                       *)
Ordered(q) == q \in Seq(Key) /\ IsInjective(q)

LEMMA EmptyOrdered == Ordered(<<>>) /\ ToSet(<<>>) = {} /\ Len(<<>>) = 0
BY DEF Ordered, IsInjective, ToSet

LEMMA AppendOrdered ==
  ASSUME NEW q, Ordered(q), NEW r \in Key, r \notin ToSet(q)
  PROVE  /\ Ordered(Append(q, r)) /\ ToSet(Append(q, r)) = ToSet(q) \cup {r}
<1> DEFINE p == Append(q, r)
<1>1. /\ q \in Seq(Key) /\ Len(q) \in Nat /\ DOMAIN q = 1 .. Len(q)
      /\ \A i, j \in 1 .. Len(q) : q[i] = q[j] => i = j
      /\ \A i \in 1 .. Len(q) : q[i] # r
  BY DEF Ordered, IsInjective, ToSet
<1>2. /\ p \in Seq(Key) /\ Len(p) = Len(q) + 1 /\ p[Len(q) + 1] = r
      /\ \A i \in 1 .. Len(q) : p[i] = q[i]
  BY <1>1, AppendProperties
<1> HIDE DEF p
<1>4. DOMAIN p = 1 .. Len(q) + 1 /\ \A i \in 1 .. Len(q) + 1 : i \in 1 .. Len(q) \/ i = Len(q) + 1
  BY <1>1, <1>2
<1>5. IsInjective(p)
  BY <1>1, <1>2, <1>4 DEF IsInjective
<1>6. ToSet(p) = ToSet(q) \cup {r}
  <2>1. ASSUME NEW x \in ToSet(p)
        PROVE  x \in ToSet(q) \cup {r}
    BY <1>1, <1>2, <1>4 DEF ToSet
  <2>2. Len(q) + 1 \in 1 .. Len(q) + 1 /\ \A i \in 1 .. Len(q) : i \in 1 .. Len(q) + 1
    BY <1>1
  <2>3. ASSUME NEW x \in ToSet(q) \cup {r}
        PROVE  x \in ToSet(p)
    BY <1>1, <1>2, <1>4, <2>2 DEF ToSet
  <2>4. QED
    BY <2>1, <2>3
<1>7. QED
  BY <1>2, <1>5, <1>6 DEF Ordered, p

LEMMA RemoveOrdered ==
  ASSUME NEW q, Ordered(q), NEW i \in DOMAIN q
  PROVE  /\ Ordered(RemoveAt(q, i)) /\ ToSet(RemoveAt(q, i)) = ToSet(q) \ {q[i]}
<1> DEFINE n == Len(q)
           a == SubSeq(q, 1, i - 1)
           b == SubSeq(q, i + 1, n)
           p == a \o b
<1>1. /\ q \in Seq(Key) /\ n \in Nat /\ DOMAIN q = 1 .. n /\ i \in 1 .. n
      /\ \A j, k \in 1 .. n : q[j] = q[k] => j = k
      /\ \A j \in 1 .. n : q[j] \in Key
  BY DEF Ordered, IsInjective
<1>2. /\ a \in Seq(Key) /\ Len(a) = i - 1
      /\ \A j \in 1 .. i - 1 : a[j] = q[j]
  <2>1. 1 \in Int /\ i - 1 \in Int /\ \A j \in 1 .. i - 1 : j \in 1 .. n
    BY <1>1
  <2>2. \A j \in 1 .. i - 1 : q[j] \in Key
    BY <1>1, <2>1
  <2>3. /\ a \in Seq(Key) /\ Len(a) = IF 1 <= i - 1 THEN (i - 1) - 1 + 1 ELSE 0
        /\ \A j \in 1 .. (i - 1) - 1 + 1 : a[j] = q[1 + j - 1]
    BY <2>1, <2>2, SubSeqProperties
  <2>4. QED
    BY <1>1, <2>3
<1>3. /\ b \in Seq(Key) /\ Len(b) = n - i
      /\ \A j \in 1 .. n - i : b[j] = q[i + j]
  <2>1. i + 1 \in Int /\ n \in Int /\ \A j \in i + 1 .. n : j \in 1 .. n
    BY <1>1
  <2>2. \A j \in i + 1 .. n : q[j] \in Key
    BY <1>1, <2>1
  <2>3. /\ b \in Seq(Key) /\ Len(b) = IF i + 1 <= n THEN n - (i + 1) + 1 ELSE 0
        /\ \A j \in 1 .. n - (i + 1) + 1 : b[j] = q[(i + 1) + j - 1]
    BY <2>1, <2>2, SubSeqProperties
  <2>4. QED
    BY <1>1, <2>3
<1> HIDE DEF a, b, n
<1>4. /\ p \in Seq(Key) /\ Len(p) = n - 1
      /\ \A j \in 1 .. n - 1 : p[j] = IF j < i THEN q[j] ELSE q[j + 1]
  <2>1. /\ p \in Seq(Key) /\ Len(p) = Len(a) + Len(b)
        /\ \A j \in 1 .. Len(a) + Len(b) : p[j] = IF j <= Len(a) THEN a[j] ELSE b[j - Len(a)]
    BY <1>2, <1>3, ConcatProperties
  <2>2. Len(a) + Len(b) = n - 1
    BY <1>1, <1>2, <1>3
  <2>3. ASSUME NEW j \in 1 .. n - 1
        PROVE  p[j] = IF j < i THEN q[j] ELSE q[j + 1]
    <3>1. CASE j < i
      BY <1>1, <1>2, <2>1, <2>2, <3>1
    <3>2. CASE ~(j < i)
      <4>1. ~(j <= Len(a)) /\ j - Len(a) \in 1 .. n - i /\ i + (j - Len(a)) = j + 1
        BY <1>1, <1>2, <3>2
      <4>2. QED
        BY <1>3, <2>1, <2>2, <3>2, <4>1
    <3>3. QED
      BY <3>1, <3>2
  <2>4. QED
    BY <2>1, <2>2, <2>3
<1>5. p = RemoveAt(q, i)
  BY DEF RemoveAt, a, b, n
<1> HIDE DEF p
<1>6. DOMAIN p = 1 .. n - 1 /\ \A j \in 1 .. n - 1 : j \in 1 .. n /\ j + 1 \in 1 .. n
  BY <1>1, <1>4
<1>7. IsInjective(p)
  <2> SUFFICES ASSUME NEW j \in 1 .. n - 1, NEW k \in 1 .. n - 1, p[j] = p[k]
               PROVE  j = k
    BY <1>6 DEF IsInjective
  <2>1. j \in Int /\ k \in Int /\ i \in Int
    BY <1>1
  <2> DEFINE jj == IF j < i THEN j ELSE j + 1
             kk == IF k < i THEN k ELSE k + 1
  <2>2. jj \in 1 .. n /\ kk \in 1 .. n /\ q[jj] = q[kk]
    BY <1>4, <1>6
  <2>3. jj = kk
    BY <1>1, <2>2
  <2>4. QED
    BY <2>1, <2>3
<1>8. ToSet(p) = ToSet(q) \ {q[i]}
  <2>1. ASSUME NEW x \in ToSet(p)
        PROVE  x \in ToSet(q) \ {q[i]}
    <3>1. PICK j \in 1 .. n - 1 : x = p[j]
      BY <1>6 DEF ToSet
    <3> DEFINE jj == IF j < i THEN j ELSE j + 1
    <3>2. jj \in 1 .. n /\ x = q[jj]
      BY <1>4, <1>6, <3>1
    <3>3. jj # i
      BY <1>1
    <3> HIDE DEF jj
    <3>4. QED
      BY <1>1, <3>2, <3>3 DEF ToSet
  <2>2. ASSUME NEW x \in ToSet(q) \ {q[i]}
        PROVE  x \in ToSet(p)
    <3>1. PICK j \in 1 .. n : x = q[j]
      BY <1>1 DEF ToSet
    <3>2. j # i /\ j \in Int /\ i \in Int /\ n \in Nat
      BY <1>1, <3>1
    <3>3. CASE j < i
      <4>1. j \in 1 .. n - 1 /\ p[j] = x
        BY <1>1, <1>4, <3>1, <3>2, <3>3
      <4>2. QED
        BY <1>6, <4>1 DEF ToSet
    <3>4. CASE ~(j < i)
      <4>1. j - 1 \in 1 .. n - 1 /\ ~(j - 1 < i) /\ (j - 1) + 1 = j
        BY <1>1, <3>2, <3>4
      <4>2. p[j - 1] = x
        BY <1>4, <3>1, <4>1
      <4>3. QED
        BY <1>6, <4>1, <4>2 DEF ToSet
    <3>5. QED
      BY <3>3, <3>4
  <2>3. QED
    BY <2>1, <2>2
<1>9. QED
  BY <1>4, <1>5, <1>7, <1>8 DEF Ordered

(* The keys of a sequence are finitely many.                               *)
LEMMA KeysFinite ==
  ASSUME NEW q, Ordered(q)
  PROVE  ToSet(q) \subseteq Key /\ IsFiniteSet(ToSet(q))
<1>1. q \in Seq(Key) /\ Len(q) \in Nat /\ DOMAIN q = 1 .. Len(q)
  BY DEF Ordered
<1>2. ToSet(q) \subseteq Key
  BY <1>1 DEF ToSet
<1>3. q \in Surjection(1 .. Len(q), ToSet(q))
  <2>1. q \in [1 .. Len(q) -> ToSet(q)]
    BY <1>1 DEF ToSet
  <2>2. \A x \in ToSet(q) : \E i \in 1 .. Len(q) : q[i] = x
    BY <1>1 DEF ToSet
  <2>3. QED
    BY <2>1, <2>2 DEF Surjection
<1>4. IsFiniteSet(1 .. Len(q))
  BY <1>1, FS_Interval
<1>5. QED
  BY <1>2, <1>3, <1>4, FS_Surjection

LEMMA WithoutOrdered ==
  ASSUME NEW q, Ordered(q), NEW k \in Key
  PROVE  Ordered(Without(q, k)) /\ ToSet(Without(q, k)) = ToSet(q) \ {k}
<1>1. CASE k \notin ToSet(q)
  BY <1>1 DEF Without
<1>2. CASE k \in ToSet(q)
  <2> DEFINE j == CHOOSE j \in DOMAIN q : q[j] = k
  <2>1. \E i \in DOMAIN q : q[i] = k
    BY <1>2 DEF ToSet
  <2>2. j \in DOMAIN q /\ q[j] = k
    BY <2>1
  <2>3. Without(q, k) = RemoveAt(q, j)
    BY <1>2 DEF Without
  <2> HIDE DEF j
  <2>4. QED
    BY <2>2, <2>3, RemoveOrdered
<1>3. QED
  BY <1>1, <1>2

LEMMA TouchedOrdered ==
  ASSUME NEW q, Ordered(q), NEW k \in Key
  PROVE  Ordered(Touched(q, k)) /\ ToSet(Touched(q, k)) = ToSet(q) \cup {k}
<1>1. Ordered(Without(q, k)) /\ ToSet(Without(q, k)) = ToSet(q) \ {k}
  BY WithoutOrdered
<1> DEFINE p == Without(q, k)
<1>2. Ordered(p) /\ k \notin ToSet(p)
  BY <1>1
<1>3. Ordered(Append(p, k)) /\ ToSet(Append(p, k)) = ToSet(p) \cup {k}
  BY <1>2, AppendOrdered
<1>4. QED
  BY <1>1, <1>3 DEF Touched

(* What is left of the order without its m first keys.                     *)
LEMMA RestOrdered ==
  ASSUME NEW q, Ordered(q), NEW m \in 0 .. Len(q)
  PROVE  LET p == SubSeq(q, m + 1, Len(q)) IN
         /\ Ordered(p) /\ Len(p) = Len(q) - m
         /\ ToSet(p) = ToSet(q) \ Oldest(q, m) /\ Oldest(q, m) \subseteq ToSet(q)
<1> DEFINE n == Len(q)
           a == SubSeq(q, 1, m)
           p == SubSeq(q, m + 1, n)
<1>1. /\ q \in Seq(Key) /\ n \in Nat /\ DOMAIN q = 1 .. n /\ m \in 0 .. n
      /\ \A j, k \in 1 .. n : q[j] = q[k] => j = k
      /\ \A j \in 1 .. n : q[j] \in Key
  BY DEF Ordered, IsInjective
<1>2. /\ a \in Seq(Key) /\ Len(a) = m /\ DOMAIN a = 1 .. m
      /\ \A j \in 1 .. m : j \in 1 .. n /\ a[j] = q[j]
  <2>1. 1 \in Int /\ m \in Int /\ m >= 0 /\ \A j \in 1 .. m : j \in 1 .. n
    BY <1>1
  <2>2. \A j \in 1 .. m : q[j] \in Key
    BY <1>1, <2>1
  <2>3. /\ a \in Seq(Key) /\ Len(a) = IF 1 <= m THEN m - 1 + 1 ELSE 0
        /\ \A j \in 1 .. m - 1 + 1 : a[j] = q[1 + j - 1]
    BY <2>1, <2>2, SubSeqProperties
  <2>4. QED
    BY <2>1, <2>3
<1>3. /\ p \in Seq(Key) /\ Len(p) = n - m /\ DOMAIN p = 1 .. n - m
      /\ \A j \in 1 .. n - m : m + j \in 1 .. n /\ p[j] = q[m + j]
  <2>1. m + 1 \in Int /\ n \in Int /\ n >= m /\ \A j \in m + 1 .. n : j \in 1 .. n
    BY <1>1
  <2>2. \A j \in m + 1 .. n : q[j] \in Key
    BY <1>1, <2>1
  <2>3. /\ p \in Seq(Key) /\ Len(p) = IF m + 1 <= n THEN n - (m + 1) + 1 ELSE 0
        /\ \A j \in 1 .. n - (m + 1) + 1 : p[j] = q[(m + 1) + j - 1]
    BY <2>1, <2>2, SubSeqProperties
  <2> HIDE DEF n
  <2>4. n - (m + 1) + 1 = n - m /\ (m + 1 <= n \/ n - m = 0)
    BY <1>1
  <2>5. \A j \in 1 .. n - m : m + j \in 1 .. n /\ (m + 1) + j - 1 = m + j
    BY <1>1
  <2>6. Len(p) = n - m
    BY <2>3, <2>4
  <2>7. \A j \in 1 .. n - m : p[j] = q[m + j]
    BY <2>3, <2>4, <2>5
  <2> HIDE DEF p
  <2>8. DOMAIN p = 1 .. n - m
    BY <2>3, <2>6
  <2>9. QED
    BY <2>3, <2>5, <2>6, <2>7, <2>8
<1>4. ToSet(a) = Oldest(q, m)
  BY DEF Oldest
<1> HIDE DEF a, p, n
<1>5. IsInjective(p)
  <2> SUFFICES ASSUME NEW j \in 1 .. n - m, NEW k \in 1 .. n - m, p[j] = p[k]
               PROVE  j = k
    BY <1>3 DEF IsInjective
  <2>1. m + j = m + k
    BY <1>1, <1>3
  <2>2. QED
    BY <1>1, <2>1
<1>6. ToSet(a) \subseteq ToSet(q)
  BY <1>1, <1>2 DEF ToSet
<1>7. ToSet(p) = ToSet(q) \ ToSet(a)
  <2>1. ASSUME NEW x \in ToSet(p)
        PROVE  x \in ToSet(q) \ ToSet(a)
    <3>1. PICK j \in 1 .. n - m : x = p[j]
      BY <1>3 DEF ToSet
    <3>2. m + j \in 1 .. n /\ x = q[m + j]
      BY <1>3, <3>1
    <3>3. ASSUME NEW i \in 1 .. m, a[i] = x
          PROVE  FALSE
      <4>1. i = m + j
        BY <1>1, <1>2, <3>2, <3>3
      <4>2. QED
        BY <1>1, <4>1
    <3>4. QED
      BY <1>1, <1>2, <3>2, <3>3 DEF ToSet
  <2>2. ASSUME NEW x \in ToSet(q) \ ToSet(a)
        PROVE  x \in ToSet(p)
    <3>1. PICK i \in 1 .. n : x = q[i]
      BY <1>1 DEF ToSet
    <3>2. i \notin 1 .. m
      BY <1>2, <3>1 DEF ToSet
    <3>3. i - m \in 1 .. n - m /\ m + (i - m) = i
      BY <1>1, <3>2
    <3>4. p[i - m] = x
      BY <1>3, <3>1, <3>3
    <3>5. QED
      BY <1>3, <3>3, <3>4 DEF ToSet
  <2>3. QED
    BY <2>1, <2>2
<1>8. QED
  BY <1>3, <1>4, <1>5, <1>6, <1>7 DEF Ordered, p, n

(* A set of numbers that has an element has a least one.                   *)
LEMMA LeastNat ==
  ASSUME NEW S, S \subseteq Nat, S # {}
  PROVE  \E n \in S : \A m \in S : n <= m
<1> DEFINE R == StrictSubsetOrdering(Nat)
           T == {1 .. n : n \in S}
<1>1. IsWellFoundedOn(R, FiniteSubsetsOf(Nat))
  BY FS_StrictSubsetOrderingWellFounded
<1>2. T \subseteq FiniteSubsetsOf(Nat)
  <2>1. 1 \in Int /\ \A n \in S : n \in Int
    OBVIOUS
  <2>2. \A n \in S : IsFiniteSet(1 .. n) /\ 1 .. n \subseteq Nat
    BY <2>1, FS_Interval
  <2>3. QED
    BY <2>2 DEF FiniteSubsetsOf
<1>3. T # {}
  OBVIOUS
<1> HIDE DEF R, T
<1>4. PICK x \in T : \A y \in T : <<y, x>> \notin R
  BY <1>1, <1>2, <1>3, WFMin
<1>5. PICK n \in S : x = 1 .. n
  BY DEF T
<1>6. ASSUME NEW m \in S, ~(n <= m)
      PROVE  FALSE
  <2>1. n \in Nat /\ m \in Nat /\ m < n
    BY <1>6
  <2>2. n \in 1 .. n /\ n \notin 1 .. m /\ 1 .. m \subseteq 1 .. n
    BY <2>1
  <2>3. 1 .. m \in SUBSET Nat /\ 1 .. n \in SUBSET Nat
    BY <2>1
  <2>4. <<1 .. m, 1 .. n>> \in R
    BY <2>2, <2>3 DEF R, StrictSubsetOrdering
  <2>5. 1 .. m \in T
    BY DEF T
  <2>6. QED
    BY <1>4, <1>5, <2>4, <2>5
<1>7. QED
  BY <1>6

(* What gives way is enough.                                               *)
LEMMA EnoughGivesWay ==
  ASSUME NEW f, NEW q, Ordered(q), NEW n
  PROVE  GiveWay(f, q, n) \in 0 .. Len(q) /\ Fits(f, q, n, GiveWay(f, q, n))
<1> DEFINE S == {m \in 0 .. Len(q) : Fits(f, q, n, m)}
<1>1. Len(q) \in Nat
  BY DEF Ordered
<1>2. Len(q) \in S
  BY <1>1 DEF Fits
<1>3. S \subseteq Nat /\ S # {}
  BY <1>2
<1>4. PICK m \in S : \A l \in S : m <= l
  BY <1>3, LeastNat
<1>5. m \in 0 .. Len(q) /\ Fits(f, q, n, m) /\ \A l \in 0 .. Len(q) : Fits(f, q, n, l) => m <= l
  BY <1>4
<1>6. QED
  BY <1>5 DEF GiveWay

-----------------------------------------------------------------------------
(* What a memory counts is what it keeps.                                  *)

(* The memory f, its keys in the order seq, is counted as n bytes.         *)
Counted(f, seq, n) ==
  /\ Singles(f)
  /\ Ordered(seq) /\ ToSet(seq) = {k \in Key : f[k] # {}}
  /\ n = BytesAt(f, Key)

Small(seq, n) == n <= MAX_BYTES /\ Len(seq) <= MAX_ENTRIES

LEMMA BytesCached ==
  ASSUME NEW f, NEW cs, cs \subseteq Key, \A k \in Key \ cs : f[k] = {}
  PROVE  BytesAt(f, Key) = BytesAt(f, cs)
<1>1. \A k \in Key \ cs : {k} \X Numbers(f[k]) = {}
  BY DEF Numbers
<1>2. Content(f, Key) = Content(f, cs)
  BY <1>1 DEF Content
<1>3. QED
  BY <1>2 DEF BytesAt

LEMMA CountedIsNat ==
  ASSUME NEW f, NEW seq, NEW n, Counted(f, seq, n)
  PROVE  n \in Nat /\ n = BytesAt(f, ToSet(seq))
<1>1. ToSet(seq) \subseteq Key /\ IsFiniteSet(ToSet(seq))
  BY KeysFinite DEF Counted
<1>2. \A k \in Key \ ToSet(seq) : f[k] = {}
  BY DEF Counted
<1>3. BytesAt(f, Key) = BytesAt(f, ToSet(seq))
  BY <1>1, <1>2, BytesCached
<1>4. BytesAt(f, ToSet(seq)) \in Nat
  BY <1>1, ContentFinite DEF Counted
<1>5. QED
  BY <1>3, <1>4 DEF Counted

(* The keys gs are dropped.                                                *)
LEMMA DropCounted ==
  ASSUME NEW f, NEW seq, NEW n, Counted(f, seq, n), NEW gs, gs \subseteq ToSet(seq),
         NEW h, h = [j \in Key |-> IF j \in gs THEN {} ELSE f[j]],
         NEW p, Ordered(p), ToSet(p) = ToSet(seq) \ gs
  PROVE  Counted(h, p, n - BytesAt(f, gs))
<1> DEFINE cs == ToSet(seq)
<1>1. cs \subseteq Key /\ IsFiniteSet(cs) /\ n = BytesAt(f, cs) /\ Singles(f)
      /\ cs = {k \in Key : f[k] # {}}
  BY KeysFinite, CountedIsNat DEF Counted
<1>2. Singles(h)
  BY <1>1 DEF Singles, AtMostOne
<1>3. ToSet(p) = {k \in Key : h[k] # {}}
  BY <1>1
<1>4. BytesAt(h, Key) = BytesAt(h, cs \ gs)
  <2>1. cs \ gs \subseteq Key /\ \A k \in Key \ (cs \ gs) : h[k] = {}
    BY <1>1
  <2>2. QED
    BY <2>1, BytesCached
<1>5. BytesAt(h, cs \ gs) = BytesAt(f, cs \ gs)
  <2>1. \A k \in cs \ gs : h[k] = f[k]
    BY <1>1
  <2>2. QED
    BY <2>1, BytesSame
<1>6. BytesAt(f, cs \ gs) = BytesAt(f, cs) - BytesAt(f, gs)
  BY <1>1, BytesSplit
<1>7. QED
  BY <1>1, <1>2, <1>3, <1>4, <1>5, <1>6 DEF Counted

(* An entry takes its place among them.                                    *)
LEMMA PutCounted ==
  ASSUME NEW f, NEW seq, NEW n, Counted(f, seq, n), NEW k \in Key, NEW e, e.size \in Nat
  PROVE  Counted([f EXCEPT ![k] = {e}], Touched(seq, k), n - Bytes(f[k]) + e.size)
<1> DEFINE g == [f EXCEPT ![k] = {e}]
           cs == ToSet(seq)
           ds == cs \cup {k}
<1>1. /\ cs \subseteq Key /\ IsFiniteSet(cs) /\ n = BytesAt(f, cs) /\ n \in Nat /\ Singles(f)
      /\ cs = {j \in Key : f[j] # {}}
  BY KeysFinite, CountedIsNat DEF Counted
<1>2. g[k] = {e} /\ \A j \in Key : j # k => g[j] = f[j]
  BY <1>1 DEF Singles
<1>3. Singles(g)
  <2>1. AtMostOne({e})
    BY DEF AtMostOne
  <2>2. DOMAIN g = Key
    BY <1>1 DEF Singles
  <2>3. QED
    BY <1>1, <1>2, <2>1, <2>2 DEF Singles
<1> HIDE DEF g
<1>4. Ordered(Touched(seq, k)) /\ ToSet(Touched(seq, k)) = ds
  BY TouchedOrdered DEF Counted
<1>5. ds = {j \in Key : g[j] # {}}
  BY <1>1, <1>2
<1>6. ds \subseteq Key /\ IsFiniteSet(ds) /\ {k} \subseteq ds /\ ds \ {k} = cs \ {k}
  BY <1>1, FS_AddElement
<1>7. BytesAt(g, Key) = BytesAt(g, ds)
  <2>1. \A j \in Key \ ds : g[j] = {}
    BY <1>5
  <2>2. QED
    BY <1>6, <2>1, BytesCached
<1>8. /\ BytesAt(g, cs \ {k}) = BytesAt(g, ds) - BytesAt(g, {k})
      /\ BytesAt(g, ds) \in Nat
  BY <1>3, <1>6, BytesSplit
<1>9. BytesAt(g, {k}) = e.size
  <2>1. BytesAt(g, {k}) = Bytes({e})
    BY <1>2, <1>3, BytesOfKey
  <2>2. AtMostOne({e})
    BY DEF AtMostOne
  <2>3. QED
    BY <2>1, <2>2, NumbersOf
<1>10. BytesAt(g, cs \ {k}) = BytesAt(f, cs \ {k})
  <2>1. \A j \in cs \ {k} : g[j] = f[j]
    BY <1>1, <1>2
  <2>2. QED
    BY <2>1, BytesSame
<1>11. BytesAt(f, cs \ {k}) = n - Bytes(f[k]) /\ Bytes(f[k]) \in Nat
  <2>1. BytesAt(f, {k}) = Bytes(f[k]) /\ Bytes(f[k]) \in Nat
    BY <1>1, BytesOfKey
  <2>2. CASE k \in cs
    <3>1. {k} \subseteq cs
      BY <2>2
    <3>2. BytesAt(f, cs \ {k}) = BytesAt(f, cs) - BytesAt(f, {k})
      BY <1>1, <3>1, BytesSplit
    <3>3. QED
      BY <1>1, <2>1, <3>2
  <2>3. CASE k \notin cs
    <3>1. f[k] = {} /\ cs \ {k} = cs
      BY <1>1, <2>3
    <3>2. AtMostOne({})
      BY DEF AtMostOne
    <3>3. Bytes(f[k]) = 0
      BY <3>1, <3>2, NumbersOf
    <3>4. BytesAt(f, cs \ {k}) = n
      BY <1>1, <3>1
    <3>5. n - 0 = n
      BY <1>1
    <3>6. QED
      BY <2>1, <3>3, <3>4, <3>5
  <2>4. QED
    BY <2>2, <2>3
<1>12. n - Bytes(f[k]) + e.size = BytesAt(g, Key)
  <2> DEFINE a == BytesAt(g, ds)
             b == Bytes(f[k])
             c == e.size
  <2>1. a \in Nat /\ b \in Nat /\ c \in Nat /\ n \in Nat /\ n - b = a - c
    BY <1>1, <1>8, <1>9, <1>10, <1>11
  <2>2. BytesAt(g, Key) = a
    BY <1>7
  <2> HIDE DEF a, b, c
  <2>3. n - b + c = a
    BY <2>1
  <2>4. QED
    BY <2>2, <2>3 DEF a, b, c
<1>13. Counted(g, Touched(seq, k), n - Bytes(f[k]) + e.size)
  BY <1>3, <1>4, <1>5, <1>12 DEF Counted
<1>14. QED
  BY <1>13 DEF g

(* What gives way leaves few enough entries and bytes.                     *)
LEMMA EvictCounted ==
  ASSUME NEW g, NEW q, NEW n, Counted(g, q, n), NEW m, m = GiveWay(g, q, n),
         NEW h, h = [j \in Key |-> IF j \in Oldest(q, m) THEN {} ELSE g[j]]
  PROVE  /\ Counted(h, SubSeq(q, m + 1, Len(q)), n - BytesAt(g, Oldest(q, m)))
         /\ Small(SubSeq(q, m + 1, Len(q)), n - BytesAt(g, Oldest(q, m)))
<1> DEFINE p == SubSeq(q, m + 1, Len(q))
           o == Oldest(q, m)
           b == n - BytesAt(g, o)
<1>1. Ordered(q) /\ Len(q) \in Nat
  BY DEF Counted, Ordered
<1>2. m \in 0 .. Len(q) /\ Fits(g, q, n, m)
  BY <1>1, EnoughGivesWay
<1>3. /\ Ordered(p) /\ Len(p) = Len(q) - m
      /\ ToSet(p) = ToSet(q) \ o /\ o \subseteq ToSet(q)
  BY <1>1, <1>2, RestOrdered
<1> HIDE DEF p
<1>4. Counted(h, p, b)
  BY <1>3, DropCounted
<1>5. Small(p, b)
  <2>1. CASE m = Len(q)
    <3>1. Len(p) = 0
      BY <1>1, <1>3, <2>1
    <3>2. ToSet(p) = {}
      BY <1>3, <3>1 DEF Ordered, ToSet
    <3>3. b = BytesAt(h, {})
      BY <1>4, <3>2, CountedIsNat
    <3>4. Content(h, {}) = {}
      BY DEF Content
    <3>5. b = 0
      BY <3>3, <3>4, FS_EmptySet DEF BytesAt
    <3>6. QED
      BY <3>1, <3>5, LimitAssumption DEF Small
  <2>2. CASE m # Len(q)
    <3>1. Len(q) - m <= MAX_ENTRIES /\ n - BytesAt(g, o) <= MAX_BYTES
      BY <1>2, <2>2 DEF Fits
    <3>2. QED
      BY <1>3, <3>1 DEF Small
  <2>3. QED
    BY <2>1, <2>2
<1>6. QED
  BY <1>4, <1>5 DEF p

(* Sequences of the same keys, each once, are of the same length.          *)
LEMMA LengthOf ==
  ASSUME NEW q, Ordered(q)
  PROVE  Len(q) = Cardinality(ToSet(q)) /\ Len(q) \in Nat
<1>1. q \in Seq(Key) /\ Len(q) \in Nat /\ DOMAIN q = 1 .. Len(q)
      /\ \A i, j \in 1 .. Len(q) : q[i] = q[j] => i = j
  BY DEF Ordered, IsInjective
<1>2. q \in [1 .. Len(q) -> ToSet(q)] /\ \A x \in ToSet(q) : \E i \in 1 .. Len(q) : q[i] = x
  BY <1>1 DEF ToSet
<1>3. q \in Bijection(1 .. Len(q), ToSet(q))
  BY <1>1, <1>2 DEF Bijection, Injection, Surjection, IsInjective
<1>4. ExistsBijection(1 .. Len(q), ToSet(q))
  BY <1>3 DEF ExistsBijection
<1>5. QED
  BY <1>1, <1>4, FS_CountingElements

-----------------------------------------------------------------------------

(* The inductive invariant of the memories.                                *)
MemoryKept ==
  /\ DOMAIN memory = Isolate /\ order \in [Isolate -> Seq(Key)] /\ memoryBytes \in [Isolate -> Nat]
  /\ \A i \in Isolate :
       Counted(memory[i], order[i], memoryBytes[i]) /\ Small(order[i], memoryBytes[i])

LEMMA BecomeKeeps ==
  ASSUME MemoryKept, NEW i \in Isolate, NEW f, NEW seq, NEW n, Become(i, f, seq, n),
         Counted(f, seq, n), Small(seq, n)
  PROVE  MemoryKept'
<1>1. n \in Nat /\ seq \in Seq(Key)
  BY CountedIsNat DEF Counted, Ordered
<1>2. /\ DOMAIN memory' = Isolate
      /\ memory'[i] = f /\ \A j \in Isolate : j # i => memory'[j] = memory[j]
  BY DEF Become, MemoryKept
<1>3. /\ order' \in [Isolate -> Seq(Key)]
      /\ order'[i] = seq /\ \A j \in Isolate : j # i => order'[j] = order[j]
  BY <1>1 DEF Become, MemoryKept
<1>4. /\ memoryBytes' \in [Isolate -> Nat]
      /\ memoryBytes'[i] = n /\ \A j \in Isolate : j # i => memoryBytes'[j] = memoryBytes[j]
  BY <1>1 DEF Become, MemoryKept
<1>5. ASSUME NEW j \in Isolate
      PROVE  /\ Counted(memory'[j], order'[j], memoryBytes'[j])
             /\ Small(order'[j], memoryBytes'[j])
  <2>1. CASE j = i
    BY <1>2, <1>3, <1>4, <2>1
  <2>2. CASE j # i
    <3>1. memory'[j] = memory[j] /\ order'[j] = order[j] /\ memoryBytes'[j] = memoryBytes[j]
      BY <1>2, <1>3, <1>4, <2>2
    <3>2. QED
      BY <3>1 DEF MemoryKept
  <2>3. QED
    BY <2>1, <2>2
<1>6. QED
  BY <1>2, <1>3, <1>4, <1>5 DEF MemoryKept, Counted, Small, Singles, AtMostOne, Ordered, IsInjective

LEMMA MemGetKept ==
  ASSUME MemoryKept, NEW i \in Isolate, NEW k \in Key, memGet(i, k, now)
  PROVE  MemoryKept'
<1> DEFINE f == memory[i]
           q == order[i]
           n == memoryBytes[i]
<1>1. Counted(f, q, n) /\ Small(q, n)
  BY DEF MemoryKept
<1>2. Singles(f) /\ Ordered(q) /\ ToSet(q) = {j \in Key : f[j] # {}} /\ n \in Nat
  BY <1>1, CountedIsNat DEF Counted
<1>3. CASE Live(f[k], now) # {}
  <2>1. Become(i, f, Touched(q, k), n)
    BY <1>3 DEF memGet
  <2>2. k \in ToSet(q)
    BY <1>2, <1>3 DEF Live
  <2>3. Ordered(Touched(q, k)) /\ ToSet(Touched(q, k)) = ToSet(q)
    BY <1>2, <2>2, TouchedOrdered
  <2>4. Counted(f, Touched(q, k), n)
    BY <1>1, <2>3 DEF Counted
  <2>5. Len(Touched(q, k)) = Len(q)
    BY <1>2, <2>3, LengthOf
  <2>6. Small(Touched(q, k), n)
    BY <1>1, <2>5 DEF Small
  <2>7. QED
    BY <2>1, <2>4, <2>6, BecomeKeeps
<1>4. CASE ~(Live(f[k], now) # {})
  <2> DEFINE h == [f EXCEPT ![k] = {}]
             p == Without(q, k)
             b == n - Bytes(f[k])
  <2>1. Become(i, h, p, b)
    BY <1>4 DEF memGet
  <2>2. Ordered(p) /\ ToSet(p) = ToSet(q) \ {k}
    BY <1>2, WithoutOrdered
  <2>3. BytesAt(f, {k}) = Bytes(f[k]) /\ Bytes(f[k]) \in Nat
    BY <1>2, BytesOfKey
  <2>4. Counted(h, p, b)
    <3>1. CASE k \in ToSet(q)
      <4>1. h = [j \in Key |-> IF j \in {k} THEN {} ELSE f[j]]
        BY <1>2 DEF Singles
      <4>2. {k} \subseteq ToSet(q)
        BY <3>1
      <4> HIDE DEF h, p
      <4>3. Counted(h, p, n - BytesAt(f, {k}))
        BY <1>1, <2>2, <4>1, <4>2, DropCounted
      <4>4. QED
        BY <2>3, <4>3
    <3>2. CASE k \notin ToSet(q)
      <4>1. f[k] = {} /\ ToSet(p) = ToSet(q)
        BY <1>2, <2>2, <3>2
      <4>2. DOMAIN h = Key /\ \A j \in Key : h[j] = f[j]
        BY <1>2, <4>1 DEF Singles
      <4>3. AtMostOne({})
        BY DEF AtMostOne
      <4>4. Bytes(f[k]) = 0
        BY <4>1, <4>3, NumbersOf
      <4>5. n - 0 = n
        BY <1>2
      <4>6. b = n
        BY <4>4, <4>5
      <4> HIDE DEF h, p, b
      <4>7. Singles(h) /\ ToSet(p) = {j \in Key : h[j] # {}}
        BY <1>2, <4>1, <4>2 DEF Singles
      <4>8. BytesAt(h, Key) = BytesAt(f, Key)
        BY <4>2, BytesSame
      <4>9. QED
        BY <1>1, <2>2, <4>6, <4>7, <4>8 DEF Counted
    <3>3. QED
      BY <3>1, <3>2
  <2>5. Small(p, b)
    <3>1. IsFiniteSet(ToSet(q)) /\ ToSet(p) \subseteq ToSet(q)
      BY <1>2, <2>2, KeysFinite
    <3>2. Len(p) <= Len(q) /\ Len(p) \in Nat /\ Len(q) \in Nat
      BY <1>2, <2>2, <3>1, LengthOf, FS_Subset
    <3>3. b <= n
      BY <1>2, <2>3
    <3>4. b \in Int
      BY <1>2, <2>3
    <3> HIDE DEF p, q, b, n, f
    <3>5. QED
      BY <1>1, <1>2, <3>2, <3>3, <3>4, LimitAssumption DEF Small
  <2>6. QED
    BY <2>1, <2>4, <2>5, BecomeKeeps
<1>5. QED
  BY <1>3, <1>4

LEMMA MemPutKept ==
  ASSUME MemoryKept, NEW i \in Isolate, NEW k \in Key, NEW e, e.size \in Nat, memPut(i, k, e)
  PROVE  MemoryKept'
<1> DEFINE f == memory[i]
           g == [f EXCEPT ![k] = {e}]
           q == Touched(order[i], k)
           n == CountedWith(i, k, e)
           m == GiveWay(g, q, n)
           gone == Oldest(q, m)
           h == [j \in Key |-> IF j \in gone THEN {} ELSE g[j]]
<1>1. CASE e.size > MAX_BODY
  <2>1. UNCHANGED memoryVars
    BY <1>1 DEF memPut
  <2>2. QED
    BY <2>1 DEF memoryVars, MemoryKept, Counted, Small, Singles, AtMostOne, Ordered, IsInjective
<1>2. CASE ~(e.size > MAX_BODY)
  <2>1. Become(i, h, SubSeq(q, m + 1, Len(q)), n - BytesAt(g, gone))
    BY <1>2 DEF memPut
  <2>2. Counted(f, order[i], memoryBytes[i])
    BY DEF MemoryKept
  <2>3. Counted(g, q, n)
    BY <2>2, PutCounted DEF CountedWith
  <2> HIDE DEF g, q, n
  <2>4. /\ Counted(h, SubSeq(q, m + 1, Len(q)), n - BytesAt(g, gone))
        /\ Small(SubSeq(q, m + 1, Len(q)), n - BytesAt(g, gone))
    BY <2>3, EvictCounted
  <2>5. QED
    BY <2>1, <2>4, BecomeKeeps
<1>3. QED
  BY <1>1, <1>2

LEMMA ClearKept ==
  ASSUME MemoryKept, NEW i \in Isolate, clearMemoryCache(i)
  PROVE  MemoryKept'
<1> DEFINE f == memory[i]
           q == order[i]
           n == memoryBytes[i]
           h == [k \in Key |-> {}]
<1>1. Counted(f, q, n) /\ n \in Nat /\ n = BytesAt(f, ToSet(q)) /\ n = BytesAt(f, Key)
      /\ ToSet(q) = {k \in Key : f[k] # {}}
  BY CountedIsNat DEF MemoryKept, Counted
<1>2. Become(i, h, <<>>, n - n)
  BY <1>1 DEF clearMemoryCache
<1>3. h = [k \in Key |-> IF k \in ToSet(q) THEN {} ELSE f[k]]
  BY <1>1
<1>4. Ordered(<<>>) /\ ToSet(<<>>) = ToSet(q) \ ToSet(q) /\ Len(<<>>) = 0
  BY EmptyOrdered
<1> HIDE DEF f, q, n, h
<1>5. Counted(h, <<>>, n - BytesAt(f, ToSet(q)))
  BY <1>1, <1>3, <1>4, DropCounted
<1>6. Counted(h, <<>>, n - n)
  BY <1>1, <1>5
<1>7. n - n = 0
  BY <1>1
<1>8. Small(<<>>, n - n)
  BY <1>4, <1>7, LimitAssumption DEF Small
<1>9. QED
  BY <1>2, <1>6, <1>8, BecomeKeeps

LEMMA MemoryKeptInit == Init => MemoryKept
<1> SUFFICES ASSUME Init PROVE MemoryKept
  OBVIOUS
<1> DEFINE h == [k \in Key |-> {}]
<1>1. /\ DOMAIN memory = Isolate /\ order = [i \in Isolate |-> <<>>]
      /\ memoryBytes = [i \in Isolate |-> 0] /\ \A i \in Isolate : memory[i] = h
  BY DEF Init, MemoryInit
<1>2. Singles(h) /\ ToSet(<<>>) = {k \in Key : h[k] # {}}
  BY EmptyOrdered DEF Singles, AtMostOne
<1>3. BytesAt(h, Key) = 0
  <2>1. Content(h, Key) = {}
    BY DEF Content, Numbers
  <2>2. QED
    BY <2>1, FS_EmptySet DEF BytesAt
<1> HIDE DEF h
<1>4. Counted(h, <<>>, 0) /\ Small(<<>>, 0)
  BY <1>2, <1>3, EmptyOrdered, LimitAssumption DEF Counted, Small
<1>5. order \in [Isolate -> Seq(Key)] /\ memoryBytes \in [Isolate -> Nat]
  BY <1>1
<1>6. \A i \in Isolate : order[i] = <<>> /\ memoryBytes[i] = 0
  BY <1>1
<1>7. QED
  BY <1>1, <1>4, <1>5, <1>6 DEF MemoryKept

LEMMA MemoryKeptStep ==
  ASSUME AgeInv, MemoryKept, [Next]_vars
  PROVE  MemoryKept'
<1>1. CASE UNCHANGED memoryVars
  BY <1>1 DEF memoryVars, MemoryKept, Counted, Small, Singles, AtMostOne, Ordered, IsInjective
<1>2. ASSUME NEW r \in Reader, NEW i \in Isolate, NEW k \in Key, Get(r, i, k)
      PROVE  MemoryKept'
  BY <1>2, MemGetKept DEF Get
<1>3. ASSUME NEW r \in Reader, Hit(r) \/ Store(r)
      PROVE  MemoryKept'
  <2> DEFINE q == reader[r]
             e == EntryOf(q.key, q.copy, q.start + EDGE_TTL)
  <2>1. memPut(q.isolate, q.key, e)
    BY <1>3 DEF Hit, Store
  <2>2. q \in Request
    BY DEF AgeInv, CopiesTypeOK
  <2>3. q.key \in Key /\ q.isolate \in Isolate /\ q.copy \in Copy /\ q.start + EDGE_TTL \in Nat
    BY <2>2, NumberAssumption DEF Request
  <2> HIDE DEF q
  <2>4. e \in Entry(Copy)
    BY <2>3, EntryOfType
  <2> HIDE DEF e
  <2>5. e.size \in Nat
    BY <2>4 DEF Entry
  <2>6. QED
    BY <2>1, <2>3, <2>5, MemPutKept
<1>4. ASSUME PurgeMemory
      PROVE  MemoryKept'
  <2>1. purge.isolate \in Isolate
    BY DEF AgeInv, CopiesTypeOK
  <2>2. QED
    BY <1>4, <2>1, ClearKept DEF PurgeMemory
<1>5. QED
  BY <1>1, <1>2, <1>3, <1>4
     DEF Next, vars, Match, Read, Sign, Fail, PutAtEdge, Register, PurgeEdge, Tick

LEMMA KeptAlways == Spec => []MemoryKept
<1>1. AgeInv /\ MemoryKept /\ [Next]_vars => MemoryKept'
  BY MemoryKeptStep
<1>2. QED
  BY <1>1, MemoryKeptInit, CopiesAge, PTL DEF Spec

(* Whatever concurrent requests put, replace, look up and clear, what a    *)
(* memory counts are the bytes of its entries, its order lists them each   *)
(* once, and neither limit is exceeded (cache.ts:33-69).                   *)
THEOREM MemoryCounts == Spec => []MemoryBounded
<1>1. ASSUME MemoryKept PROVE MemoryBounded
  BY <1>1 DEF MemoryKept, MemoryBounded, Counted, Small, Ordered, Cached
<1>2. QED
  BY <1>1, KeptAlways, PTL

PurgeOK == purge \in Purge /\ alone \in BOOLEAN

(* Every variable keeps its type: no count of bytes falls below 0          *)
(* (cache.ts:39, 50, 56, 66).                                              *)
THEOREM EdgeTypes == Spec => []TypeOK
<1>1. Init => PurgeOK
  <2>1. AnIsolate \in Isolate
    BY KeyAssumption DEF AnIsolate
  <2>2. [isolate |-> AnIsolate, memory |-> FALSE, left |-> {}] \in Purge
    BY <2>1 DEF Purge
  <2>3. ASSUME Init PROVE purge \in Purge
    BY <2>2, <2>3 DEF Init
  <2>4. ASSUME Init PROVE alone \in BOOLEAN
    BY <2>4 DEF Init
  <2>5. QED
    BY <2>3, <2>4 DEF PurgeOK
<1>2. ASSUME PurgeOK, [Next]_vars PROVE PurgeOK'
  <2>1. purge' \in Purge
    <3>1. CASE purge' = purge
      BY <1>2, <3>1 DEF PurgeOK
    <3>2. ASSUME NEW i \in Isolate, Register(i) PROVE purge' \in Purge
      BY <3>2 DEF Register, Purge
    <3>3. CASE PurgeMemory \/ \E k \in Exact : PurgeEdge(k)
      BY <1>2, <3>3 DEF PurgeOK, PurgeMemory, PurgeEdge, Purge
    <3>4. QED
      BY <1>2, <3>1, <3>2, <3>3
         DEF Next, vars, restVars, Get, Match, Hit, Read, Sign, Store, Fail, PutAtEdge, Tick
  <2>2. alone' \in BOOLEAN
    <3>1. CASE alone' = alone
      BY <1>2, <3>1 DEF PurgeOK
    <3>2. ASSUME NEW r \in Reader, NEW i \in Isolate, NEW k \in Key, Get(r, i, k)
          PROVE  alone' \in BOOLEAN
      BY <3>2, Zenon DEF Get
    <3>3. CASE PurgeMemory
      BY <3>3, Zenon DEF PurgeMemory
    <3>4. ASSUME NEW i \in Isolate, Register(i) PROVE alone' \in BOOLEAN
      BY <3>4 DEF Register
    <3>5. QED
      BY <1>2, <3>1, <3>2, <3>3, <3>4
         DEF Next, vars, restVars, Match, Hit, Read, Sign, Store, Fail, PutAtEdge, PurgeEdge, Tick
  <2>3. QED
    BY <2>1, <2>2 DEF PurgeOK
<1>3. AgeInv /\ MemoryKept /\ PurgeOK => TypeOK
  BY DEF AgeInv, CopiesTypeOK, MemoryKept, PurgeOK, TypeOK
<1>4. QED
  BY <1>1, <1>2, <1>3, CopiesAge, KeptAlways, PTL DEF Spec

=============================================================================
