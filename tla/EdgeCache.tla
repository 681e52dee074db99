----------------------------- MODULE EdgeCache ------------------------------
(***************************************************************************)
(* The read path of the directory (directory/src/cache.ts, routes/read.ts): *)
(* the memory cache of each isolate, the Cache API behind it, D1 and the   *)
(* signing key behind both, and the purge that follows a registration.     *)
(*                                                                         *)
(* Requests and purges run concurrently, one atomic step from await to     *)
(* await.  What a response says is the version of the registry it was read *)
(* from; a registration makes a new one.  Requests for agents that do not  *)
(* exist (a 404 is not cached) and methods other than GET (which pass      *)
(* through) are left out; a 304 is answered where a 200 is.                *)
(***************************************************************************)
EXTENDS MemoryCache

CONSTANTS
  Exact,       (* the keys a purge deletes at the edge: no query, no cursor *)
  Reader,      (* concurrent GET requests                                  *)
  Latency,     (* bound on the time a request takes, and on the time from  *)
               (* its signature to the end of its put                      *)
  EDGE_TTL,    (* EDGE_TTL_SECONDS                                         *)
  LIFETIME,    (* how long a signature is valid                            *)
  Size,        (* [Key \X Version -> Nat], the bytes of a body             *)
  MaxVersion,  (* bound on the registrations                               *)
  MaxTime      (* bound on the clock                                       *)

ASSUME KeyAssumption == Exact \subseteq Key /\ Key # {} /\ Isolate # {}
ASSUME NumberAssumption ==
  /\ Latency \in Nat /\ EDGE_TTL \in Nat \ {0} /\ LIFETIME \in Nat
  /\ MaxTime \in Nat /\ MaxVersion \in Nat
ASSUME SizeAssumption == Size \in [Key \X (0 .. MaxVersion) -> Nat]

VARIABLES
  now,       (* Date.now()                                                 *)
  version,   (* the registry in D1                                         *)
  since,     (* history: when each version was written                     *)
  edge,      (* per key: what caches.default holds, {} or one entry        *)
  reader,    (* per reader: the state of its request                       *)
  putting,   (* the cache.put calls under way in the background            *)
  purge,     (* the purge after a registration: where, and what is left    *)
  alone      (* history: no request or put has overlapped the last purge   *)

Version == 0 .. MaxVersion

(* A response: the version it was read from and when it was signed.        *)
Copy == [version : Version, signed : 0 .. MaxTime]
NoCopy == [version |-> 0, signed |-> 0]

EntryOf(k, c, t) == [copy |-> c, size |-> Size[k, c.version], until |-> t]

restVars == <<now, version, since, edge, reader, putting, purge, alone>>
vars == <<memoryVars, restVars>>

-----------------------------------------------------------------------------

(* A request: where it runs, what for, since when, the copy in its hands.  *)
Stage == {"idle", "match", "hit", "read", "sign", "store"}
Request == [stage : Stage, isolate : Isolate, key : Key, start : 0 .. MaxTime, copy : Copy]
Put == [key : Key, copy : Copy]
Purge == [isolate : Isolate, memory : BOOLEAN, left : SUBSET Exact]

AnIsolate == CHOOSE i \in Isolate : TRUE
Idle == [stage |-> "idle", isolate |-> AnIsolate, key |-> CHOOSE k \in Key : TRUE,
         start |-> 0, copy |-> NoCopy]

Init ==
  /\ MemoryInit
  /\ now = 0
  /\ version = 0
  /\ since = [v \in Version |-> 0]
  /\ edge = [k \in Key |-> {}]
  /\ reader = [r \in Reader |-> Idle]
  /\ putting = {}
  /\ purge = [isolate |-> AnIsolate, memory |-> FALSE, left |-> {}]
  /\ alone = FALSE

At(r, stage, c) ==
  [stage |-> stage, isolate |-> reader[r].isolate, key |-> reader[r].key,
   start |-> reader[r].start, copy |-> c]
Step(r, stage, c) == reader' = [reader EXCEPT ![r] = At(r, stage, c)]
Answer(r) == reader' = [reader EXCEPT ![r] = Idle]

Purging == purge.memory \/ purge.left # {}

(* A request looks into the memory of the isolate it reached, and is       *)
(* answered from there or goes on to the edge.                             *)
Get(r, i, k) ==
  /\ reader[r].stage = "idle"
  /\ memGet(i, k, now)
  /\ reader' = IF Live(memory[i][k], now) # {} THEN reader
               ELSE [reader EXCEPT ![r] = [stage |-> "match", isolate |-> i, key |-> k,
                                           start |-> now, copy |-> NoCopy]]
  /\ alone' = (alone /\ ~Purging)
  /\ UNCHANGED <<now, version, since, edge, putting, purge>>

(* cache.match answers: nothing, which it always may, or an entry that is  *)
(* not past its s-maxage.                                                  *)
Match(r) ==
  /\ reader[r].stage = "match"
  /\ \/ \E e \in Live(edge[reader[r].key], now) : Step(r, "hit", e.copy)
     \/ Step(r, "read", NoCopy)
  /\ UNCHANGED <<memoryVars, now, version, since, edge, putting, purge, alone>>

(* Its body is read; it is kept in memory for EDGE_TTL, and sent.          *)
Hit(r) ==
  LET q == reader[r] IN
  /\ q.stage = "hit"
  /\ memPut(q.isolate, q.key, EntryOf(q.key, q.copy, q.start + EDGE_TTL))
  /\ Answer(r)
  /\ UNCHANGED <<now, version, since, edge, putting, purge, alone>>

(* The handler reads D1.                                                   *)
Read(r) ==
  /\ reader[r].stage = "read"
  /\ Step(r, "sign", [NoCopy EXCEPT !.version = version])
  /\ UNCHANGED <<memoryVars, now, version, since, edge, putting, purge, alone>>

(* It takes the time, signs, and builds the response.                      *)
Sign(r) ==
  /\ reader[r].stage = "sign"
  /\ Step(r, "store", [reader[r].copy EXCEPT !.signed = now])
  /\ UNCHANGED <<memoryVars, now, version, since, edge, putting, purge, alone>>

(* Its digest is taken, it is kept in memory, a put to the edge is started *)
(* in the background, and it is sent.                                      *)
Store(r) ==
  LET q == reader[r] IN
  /\ q.stage = "store"
  /\ memPut(q.isolate, q.key, EntryOf(q.key, q.copy, q.start + EDGE_TTL))
  /\ putting' = putting \cup {[key |-> q.key, copy |-> q.copy]}
  /\ Answer(r)
  /\ UNCHANGED <<now, version, since, edge, purge, alone>>

(* Slip: no s-maxage, and the edge goes by the max-age clients see.        *)
PutForMaxAge(p) ==
  /\ putting' = putting \ {p}
  /\ \/ edge' = [edge EXCEPT ![p.key] = {EntryOf(p.key, p.copy, now + LIFETIME)}]
     \/ UNCHANGED edge
  /\ UNCHANGED <<memoryVars, now, version, since, reader, purge, alone>>

(* A put takes effect, for s-maxage from now on, or fails.                 *)
PutAtEdge(p) ==
  /\ putting' = putting \ {p}
  /\ \/ edge' = [edge EXCEPT ![p.key] = {EntryOf(p.key, p.copy, now + EDGE_TTL)}]
     \/ UNCHANGED edge
  /\ UNCHANGED <<memoryVars, now, version, since, reader, purge, alone>>

(* A handler fails; onError answers 500, which is not cached.              *)
Fail(r) ==
  /\ reader[r].stage # "idle"
  /\ Answer(r)
  /\ UNCHANGED <<memoryVars, now, version, since, edge, putting, purge, alone>>

-----------------------------------------------------------------------------

(* A registration handled by the isolate i writes its row.                 *)
Register(i) ==
  /\ version < MaxVersion
  /\ ~Purging
  /\ version' = version + 1
  /\ since' = [since EXCEPT ![version + 1] = now]
  /\ purge' = [isolate |-> i, memory |-> TRUE, left |-> Exact]
  /\ alone' = FALSE
  /\ UNCHANGED <<memoryVars, now, edge, reader, putting>>

(* One statement later the purge starts: the isolate's memory is cleared   *)
(* of the agent's directory and of all pages before the first await.       *)
PurgeMemory ==
  /\ purge.memory
  /\ clearMemoryCache(purge.isolate)
  /\ purge' = [purge EXCEPT !.memory = FALSE]
  /\ alone' = (putting = {} /\ \A r \in Reader : reader[r].stage = "idle")
  /\ UNCHANGED <<now, version, since, edge, reader, putting>>

(* Slip: only the first key is deleted at the edge.                        *)
PurgeEdgeOnce(k) ==
  /\ ~purge.memory /\ k \in purge.left
  /\ edge' = [edge EXCEPT ![k] = {}]
  /\ purge' = [purge EXCEPT !.left = {}]
  /\ UNCHANGED <<memoryVars, now, version, since, reader, putting, alone>>

(* The deletions at the edge, in any order.                                *)
PurgeEdge(k) ==
  /\ ~purge.memory /\ k \in purge.left
  /\ edge' = [edge EXCEPT ![k] = {}]
  /\ purge' = [purge EXCEPT !.left = @ \ {k}]
  /\ UNCHANGED <<memoryVars, now, version, since, reader, putting, alone>>

(* Time passes, and no request or put takes longer than Latency.  The edge *)
(* drops what is past its s-maxage.                                        *)
Tick ==
  /\ now < MaxTime
  /\ \A r \in Reader : reader[r].stage # "idle" => now < reader[r].start + Latency
  /\ \A p \in putting : now < p.copy.signed + Latency
  /\ now' = now + 1
  /\ edge' = [k \in Key |-> Live(edge[k], now + 1)]
  /\ UNCHANGED <<memoryVars, version, since, reader, putting, purge, alone>>

Next ==
  \/ \E r \in Reader, i \in Isolate, k \in Key : Get(r, i, k)
  \/ \E r \in Reader : Match(r) \/ Hit(r) \/ Read(r) \/ Sign(r) \/ Store(r) \/ Fail(r)
  \/ \E p \in putting : PutAtEdge(p)
  \/ \E i \in Isolate : Register(i)
  \/ PurgeMemory
  \/ \E k \in Exact : PurgeEdge(k)
  \/ Tick

Spec == Init /\ [][Next]_vars

-----------------------------------------------------------------------------

TypeOK ==
  /\ memory \in [Isolate -> [Key -> SUBSET Entry(Copy)]]
  /\ order \in [Isolate -> Seq(Key)]
  /\ memoryBytes \in [Isolate -> Nat]
  /\ now \in 0 .. MaxTime
  /\ version \in Version
  /\ since \in [Version -> 0 .. MaxTime]
  /\ edge \in [Key -> SUBSET Entry(Copy)]
  /\ reader \in [Reader -> Request]
  /\ putting \subseteq Put
  /\ purge \in Purge
  /\ alone \in BOOLEAN

(* The copies a request may be answered with from a cache right now.       *)
Served(k) ==
  {e.copy : e \in Live(edge[k] \cup UNION {memory[i][k] : i \in Isolate}, now)}

(* A copy that is served from either cache was signed less than two times  *)
(* EDGE_TTL, and a request, ago: it can enter a memory when the edge has   *)
(* already kept it for EDGE_TTL (cache.ts:118-128).                        *)
SignatureFresh ==
  \A k \in Key : \A c \in Served(k) : now < c.signed + 2 * EDGE_TTL + Latency

(* A registration shows in every response within the same time, whichever  *)
(* purge is lost and whatever old copy is stored after it: by an isolate   *)
(* nobody purged, a request that had read before, an edge hit kept again   *)
(* (cache.ts:118-145, 155-170).                                            *)
RegistrationShows ==
  \A k \in Key : \A c \in Served(k) : c.version < version =>
    now < since[c.version + 1] + 2 * (EDGE_TTL + Latency)

(* When no request overlaps a purge, its registration shows at once in the *)
(* isolate that handled it and at the edge, at the URLs it names           *)
(* (cache.ts:154-170).                                                     *)
PurgeEffective ==
  alone /\ ~Purging =>
    \A k \in Exact : \A e \in memory[purge.isolate][k] \cup edge[k] :
      e.copy.version = version

(* What cache.ts:11-12 says: "so a cached copy always has >= 240 s of      *)
(* validity left", that is all but EDGE_TTL of its lifetime.               *)
ValidityLeft ==
  \A k \in Key : \A c \in Served(k) :
    c.signed + LIFETIME - now >= LIFETIME - EDGE_TTL

=============================================================================
