-------------------------- MODULE PolicyInspector ---------------------------
(***************************************************************************)
(* Inspecting the policy of an origin before it is visited,                *)
(* python/src/wbauth/policy/inspector.py: concurrent calls of inspect()    *)
(* share the cache, and a fetch when they use the same client and          *)
(* User-Agent.  One atomic step from await to await.                       *)
(*                                                                         *)
(* Between two calls the cache may be saved, and a new process starts with *)
(* what was saved last.                                                    *)
(*                                                                         *)
(* Left out: another origin, the addresses the SSRF guard refuses, what a  *)
(* file says of other paths and agents, and processes that share the file. *)
(***************************************************************************)
EXTENDS PolicyCache, PolicyVerdict, Sequences

CONSTANTS
  Robots,      (* the endpoint of robots.txt                               *)
  Caller,      (* tasks that call inspect(), again and again               *)
  Client,      (* what two tasks must have in common to share a fetch      *)
  ClientOf,    (* [Caller -> Client]                                       *)
  StopOf,      (* [Caller -> BOOLEAN], stop_on_forbidden                   *)
  Says,        (* per endpoint: what the versions of its file say, from 1  *)
  Tagged,      (* the endpoints that are sent with a tag                   *)
  Directives,  (* per endpoint: the Cache-Control the origin sends         *)
  TIMEOUT,     (* PER_ENDPOINT_TIMEOUT                                     *)
  MaxTime      (* bound on the clock                                       *)

ASSUME EndpointAssumption ==
  /\ Robots \in Endpoint /\ Tagged \subseteq Endpoint
  /\ Says \in [Endpoint -> Seq(Content)] /\ \A ep \in Endpoint : Len(Says[ep]) > 0
ASSUME CallerAssumption == ClientOf \in [Caller -> Client] /\ StopOf \in [Caller -> BOOLEAN]
ASSUME DirectiveAssumption ==
  /\ Directives \in [Endpoint -> SUBSET CacheControl]
  /\ \A ep \in Endpoint : \A cc \in Directives[ep] : ~cc.keep => cc.ttl = 0
ASSUME ClockAssumption == TIMEOUT \in Nat \ {0} /\ MaxTime \in Nat

VARIABLES
  now,         (* time.monotonic()                                         *)
  version,     (* per endpoint: the version of its file                    *)
  since,       (* history, per endpoint and version: when it appeared      *)
  failing,     (* history: when a fetch of robots.txt last failed, or -1   *)
  inflight,    (* _INFLIGHT, per client and endpoint: {} or one task       *)
  caller,      (* per task: the state of its call                          *)
  crossed      (* history: the endpoints for which a 304 was taken for the *)
               (* answer to another If-None-Match than it answers          *)

vars == <<cacheVars, now, version, since, failing, inflight, caller, crossed>>

Time == 0 .. MaxTime
Version(ep) == 1 .. Len(Says[ep])
File(ep, v) == [says |-> Says[ep][v], version |-> v]
Failure == [says |-> "failed", version |-> 0]

(* An answer: the value, or that the one asked about is unchanged, its tag *)
(* and its Cache-Control.                                                  *)
Reply == [same : BOOLEAN, value : Value, tag : Nat, cc : CacheControl]
NoReply == [same |-> FALSE, value |-> Failure, tag |-> NoTag, cc |-> [keep |-> FALSE, ttl |-> 0]]

(* A task: the tag it asks about, since when, and what was answered.       *)
Task == [tag : Nat, start : Time, reply : SUBSET Reply]

(* A call: where it is, the values it has, the endpoints it still has to   *)
(* fetch, those it fetches, what it knew of them before, and the answers   *)
(* it got.  One that has ended keeps its verdict until the task goes on.    *)
Judged == {"allowed", "restricted", "forbidden"}
Stage == {"none", "fetch"} \cup Judged
Call ==
  [stage : Stage, raw : [Endpoint -> SUBSET Value],
   missing : SUBSET Endpoint, fetching : SUBSET Endpoint,
   old : [Endpoint -> SUBSET Known], got : [Endpoint -> SUBSET Reply]]
Nothing == [ep \in Endpoint |-> {}]
NoCall ==
  [stage |-> "none", raw |-> Nothing, missing |-> {}, fetching |-> {},
   old |-> Nothing, got |-> Nothing]

-----------------------------------------------------------------------------

Init ==
  /\ CacheInit
  /\ now = 0
  /\ version = [ep \in Endpoint |-> 1]
  /\ since = [ep \in Endpoint |-> [v \in Version(ep) |-> 0]]
  /\ failing = -1
  /\ inflight = [k \in Client |-> Nothing]
  /\ caller = [c \in Caller |-> NoCall]
  /\ crossed = {}

(* The verdict on the values raw.                                          *)
SiteOf(raw) ==
  [ep \in Endpoint |-> IF raw[ep] = {} THEN "none" ELSE (CHOOSE v \in raw[ep] : TRUE).says]
Verdict(raw) == compute_verdict(SiteOf(raw), Robots)

(* The endpoints a call fetches first: robots.txt alone when it may stop   *)
(* there, and none when it already has one that forbids.                   *)
Batch(stop, raw, missing) ==
  IF ~stop THEN missing
  ELSE IF Robots \in missing THEN {Robots}
  ELSE IF robots_forbids(SiteOf(raw)[Robots]) THEN {}
  ELSE missing

(* c, with the values raw and the files old at hand, fetches the next      *)
(* batch of the missing: it joins the tasks under way and starts others.   *)
(* With nothing left to fetch it ends in a verdict.                        *)
Proceed(c, raw, missing, known) ==
  LET batch == Batch(StopOf[c], raw, missing) IN
  IF batch = {}
    THEN /\ caller' = [caller EXCEPT ![c] =
              [NoCall EXCEPT !.stage = Verdict(raw)]]
         /\ UNCHANGED inflight
    ELSE LET old == [ep \in Endpoint |-> IF ep \in batch THEN known[ep] ELSE {}]
             Asks(ep) == IF old[ep] = {} THEN NoTag ELSE (CHOOSE e \in old[ep] : TRUE).tag
         IN /\ caller' = [caller EXCEPT ![c] =
                 [stage |-> "fetch", raw |-> raw, missing |-> missing \ batch,
                  fetching |-> batch, old |-> old, got |-> Nothing]]
            /\ inflight' = [inflight EXCEPT ![ClientOf[c]] = [ep \in Endpoint |->
                 IF ep \in batch /\ @[ep] = {}
                   THEN {[tag |-> Asks(ep), start |-> now, reply |-> {}]}
                   ELSE @[ep]]]

(* A call of inspect(): what is cached is taken, the rest is missing.      *)
Inspect(c) ==
  /\ caller[c].stage = "none"
  /\ LET raw == [ep \in Endpoint |-> {e.value : e \in Live(ep, now)}] IN
     Proceed(c, raw, {ep \in Endpoint : raw[ep] = {}}, stale)
  /\ UNCHANGED <<cacheVars, now, version, since, failing, crossed>>

(* The origin answers a task: with its file, or that it is the one asked   *)
(* about.                                                                  *)
Answer(k, ep, cc) ==
  /\ \E t \in inflight[k][ep] :
       /\ t.reply = {}
       /\ LET tag == IF ep \in Tagged THEN version[ep] ELSE NoTag
              reply == [same |-> tag # NoTag /\ tag = t.tag, value |-> File(ep, version[ep]),
                        tag |-> tag, cc |-> cc]
          IN inflight' = [inflight EXCEPT ![k][ep] = {[t EXCEPT !.reply = {reply}]}]
  /\ UNCHANGED <<cacheVars, now, version, since, failing, caller, crossed>>

(* Slip: it is handed to one of those who wait for it.                     *)
EndTaskOnce(k, ep, r) ==
  /\ inflight' = [inflight EXCEPT ![k][ep] = {}]
  /\ \E c \in Caller :
       /\ ClientOf[c] = k /\ ep \in caller[c].fetching /\ caller[c].got[ep] = {}
       /\ caller' = [caller EXCEPT ![c].got[ep] = {r}]

(* A task ends with the reply r: everyone who waits for it gets that.      *)
EndTask(k, ep, r) ==
  /\ inflight' = [inflight EXCEPT ![k][ep] = {}]
  /\ caller' = [c \in Caller |->
       IF ClientOf[c] = k /\ ep \in caller[c].fetching /\ caller[c].got[ep] = {}
         THEN [caller[c] EXCEPT !.got[ep] = {r}]
         ELSE caller[c]]

(* Its answer has arrived.                                                 *)
Arrive(k, ep) ==
  /\ \E t \in inflight[k][ep] : \E r \in t.reply : EndTask(k, ep, r)
  /\ UNCHANGED <<cacheVars, now, version, since, failing, crossed>>

(* It fails, or takes too long: the network, a 429 or a 5xx.               *)
FetchFails(k, ep) ==
  /\ inflight[k][ep] # {}
  /\ EndTask(k, ep, NoReply)
  /\ failing' = IF ep = Robots THEN now ELSE failing
  /\ UNCHANGED <<cacheVars, now, version, since, crossed>>

-----------------------------------------------------------------------------

(* The value c takes from the answer to ep: a 304 gives back what c knew.  *)
Taken(c, ep) ==
  LET r == CHOOSE r \in caller[c].got[ep] : TRUE IN
  IF ~r.same THEN r.value
  ELSE IF caller[c].old[ep] = {} THEN [says |-> "odd", version |-> 0]
  ELSE (CHOOSE e \in caller[c].old[ep] : TRUE).value

TagOf(c, ep) == (CHOOSE r \in caller[c].got[ep] : TRUE).tag
DirectiveOf(c, ep) == (CHOOSE r \in caller[c].got[ep] : TRUE).cc

(* Everything c fetched has been answered: it is cached, and c goes on.    *)
Absorb(c) ==
  LET q == caller[c]
      raw == [ep \in Endpoint |-> IF ep \in q.fetching THEN {Taken(c, ep)} ELSE q.raw[ep]]
      known == [ep \in Endpoint |->
        IF ep \in q.fetching THEN StaleAfter(ep, Taken(c, ep), DirectiveOf(c, ep), TagOf(c, ep))
        ELSE stale[ep]]
  IN
  /\ q.stage = "fetch"
  /\ \A ep \in q.fetching : q.got[ep] # {}
  /\ fresh' = [ep \in Endpoint |->
       IF ep \in q.fetching THEN FreshAfter(ep, Taken(c, ep), DirectiveOf(c, ep), TagOf(c, ep), now)
       ELSE fresh[ep]]
  /\ stale' = known
  /\ UNCHANGED saved
  /\ crossed' = crossed \cup
       {ep \in q.fetching : \E r \in q.got[ep] : r.same /\ Taken(c, ep) # r.value}
  /\ Proceed(c, raw, q.missing, known)
  /\ UNCHANGED <<now, version, since, failing>>

(* The task that awaits inspect() is cancelled; the fetches go on.         *)
Cancel(c) ==
  /\ caller[c].stage = "fetch"
  /\ caller' = [caller EXCEPT ![c] = NoCall]
  /\ UNCHANGED <<cacheVars, now, version, since, failing, inflight, crossed>>

(* save_cache(): the file is replaced as a whole, or not at all.           *)
Saved == saved' \in {saved, Dump(now)}

(* The task goes on with the verdict, and may have called save_cache().    *)
GoOn(c) ==
  /\ caller[c].stage \in Judged
  /\ caller' = [caller EXCEPT ![c] = NoCall]
  /\ Saved
  /\ UNCHANGED <<fresh, stale, now, version, since, failing, inflight, crossed>>

(* The origin publishes the next version of a file.                        *)
Publish(ep) ==
  /\ version[ep] < Len(Says[ep])
  /\ version' = [version EXCEPT ![ep] = @ + 1]
  /\ since' = [since EXCEPT ![ep][version[ep] + 1] = now]
  /\ UNCHANGED <<cacheVars, now, failing, inflight, caller, crossed>>

(* Time passes: a task ends before it takes longer than TIMEOUT, and a     *)
(* call that can go on does.                                               *)
Tick ==
  /\ now < MaxTime
  /\ \A k \in Client, ep \in Endpoint : \A t \in inflight[k][ep] : now < t.start + TIMEOUT
  /\ \A c \in Caller : caller[c].stage = "fetch" =>
       \E ep \in caller[c].fetching : caller[c].got[ep] = {}
  /\ now' = now + 1
  /\ Expire(now + 1)
  /\ UNCHANGED <<stale, version, since, failing, inflight, caller, crossed>>

(* The process ends, at any point, and the next begins with load_cache().  *)
Restart ==
  /\ Restore(now)
  /\ inflight' = [k \in Client |-> Nothing]
  /\ caller' = [c \in Caller |-> NoCall]
  /\ UNCHANGED <<saved, now, version, since, failing, crossed>>

Next ==
  \/ \E c \in Caller : Inspect(c) \/ Absorb(c) \/ Cancel(c) \/ GoOn(c)
  \/ \E k \in Client, ep \in Endpoint :
       Arrive(k, ep) \/ FetchFails(k, ep) \/ \E cc \in Directives[ep] : Answer(k, ep, cc)
  \/ \E ep \in Endpoint : Publish(ep)
  \/ Tick \/ Restart

Spec == Init /\ [][Next]_vars

-----------------------------------------------------------------------------

TypeOK ==
  /\ CacheTypeOK
  /\ now \in Time
  /\ version \in [Endpoint -> Nat] /\ \A ep \in Endpoint : version[ep] \in Version(ep)
  /\ DOMAIN since = Endpoint /\ \A ep \in Endpoint : since[ep] \in [Version(ep) -> Time]
  /\ failing \in Time \cup {-1}
  /\ inflight \in [Client -> [Endpoint -> SUBSET Task]]
  /\ caller \in [Caller -> Call]
  /\ crossed \subseteq Endpoint

(* Whoever waits for a file waits for a task that is under way: a task is  *)
(* shared by calls that began before and after it, outlives the one that   *)
(* started it, and answers them all (inspector.py:314-333).                *)
NobodyForgotten ==
  \A c \in Caller : \A ep \in caller[c].fetching :
    caller[c].got[ep] = {} => inflight[ClientOf[c]][ep] # {}

Concludes(c) == caller[c].stage \notin Judged /\ caller'[c].stage \in Judged

(* The last moment an endpoint said v.                                     *)
LastSaid(ep, v) ==
  IF v > version[ep] THEN -1
  ELSE IF v = version[ep] THEN now
  ELSE since[ep][v + 1]

(* How long a version of a file may be kept: a chain of redirects without  *)
(* an end as a failure is, any other as long as the origin says.           *)
KeepFor(ep, v, cc) == IF IsFailure(File(ep, v)) THEN FAILURE_TTL ELSE cc.ttl

(* How long a verdict can lag behind the origin: a call takes a fetch, and *)
(* what it finds in the cache was put there by one that took another and   *)
(* had joined a third; but for robots.txt, a call may take two.            *)
Lag(ep) == IF ep = Robots THEN 3 * TIMEOUT ELSE 4 * TIMEOUT

SaidRecently(ep, v) ==
  \E cc \in Directives[ep] :
    LastSaid(ep, v) >= 0 /\ now < LastSaid(ep, v) + KeepFor(ep, v, cc) + Lag(ep)

(* What of a file stands in the way of a visit.                            *)
Objects(ep, said) ==
  IF ep = Robots THEN ~RobotsClean(said) ELSE said \in {"restricts", "garbled", "odd"}

(* A site is only taken to allow a visit when none of its endpoints        *)
(* objected a moment ago: not one was unknown, unread or restrictive, by a *)
(* file less old than the origin let it be kept                            *)
(* (inspector.py:428-461, 493-565, verdict.py:89-214).                     *)
AllowedByRecentFiles ==
  [][\A c \in Caller : Concludes(c) /\ caller'[c].stage = "allowed" =>
       \A ep \in Endpoint \ crossed' : \E v \in Version(ep) :
         ~Objects(ep, Says[ep][v]) /\ SaidRecently(ep, v)]_vars

(* A site is only avoided because robots.txt could not be had when that    *)
(* was so a moment ago: a failure is not remembered for long, nor put in   *)
(* the place of a file for long (inspector.py:504-529).                    *)
ForbiddenForAReason ==
  [][\A c \in Caller : Concludes(c) /\ caller'[c].stage = "forbidden" =>
       \/ \E v \in Version(Robots) : RobotsForbid(Says[Robots][v]) /\ SaidRecently(Robots, v)
       \/ Robots \in crossed'
       \/ failing >= 0 /\ now < failing + FAILURE_TTL + 2 * TIMEOUT]_vars

(* What README.md:167 says of revalidation: it is an unchanged file that   *)
(* costs a 304, so what is known under a tag is the file of that tag.      *)
TagsMatch == \A ep \in Endpoint : \A e \in stale[ep] : e.tag = e.value.version

=============================================================================
