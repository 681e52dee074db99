----------------------------- MODULE Pagination -----------------------------
(***************************************************************************)
(* Walking the registry page by page: keysetPage of                        *)
(* directory/src/routes/read.ts, the registrations that insert rows        *)
(* meanwhile, and a client that follows next_cursor until it is null, as   *)
(* scripts/snapshot.sh does every night.                                   *)
(*                                                                         *)
(* A page comes from a cache and may be as old as Age, whatever the age of *)
(* the page before: what EdgeCache proves of copies stands for the caches. *)
(* The row of an agent is the agent; rows are never deleted, and keep      *)
(* their created_at when they are registered again.                        *)
(***************************************************************************)
EXTENDS Integers, Sequences, FiniteSets

CONSTANTS
  Agent,     (* kids, which are compared                                   *)
  LIMIT,     (* rows on a page                                             *)
  Age,       (* how old a page can be, at least a tick                     *)
  Delay,     (* how long after its created_at a row can be inserted        *)
  MaxTime    (* bound on the clock                                         *)

ASSUME AgentAssumption == Agent \subseteq Nat
ASSUME NumberAssumption ==
  LIMIT \in Nat \ {0} /\ Age \in Nat \ {0} /\ Delay \in Nat /\ MaxTime \in Nat

VARIABLES
  now,       (* Date.now()                                                 *)
  created,   (* per agent: the created_at of its registration, or -1       *)
  inserted,  (* per agent: when its row was inserted, or -1                *)
  walk,      (* the pages of the walk so far, or the finished one          *)
  cursor,    (* {} or the row the next page follows                        *)
  start,     (* when the walk began                                        *)
  done       (* there is no next page                                      *)

vars == <<now, created, inserted, walk, cursor, start, done>>

Time == 0 .. MaxTime

Init ==
  /\ now = 0
  /\ created = [a \in Agent |-> -1]
  /\ inserted = [a \in Agent |-> -1]
  /\ walk = <<>>
  /\ cursor = {}
  /\ start = 0
  /\ done = FALSE

-----------------------------------------------------------------------------

(* ORDER BY created_at DESC, kid DESC.                                     *)
Before(a, b) == created[a] > created[b] \/ (created[a] = created[b] /\ a > b)

(* Slips: the cursor's own row again, and ties left behind.                *)
BelowOrAt(a, b) == created[a] < created[b] \/ (created[a] = created[b] /\ a <= b)
BelowTies(a, b) == created[a] < created[b]

(* WHERE created_at < ?1 OR (created_at = ?1 AND kid < ?2).                *)
Below(a, b) == created[a] < created[b] \/ (created[a] = created[b] /\ a < b)

(* The rows of the table as it was at time t that a page can show.         *)
Rows(t) ==
  {a \in Agent : inserted[a] \in 0 .. t /\ \A c \in cursor : Below(a, c)}

(* The first LIMIT of the rows.                                            *)
FirstOf(page, rows) ==
  /\ page \subseteq rows
  /\ \A a \in page, b \in rows : Before(b, a) => b \in page
  /\ page = rows \/ Cardinality(page) = LIMIT
  /\ Cardinality(page) <= LIMIT

LastOf(page) == {a \in page : \A b \in page : b = a \/ Before(b, a)}

(* A registration takes its time, and may wait for the agent's domain      *)
(* before it inserts its row.                                              *)
Register(a) ==
  /\ created[a] = -1
  /\ created' = [created EXCEPT ![a] = now]
  /\ UNCHANGED <<now, inserted, walk, cursor, start, done>>

Insert(a) ==
  /\ created[a] # -1 /\ inserted[a] = -1
  /\ inserted' = [inserted EXCEPT ![a] = now]
  /\ UNCHANGED <<now, created, walk, cursor, start, done>>

(* The next page: one row more than it shows is read, and tells whether    *)
(* there is another one.                                                   *)
Page ==
  /\ ~done
  /\ \E t \in (now - Age) .. now : \E page \in SUBSET Rows(t) :
       /\ FirstOf(page, Rows(t))
       /\ walk' = Append(walk, page)
       /\ \/ page = Rows(t) /\ cursor' = {} /\ done' = TRUE
          \/ page # Rows(t) /\ done' = FALSE /\ \E a \in LastOf(page) : cursor' = {a}
  /\ start' = IF walk = <<>> THEN now ELSE start
  /\ UNCHANGED <<now, created, inserted>>

(* Slip: another walk begins where the one given up had come to.           *)
RestartFromCursor ==
  /\ walk # <<>>
  /\ walk' = <<>>
  /\ done' = FALSE
  /\ UNCHANGED <<now, created, inserted, cursor, start>>

(* A request fails, and the walk is given up, or it is over: another one.  *)
Restart ==
  /\ walk # <<>>
  /\ walk' = <<>>
  /\ cursor' = {}
  /\ done' = FALSE
  /\ UNCHANGED <<now, created, inserted, start>>

(* Time passes; a row is inserted at most Delay after its created_at.      *)
Tick ==
  /\ now < MaxTime
  /\ \A a \in Agent : created[a] # -1 /\ inserted[a] = -1 => now < created[a] + Delay
  /\ now' = now + 1
  /\ UNCHANGED <<created, inserted, walk, cursor, start, done>>

Next ==
  \/ \E a \in Agent : Register(a) \/ Insert(a)
  \/ Page
  \/ Restart
  \/ Tick

Spec == Init /\ [][Next]_vars

-----------------------------------------------------------------------------

TypeOK ==
  /\ now \in Time
  /\ created \in [Agent -> Time \cup {-1}]
  /\ inserted \in [Agent -> Time \cup {-1}]
  /\ walk \in Seq(SUBSET Agent)
  /\ cursor \in {{}} \cup {{a} : a \in Agent}
  /\ walk = <<>> \/ done => cursor = {}
  /\ start \in Time
  /\ done \in BOOLEAN

(* A walk shows the rows in order, and none twice, whatever is inserted    *)
(* between two pages and however old each of them is                       *)
(* (read.ts:59-79, 182: "stable under concurrent inserts").                *)
PagesInOrder ==
  \A i, j \in DOMAIN walk : i < j => \A a \in walk[i], b \in walk[j] : Before(a, b)

(* A walk that ended shows every agent whose row was there Age before it   *)
(* began (read.ts:59-79, scripts/snapshot.sh:31-43).                       *)
WalkComplete ==
  done => \A a \in Agent :
    inserted[a] \in 0 .. (start - Age) => \E i \in DOMAIN walk : a \in walk[i]

=============================================================================
