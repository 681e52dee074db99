-------------------------- MODULE Pagination_proofs -------------------------
(***************************************************************************)
(* Proofs about Pagination, for any number of agents and rows to a page,   *)
(* and pages of any age: a walk shows no row twice and misses none that    *)
(* was there in time.                                                      *)
(***************************************************************************)
EXTENDS Pagination, TLAPS

(* The parts of the inductive invariant.  A row has a created_at, and is   *)
(* not inserted in the future.                                             *)
Types ==
  /\ now \in Time /\ start \in 0 .. now
  /\ created \in [Agent -> Time \cup {-1}]
  /\ inserted \in [Agent -> Time \cup {-1}]
  /\ \A a \in Agent : inserted[a] # -1 => created[a] # -1 /\ inserted[a] <= now
  /\ done \in BOOLEAN

(* A walk is made of rows.                                                 *)
Walks ==
  /\ walk \in Seq(SUBSET Agent)
  /\ \A i \in DOMAIN walk : \A a \in walk[i] : inserted[a] # -1

(* The cursor is the last row of all pages so far.                         *)
CursorIsLast ==
  /\ walk = <<>> \/ done => cursor = {}
  /\ done => walk # <<>>
  /\ walk # <<>> /\ ~done => \E c \in Agent :
       /\ cursor = {c} /\ inserted[c] # -1
       /\ \A i \in DOMAIN walk : \A a \in walk[i] : a = c \/ Before(a, c)

(* A row that was there in time has been shown, or comes after the cursor. *)
Shown(a) == \E i \in DOMAIN walk : a \in walk[i]
NoneMissed ==
  walk # <<>> => \A a \in Agent :
    inserted[a] \in 0 .. (start - Age) => Shown(a) \/ (~done /\ \A c \in cursor : Below(a, c))

Inv == Types /\ Walks /\ CursorIsLast /\ PagesInOrder /\ NoneMissed

-----------------------------------------------------------------------------

LEMMA InvImplies == ASSUME Inv PROVE TypeOK /\ WalkComplete
<1>1. TypeOK
  <2>1. cursor \in {{}} \cup {{a} : a \in Agent} BY DEF Inv, CursorIsLast
  <2>2. start \in Time BY NumberAssumption DEF Inv, Types, Time
  <2>3. QED BY <2>1, <2>2 DEF Inv, Types, Walks, CursorIsLast, TypeOK
<1>2. WalkComplete
  BY DEF Inv, CursorIsLast, NoneMissed, Shown, WalkComplete
<1>3. QED BY <1>1, <1>2

LEMMA InvInit == ASSUME Init PROVE Inv
<1>1. Types
  <2>1. now = 0 /\ start = 0 /\ done = FALSE BY DEF Init
  <2>2. 0 \in Time BY NumberAssumption DEF Time
  <2>3. created = [a \in Agent |-> -1] /\ inserted = [a \in Agent |-> -1] BY DEF Init
  <2>4. /\ created \in [Agent -> Time \cup {-1}]
        /\ inserted \in [Agent -> Time \cup {-1}]
        /\ \A a \in Agent : inserted[a] = -1
    BY <2>3
  <2>5. start \in 0 .. now /\ now \in Time BY <2>1, <2>2
  <2>6. done \in BOOLEAN BY <2>1
  <2>7. \A a \in Agent : inserted[a] # -1 => created[a] # -1 /\ inserted[a] <= now
    BY <2>4
  <2>8. QED BY <2>4, <2>5, <2>6, <2>7 DEF Types
<1>2. Walks /\ CursorIsLast /\ PagesInOrder /\ NoneMissed
  BY DEF Init, Walks, CursorIsLast, PagesInOrder, NoneMissed
<1>3. QED BY <1>1, <1>2 DEF Inv

(* Two rows that are in the table keep their order whatever is registered. *)
LEMMA OrderIsTotal ==
  ASSUME Types, NEW a \in Agent, NEW b \in Agent
  PROVE  /\ a = b \/ Before(a, b) \/ Below(a, b)
         /\ Below(a, b) => Before(b, a)
  BY AgentAssumption DEF Types, Time, Before, Below

LEMMA OrderIsTransitive ==
  ASSUME Types, NEW a \in Agent, NEW b \in Agent, NEW c \in Agent,
         Before(a, b), Before(b, c)
  PROVE  Before(a, c)
  BY AgentAssumption DEF Types, Time, Before

(* A step that keeps the walk and what the table says of the rows in it.   *)
LEMMA Undisturbed ==
  ASSUME Inv, Types', UNCHANGED <<walk, cursor, start, done>>,
         \A a \in Agent : inserted[a] # -1 =>
           created'[a] = created[a] /\ inserted'[a] = inserted[a],
         \A a \in Agent : inserted'[a] \in 0 .. (start - Age) => inserted[a] = inserted'[a]
  PROVE  Inv'
<1>1. Walks' BY DEF Inv, Walks
<1>2. \A a, b \in Agent : inserted[a] # -1 /\ inserted[b] # -1 =>
        (Before(a, b)' <=> Before(a, b)) /\ (Below(a, b)' <=> Below(a, b))
  BY DEF Before, Below
<1>3. CursorIsLast'
  BY <1>2 DEF Inv, Walks, CursorIsLast
<1>4. PagesInOrder'
  BY <1>2 DEF Inv, Walks, PagesInOrder
<1>5. NoneMissed'
  <2> SUFFICES ASSUME walk # <<>>, NEW a \in Agent, inserted'[a] \in 0 .. (start - Age)
               PROVE  Shown(a)' \/ (~done /\ \A c \in cursor : Below(a, c)')
    BY DEF NoneMissed
  <2>1. inserted[a] \in 0 .. (start - Age) /\ inserted[a] # -1 OBVIOUS
  <2>2. Shown(a) \/ (~done /\ \A c \in cursor : Below(a, c))
    BY <2>1 DEF Inv, NoneMissed
  <2>3. \A c \in cursor : c \in Agent /\ inserted[c] # -1
    BY DEF Inv, CursorIsLast
  <2>4. Shown(a) => Shown(a)' BY DEF Shown
  <2>5. QED BY <1>2, <2>1, <2>2, <2>3, <2>4
<1>6. QED BY <1>1, <1>3, <1>4, <1>5 DEF Inv

LEMMA RegisterKeeps == ASSUME Inv, NEW a \in Agent, Register(a) PROVE Inv'
<1>1. Types' BY DEF Inv, Types, Register
<1>2. \A b \in Agent : inserted[b] # -1 =>
        created'[b] = created[b] /\ inserted'[b] = inserted[b]
  BY DEF Inv, Types, Register
<1>3. UNCHANGED <<inserted, walk, cursor, start, done>> BY DEF Register
<1>4. QED BY <1>1, <1>2, <1>3, Undisturbed

(* A row that is inserted now was not there Age before the walk began.     *)
LEMMA InsertKeeps == ASSUME Inv, NEW a \in Agent, Insert(a) PROVE Inv'
<1>1. Types' BY DEF Inv, Types, Insert, Time
<1>2. \A b \in Agent : inserted[b] # -1 =>
        created'[b] = created[b] /\ inserted'[b] = inserted[b]
  BY DEF Inv, Types, Insert
<1>3. UNCHANGED <<created, walk, cursor, start, done>> BY DEF Insert
<1>4. \A b \in Agent : inserted'[b] \in 0 .. (start - Age) => inserted[b] = inserted'[b]
  BY NumberAssumption DEF Inv, Types, Insert, Time
<1>5. QED BY <1>1, <1>2, <1>3, <1>4, Undisturbed

LEMMA TickKeeps == ASSUME Inv, Tick PROVE Inv'
<1>1. Types' BY NumberAssumption DEF Inv, Types, Tick, Time
<1>2. UNCHANGED <<created, inserted, walk, cursor, start, done>> BY DEF Tick
<1>3. QED BY <1>1, <1>2, Undisturbed

LEMMA RestartKeeps == ASSUME Inv, Restart PROVE Inv'
<1>1. Types' BY DEF Inv, Types, Restart
<1>2. walk' = <<>> /\ cursor' = {} /\ done' = FALSE BY DEF Restart
<1>3. Walks' /\ CursorIsLast' /\ PagesInOrder' /\ NoneMissed'
  BY <1>2 DEF Walks, CursorIsLast, PagesInOrder, NoneMissed
<1>4. QED BY <1>1, <1>3 DEF Inv

(* The next page comes after all others, and no row between them is lost.  *)
LEMMA PageKeeps == ASSUME Inv, Page PROVE Inv'
<1>0. PICK t \in (now - Age) .. now : \E page \in SUBSET Rows(t) :
        /\ FirstOf(page, Rows(t))
        /\ walk' = Append(walk, page)
        /\ \/ page = Rows(t) /\ cursor' = {} /\ done' = TRUE
           \/ page # Rows(t) /\ done' = FALSE /\ \E a \in LastOf(page) : cursor' = {a}
  BY DEF Page
<1>1. PICK page \in SUBSET Rows(t) :
        /\ FirstOf(page, Rows(t))
        /\ walk' = Append(walk, page)
        /\ \/ page = Rows(t) /\ cursor' = {} /\ done' = TRUE
           \/ page # Rows(t) /\ done' = FALSE /\ \E a \in LastOf(page) : cursor' = {a}
  BY <1>0
<1>2. /\ ~done
      /\ start' = IF walk = <<>> THEN now ELSE start
      /\ UNCHANGED <<now, created, inserted>>
  BY DEF Page
<1>3. \A a \in Rows(t) : a \in Agent /\ inserted[a] \in 0 .. t /\ inserted[a] # -1
                         /\ \A c \in cursor : Below(a, c)
  BY NumberAssumption DEF Rows, Inv, Types, Time
<1>4. page \subseteq Agent BY <1>3
<1>5. /\ walk' \in Seq(SUBSET Agent) /\ walk' # <<>>
      /\ DOMAIN walk' = DOMAIN walk \cup {Len(walk) + 1}
      /\ Len(walk) + 1 \notin DOMAIN walk
      /\ walk'[Len(walk) + 1] = page
      /\ \A i \in DOMAIN walk : walk'[i] = walk[i] /\ i < Len(walk) + 1
  BY <1>1, <1>4 DEF Inv, Walks
<1>6. Types'
  <2>1. done' \in BOOLEAN BY <1>1
  <2>2. start' \in 0 .. now BY <1>2, NumberAssumption DEF Inv, Types, Time
  <2>3. QED BY <1>2, <2>1, <2>2 DEF Inv, Types
<1>7. Walks'
  BY <1>2, <1>3, <1>5 DEF Inv, Walks
<1>8. \A i \in DOMAIN walk : \A a \in walk[i], b \in page : a \in Agent /\ Before(a, b)
  <2> SUFFICES ASSUME NEW i \in DOMAIN walk, NEW a \in walk[i], NEW b \in page
               PROVE  a \in Agent /\ Before(a, b)
    OBVIOUS
  <2>1. a \in Agent /\ walk # <<>> BY DEF Inv, Walks
  <2>2. PICK c \in Agent : cursor = {c} /\ (a = c \/ Before(a, c))
    BY <1>2, <2>1 DEF Inv, CursorIsLast
  <2>3. b \in Agent /\ Before(c, b) BY <1>3, <2>2, OrderIsTotal DEF Inv
  <2>4. QED BY <2>1, <2>2, <2>3, OrderIsTransitive DEF Inv
<1>9. CursorIsLast'
  <2>1. CASE page = Rows(t) BY <1>1, <1>5, <2>1 DEF CursorIsLast
  <2>2. CASE page # Rows(t)
    <3>1. PICK l \in LastOf(page) : cursor' = {l} BY <1>1, <2>2
    <3>2. /\ l \in page /\ l \in Agent /\ inserted[l] # -1
          /\ \A b \in page : b = l \/ Before(b, l)
      BY <1>3, <3>1 DEF LastOf
    <3>3. \A i \in DOMAIN walk' : \A a \in walk'[i] : a = l \/ Before(a, l)
      BY <1>5, <1>8, <3>2
    <3>4. \A a \in Agent : Before(a, l)' <=> Before(a, l) BY <1>2 DEF Before
    <3>5. inserted' = inserted /\ done' = FALSE BY <1>1, <1>2, <2>2
    <3>6. \A i \in DOMAIN walk' : \A a \in walk'[i] : a \in Agent
      BY <1>4, <1>5, <1>8 DEF Inv, Walks
    <3>7. \A i \in DOMAIN walk' : \A a \in walk'[i] : a = l \/ Before(a, l)'
      BY <3>3, <3>4, <3>6
    <3>8. QED BY <1>5, <3>1, <3>2, <3>5, <3>7 DEF CursorIsLast
  <2>3. QED BY <2>1, <2>2
<1>10. PagesInOrder'
  <2>1. \A i, j \in DOMAIN walk' : i < j => \A a \in walk'[i], b \in walk'[j] : Before(a, b)
    BY <1>5, <1>8 DEF Inv, Walks, PagesInOrder
  <2>2. \A a, b : Before(a, b)' <=> Before(a, b) BY <1>2 DEF Before
  <2>3. QED BY <2>1, <2>2 DEF PagesInOrder
<1>11. NoneMissed'
  <2> SUFFICES ASSUME NEW a \in Agent, inserted[a] \in 0 .. (start' - Age)
               PROVE  Shown(a)' \/ (~done' /\ \A c \in cursor' : Below(a, c)')
    BY <1>2 DEF NoneMissed
  <2>1. start' <= now /\ (walk # <<>> => start' = start)
    BY <1>2, NumberAssumption DEF Inv, Types, Time
  <2>2. inserted[a] \in 0 .. t
    BY <2>1, <1>6, <1>2, NumberAssumption DEF Inv, Types, Time
  <2>3. Shown(a) \/ a \in Rows(t)
    <3>1. CASE walk = <<>> BY <2>2, <3>1 DEF Rows, Inv, CursorIsLast
    <3>2. CASE walk # <<>>
      BY <1>2, <2>1, <2>2, <3>2 DEF Rows, Inv, NoneMissed
    <3>3. QED BY <3>1, <3>2
  <2>4. CASE Shown(a) BY <1>5, <2>4 DEF Shown
  <2>5. CASE a \in page BY <1>5, <2>5 DEF Shown
  <2>6. CASE a \in Rows(t) \ page
    <3>1. PICK l \in LastOf(page) : cursor' = {l} /\ done' = FALSE BY <1>1, <2>6
    <3>2. l \in page /\ l \in Agent BY <1>4, <3>1 DEF LastOf
    <3>3. ~Before(a, l) /\ a # l BY <1>1, <2>6, <3>2 DEF FirstOf
    <3>4. Below(a, l) BY <3>2, <3>3, OrderIsTotal DEF Inv
    <3>5. Below(a, l)' BY <1>2, <3>4 DEF Below
    <3>6. QED BY <3>1, <3>5
  <2>7. QED BY <2>3, <2>4, <2>5, <2>6
<1>12. QED BY <1>6, <1>7, <1>9, <1>10, <1>11 DEF Inv

LEMMA InvNext == ASSUME Inv, [Next]_vars PROVE Inv'
<1>1. ASSUME UNCHANGED vars PROVE Inv'
  <2>1. Types' BY <1>1 DEF vars, Inv, Types
  <2>2. UNCHANGED <<created, inserted, walk, cursor, start, done>> BY <1>1 DEF vars
  <2>3. QED BY <2>1, <2>2, Undisturbed
<1>2. QED
  BY <1>1, RegisterKeeps, InsertKeeps, PageKeeps, RestartKeeps, TickKeeps DEF Next

-----------------------------------------------------------------------------

(* The inductive invariant holds of every behaviour.                       *)
THEOREM PaginationInvariant == Spec => []Inv
<1>1. Init => Inv BY InvInit
<1>2. Inv /\ [Next]_vars => Inv' BY InvNext
<1>3. QED BY <1>1, <1>2, PTL DEF Spec

(* Every variable keeps its type, and a walk begins without a cursor       *)
(* (read.ts:59-79).                                                        *)
THEOREM PaginationTypes == Spec => []TypeOK
<1>1. Inv => TypeOK BY InvImplies
<1>2. QED BY <1>1, PaginationInvariant, PTL

(* A walk shows the rows in order and none twice, whatever is inserted     *)
(* meanwhile and however old its pages are (read.ts:59-79, 182).           *)
THEOREM WalksInOrder == Spec => []PagesInOrder
<1>1. Inv => PagesInOrder BY DEF Inv
<1>2. QED BY <1>1, PaginationInvariant, PTL

(* A walk misses no agent that was there Age before it began               *)
(* (read.ts:59-79, scripts/snapshot.sh:31-43).                             *)
THEOREM WalksComplete == Spec => []WalkComplete
<1>1. Inv => WalkComplete BY InvImplies
<1>2. QED BY <1>1, PaginationInvariant, PTL

=============================================================================
