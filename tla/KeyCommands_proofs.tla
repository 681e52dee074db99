------------------------- MODULE KeyCommands_proofs -------------------------
(***************************************************************************)
(* Proofs about KeyCommands, for any number of processes and keys: the     *)
(* commands use the keyring as Keyring says, so what is proved of it holds *)
(* for them; the JWKS they leave lists the keys of the keyring; and what   *)
(* register gets accepted is the key that agents sign with.                *)
(***************************************************************************)
EXTENDS KeyCommands, TLAPS

(* First Keyring on its own: a keyring that nobody rotates has one key for *)
(* everybody, and a rotation never loses the key it found.                 *)

(* The parts of the inductive invariant.  First, types.                    *)
Types ==
  /\ dir \in [Name -> File]
  /\ written \subseteq used /\ used \subseteq Key
  /\ process \in [Process -> State]
  /\ last \in Process \cup {None}
  /\ old \in File
  /\ broken \in BOOLEAN

(* A file is created once: what somebody is about to create is a key       *)
(* nobody else is about to create, and is in the keyring under no name.    *)
FilesDiffer ==
  /\ \A n \in Name : dir[n] \in used \cup {None}
  /\ dir["active"] = dir["retiring"] => dir["active"] = None
  /\ \A p \in Process :
       /\ process[p].at \in {"create", "write"} => process[p].key \in used
       /\ process[p].at = "create" =>
            process[p].key # dir["active"] /\ process[p].key # dir["retiring"]
  /\ \A p, q \in Process :
       process[p].at = "create" /\ process[q].at = "create" /\ p # q =>
         process[p].key # process[q].key

(* While nobody has rotated, there is one active key.                      *)
OneKey ==
  last = None =>
    \A p \in Process :
      /\ process[p].at = "write" => process[p].key = dir["active"]
      /\ process[p].at \in {"lookRetiring", "readRetiring", "ready"} =>
           process[p].active = dir["active"] /\ dir["active"] \in written

(* One process rotates at a time, and once it has renamed it is the last.  *)
Renamed == {"generate", "create", "write", "rollback", "readRetiring"}
OneRotation ==
  /\ \A p, q \in Process : Rotating(p) /\ Rotating(q) => p = q
  /\ \A p \in Process :
       /\ process[p].op # "rotate" => process[p].at \notin {"rename", "rollback"}
       /\ process[p].op = "rotate" => process[p].at \notin {"start", "read", "lookRetiring"}
       /\ process[p].op = "rotate" /\ process[p].at \in Renamed => last = p
       /\ last = p => process[p].op = "rotate"

(* Where the key that the last rotation found is, at each of its steps.    *)
Kept(q) ==
  /\ old \in written
  /\ q.at # "failed" => dir["retiring"] = old
  /\ q.at = "failed" => dir["active"] = old
  /\ q.at = "write" => dir["active"] = q.key
  /\ q.at \in {"readRetiring", "ready", "rename"} =>
       dir["active"] = q.active /\ dir["active"] \in written
  /\ q.at = "ready" => q.retiring = old

KeyKept == old # None => last # None /\ Kept(process[last])

Inv == Types /\ FilesDiffer /\ OneKey /\ OneRotation /\ KeyKept

-----------------------------------------------------------------------------

(* The inductive invariant gives the three properties the runs check.      *)
LEMMA InvImplies ==
  ASSUME Inv PROVE TypeOK /\ FirstStartsAgree /\ RotationKeepsTheKey
<1>1. TypeOK BY DEF Inv, Types, FilesDiffer, TypeOK
<1>2. FirstStartsAgree BY DEF Inv, OneKey, FirstStartsAgree, Is, Readable
<1>3. ASSUME old # None PROVE Kept(process[last])
  BY <1>3 DEF Inv, KeyKept
<1>4. RotationKeepsTheKey
  BY <1>3 DEF RotationKeepsTheKey, Kept, Is, Readable
<1>5. QED BY <1>1, <1>2, <1>4

LEMMA InvInit == ASSUME Init PROVE Inv
BY NoneAssumption
   DEF Init, Inv, Types, FilesDiffer, OneKey, OneRotation, KeyKept, Rotating, State, File,
       Step, Rest, Name, Operation

(* What a step of p leaves of the other processes, and makes of p.         *)
Moved(p, at, key, active, retiring) ==
  /\ process' \in [Process -> State]
  /\ \A q \in Process : q # p => process'[q] = process[q]
  /\ process'[p].op = process[p].op
  /\ process'[p].at = at /\ process'[p].key = key
  /\ process'[p].active = active /\ process'[p].retiring = retiring

LEMMA BecomeMoves ==
  ASSUME Types, NEW p \in Process, NEW at \in Step \cup Rest,
         NEW key \in File, NEW active \in File, NEW retiring \in File,
         Become(p, at, key, active, retiring)
  PROVE  Moved(p, at, key, active, retiring)
<1> DEFINE s == [op |-> process[p].op, at |-> at, key |-> key, active |-> active,
                 retiring |-> retiring]
<1>1. s \in State BY DEF Types, State
<1>2. process' = [process EXCEPT ![p] = s] BY DEF Become
<1>3. s.op = process[p].op /\ s.at = at /\ s.key = key /\ s.active = active
      /\ s.retiring = retiring
  OBVIOUS
<1> HIDE DEF s
<1>4. QED BY <1>1, <1>2, <1>3 DEF Moved, Types

LEMMA GoMoves ==
  ASSUME Types, NEW p \in Process, NEW at \in Step \cup Rest, Go(p, at)
  PROVE  Moved(p, at, process[p].key, process[p].active, process[p].retiring)
<1>1. process[p].key \in File /\ process[p].active \in File /\ process[p].retiring \in File
  BY DEF Types, State
<1>2. QED BY <1>1, BecomeMoves DEF Go

(* The same for the start of an operation.                                 *)
LEMMA StartMoves ==
  ASSUME Types, NEW p \in Process, NEW op \in Operation, NEW at \in Step \cup Rest,
         Start(p, op, at)
  PROVE  /\ process' \in [Process -> State]
         /\ \A q \in Process : q # p => process'[q] = process[q]
         /\ process'[p].op = op /\ process'[p].at = at
         /\ process'[p].active = process[p].active
         /\ process'[p].retiring = process[p].retiring
<1> DEFINE s == [op |-> op, at |-> at, key |-> None, active |-> process[p].active,
                 retiring |-> process[p].retiring]
<1>1. s \in State BY DEF Types, State, File
<1>2. process' = [process EXCEPT ![p] = s] BY DEF Start
<1>3. s.op = op /\ s.at = at /\ s.active = process[p].active
      /\ s.retiring = process[p].retiring
  OBVIOUS
<1> HIDE DEF s
<1>4. QED BY <1>1, <1>2, <1>3 DEF Types

(* Each action keeps the invariant.                                        *)
LEMMA LookKeeps ==
  ASSUME Inv, NEW p \in Process, Look(p) PROVE Inv'
<1>1. PICK at \in {"generate", "read"} :
        /\ Moved(p, at, process[p].key, process[p].active, process[p].retiring)
  BY GoMoves DEF Inv, Look, Step, Rest
<1>2. Types'
  BY <1>1 DEF Inv, Types, FilesDiffer, Moved, Look, Is, Name, File
<1>3. FilesDiffer'
  BY <1>1 DEF Inv, Types, FilesDiffer, Moved, Look, Is, Name, File
<1>4. OneKey'
  BY <1>1 DEF Inv, Types, FilesDiffer, OneKey, OneRotation, Moved, Look, Is, Name,
         File
<1>5. OneRotation'
  BY <1>1 DEF Inv, Types, OneRotation, Renamed, Rotating, Step, Moved, Look, Is,
         Name, File
<1>6. KeyKept'
  BY <1>1 DEF Inv, Types, FilesDiffer, OneRotation, Renamed, KeyKept, Kept, Moved,
         Look, Is, Name, File
<1>7. QED BY <1>2, <1>3, <1>4, <1>5, <1>6 DEF Inv

LEMMA LookRetiringKeeps ==
  ASSUME Inv, NEW p \in Process, LookRetiring(p) PROVE Inv'
<1>1. PICK at \in {"ready", "readRetiring"} :
        /\ Moved(p, at, process[p].key, process[p].active, process[p].retiring)
  BY GoMoves DEF Inv, LookRetiring, Step, Rest
<1>2. Types'
  BY <1>1 DEF Inv, Types, FilesDiffer, Moved, LookRetiring, Is, Name, File
<1>3. FilesDiffer'
  BY <1>1 DEF Inv, Types, FilesDiffer, Moved, LookRetiring, Is, Name, File
<1>4. OneKey'
  BY <1>1 DEF Inv, Types, FilesDiffer, OneKey, OneRotation, Moved, LookRetiring, Is,
         Name, File
<1>5. OneRotation'
  BY <1>1 DEF Inv, Types, OneRotation, Renamed, Rotating, Step, Moved, LookRetiring,
         Is, Name, File
<1>6. KeyKept'
  BY <1>1 DEF Inv, Types, FilesDiffer, OneRotation, Renamed, KeyKept, Kept, Moved,
         LookRetiring, Is, Name, File
<1>7. QED BY <1>2, <1>3, <1>4, <1>5, <1>6 DEF Inv

LEMMA CrashKeeps ==
  ASSUME Inv, NEW p \in Process, Crash(p) PROVE Inv'
<1>1. PICK at \in {"crashed"} :
        /\ Moved(p, at, process[p].key, process[p].active, process[p].retiring)
  BY GoMoves DEF Inv, Crash, Step, Rest
<1>2. Types'
  BY <1>1 DEF Inv, Types, FilesDiffer, Moved, Crash, Step, Name, File
<1>3. FilesDiffer'
  BY <1>1 DEF Inv, Types, FilesDiffer, Moved, Crash, Step, Name, File
<1>4. OneKey'
  BY <1>1
     DEF Inv, Types, FilesDiffer, OneKey, OneRotation, Moved, Crash, Step, Name,
         File
<1>5. OneRotation'
  BY <1>1 DEF Inv, Types, OneRotation, Renamed, Rotating, Step, Moved, Crash, Step,
         Name, File
<1>6. KeyKept'
  BY <1>1 DEF Inv, Types, FilesDiffer, OneRotation, Renamed, KeyKept, Kept, Moved,
         Crash, Step, Name, File
<1>7. QED BY <1>2, <1>3, <1>4, <1>5, <1>6 DEF Inv

LEMMA WriteFailsKeeps ==
  ASSUME Inv, NEW p \in Process, WriteFails(p) PROVE Inv'
<1>1. PICK at \in {"failed", "rollback"} :
        /\ Moved(p, at, process[p].key, process[p].active, process[p].retiring)
        /\ process[p].op = "rotate" <=> at = "rollback"
  BY GoMoves DEF Inv, WriteFails, GiveUp, Step, Rest
<1>2. Types'
  BY <1>1 DEF Inv, Types, FilesDiffer, Moved, WriteFails, Name, File, State
<1>3. FilesDiffer'
  BY <1>1 DEF Inv, Types, FilesDiffer, Moved, WriteFails, Name, File, State
<1>4. OneKey'
  BY <1>1 DEF Inv, Types, FilesDiffer, OneKey, OneRotation, Moved, WriteFails, Name,
         File, State
<1>5. OneRotation'
  BY <1>1 DEF Inv, Types, OneRotation, Renamed, Rotating, Step, Moved, WriteFails,
         Name, File, State
<1>6. KeyKept'
  BY <1>1 DEF Inv, Types, FilesDiffer, OneRotation, Renamed, KeyKept, Kept, Moved,
         WriteFails, Name, File, State
<1>7. QED BY <1>2, <1>3, <1>4, <1>5, <1>6 DEF Inv

LEMMA RollbackKeeps ==
  ASSUME Inv, NEW p \in Process, Rollback(p) PROVE Inv'
<1>1. PICK at \in {"failed"} :
        /\ Moved(p, at, process[p].key, process[p].active, process[p].retiring)
  BY GoMoves DEF Inv, Rollback, Step, Rest
<1>0. /\ process[p].at = "rollback"
      /\ UNCHANGED <<written, used, last, old, broken>>
      /\ dir' \in [Name -> File]
      /\ dir["retiring"] = None => dir' = dir
      /\ dir["retiring"] # None => dir'["active"] = dir["retiring"] /\ dir'["retiring"] = None
  BY DEF Inv, Types, Rollback, Is, Name, File
<1>2. Types'
  BY <1>1, <1>0 DEF Inv, Types, Moved, Name, File, State
<1>3. FilesDiffer'
  BY <1>1, <1>0, NoneAssumption DEF Inv, Types, FilesDiffer, Moved, Name
<1>4. OneKey'
  BY <1>1, <1>0, NoneAssumption
     DEF Inv, Types, FilesDiffer, OneKey, OneRotation, Renamed, Moved, Name,
         State
<1>5. OneRotation'
  BY <1>1, <1>0, NoneAssumption
     DEF Inv, Types, State, OneRotation, Renamed, Rotating, Step, Moved
<1>6. KeyKept'
  BY <1>1, <1>0, NoneAssumption
     DEF Inv, Types, FilesDiffer, OneRotation, Renamed, KeyKept, Kept, Moved,
         Name, State
<1>7. QED BY <1>2, <1>3, <1>4, <1>5, <1>6 DEF Inv

LEMMA RenameKeeps ==
  ASSUME Inv, NEW p \in Process, Rename(p) PROVE Inv'
<1>1. PICK at \in {"failed", "generate"} :
        /\ Moved(p, at, process[p].key, process[p].active, process[p].retiring)
        /\ at = "failed" <=> dir["active"] = None
  BY GoMoves DEF Inv, Rename, Step, Rest
<1>0. /\ process[p].at = "rename"
      /\ UNCHANGED <<written, used, broken>>
      /\ dir' \in [Name -> File]
      /\ dir["active"] = None => UNCHANGED <<dir, last, old>>
      /\ dir["active"] # None =>
           /\ dir'["retiring"] = dir["active"] /\ dir'["active"] = None
           /\ last' = p
           /\ old' = None \/ (old' = dir["active"] /\ dir["active"] \in written)
  BY DEF Inv, Types, Rename, Is, Readable, Name, File
<1>2. Types'
  BY <1>1, <1>0 DEF Inv, Types, Moved, Name, File, State
<1>3. FilesDiffer'
  BY <1>1, <1>0, NoneAssumption DEF Inv, Types, FilesDiffer, Moved, Name
<1>4. OneKey'
  BY <1>1, <1>0, NoneAssumption
     DEF Inv, Types, FilesDiffer, OneKey, OneRotation, Renamed, Moved, Name,
         State
<1>5. OneRotation'
  <2>1. process[p].op = "rotate"
    BY <1>0 DEF Inv, Types, State, OneRotation
  <2>2. \A q \in Process : Rotating(q) => q = p
    BY <1>0, <2>1 DEF Inv, OneRotation, Rotating, Step
  <2>3. \A q \in Process : q # p => process'[q] = process[q] /\ ~Rotating(q)
    BY <1>1, <2>2 DEF Moved
  <2>4. process'[p].op = "rotate" /\ process'[p].at = at
    BY <1>1, <2>1 DEF Moved
  <2>5. last' # last => last' = p
    BY <1>0
  <2>6. at = "generate" => last' = p
    BY <1>0, <1>1
  <2>7. QED
    BY <2>1, <2>3, <2>4, <2>5, <2>6 DEF Inv, OneRotation, Rotating, Renamed, Step
<1>6. KeyKept'
  BY <1>1, <1>0, NoneAssumption
     DEF Inv, Types, FilesDiffer, OneRotation, Renamed, KeyKept, Kept, Moved,
         Name, State
<1>7. QED BY <1>2, <1>3, <1>4, <1>5, <1>6 DEF Inv

LEMMA CreateKeeps ==
  ASSUME Inv, NEW p \in Process, Create(p) PROVE Inv'
<1>1. PICK at \in {"read", "rollback", "failed", "write"} :
        /\ Moved(p, at, process[p].key, process[p].active, process[p].retiring)
        /\ at = "write" <=> dir["active"] = None
        /\ at = "read" => process[p].op = "load"
        /\ at = "rollback" => process[p].op = "rotate"
        /\ at = "failed" => process[p].op # "rotate"
  BY GoMoves DEF Inv, Create, FileExists, GiveUp, Step, Rest
<1>0. /\ process[p].at = "create"
      /\ UNCHANGED <<written, used, last, old, broken>>
      /\ dir' \in [Name -> File]
      /\ dir["active"] # None => dir' = dir
      /\ dir["active"] = None =>
           dir'["active"] = process[p].key /\ dir'["retiring"] = dir["retiring"]
  BY DEF Inv, Types, Create, FileExists, GiveUp, Is, Name, File, State
<1>2. Types'
  BY <1>1, <1>0 DEF Inv, Types, Moved, Name, File, State
<1>3. FilesDiffer'
  BY <1>1, <1>0, NoneAssumption DEF Inv, Types, FilesDiffer, Moved, Name
<1>4. OneKey'
  BY <1>1, <1>0, NoneAssumption
     DEF Inv, Types, FilesDiffer, OneKey, OneRotation, Renamed, Moved, Name,
         State
<1>5. OneRotation'
  BY <1>1, <1>0, NoneAssumption
     DEF Inv, Types, State, OneRotation, Renamed, Rotating, Step, Moved
<1>6. KeyKept'
  BY <1>1, <1>0, NoneAssumption
     DEF Inv, Types, FilesDiffer, OneRotation, Renamed, KeyKept, Kept, Moved,
         Name, State
<1>7. QED BY <1>2, <1>3, <1>4, <1>5, <1>6 DEF Inv

LEMMA ReadRetiringKeeps ==
  ASSUME Inv, NEW p \in Process, ReadRetiring(p) PROVE Inv'
<1>1. PICK at \in {"ready", "failed"}, retiring \in File :
        /\ Moved(p, at, process[p].key, process[p].active, retiring)
        /\ at = "ready" <=> Readable("retiring")
        /\ at = "ready" => retiring = dir["retiring"]
        /\ at = "failed" => retiring = process[p].retiring
  <2>1. process[p].key \in File /\ process[p].active \in File /\ process[p].retiring \in File
        /\ dir["retiring"] \in File
    BY DEF Inv, Types, State, Name
  <2>2. CASE Readable("retiring")
    BY <2>1, <2>2, BecomeMoves DEF Inv, ReadRetiring, Step, Rest
  <2>3. CASE ~Readable("retiring")
    BY <2>1, <2>3, GoMoves DEF Inv, ReadRetiring, Step, Rest
  <2>4. QED BY <2>2, <2>3
<1>2. Types'
  BY <1>1 DEF Inv, Types, FilesDiffer, Moved, ReadRetiring, Is, Readable, Name, File
<1>3. FilesDiffer'
  BY <1>1 DEF Inv, Types, FilesDiffer, Moved, ReadRetiring, Is, Readable, Name, File
<1>4. OneKey'
  BY <1>1 DEF Inv, Types, FilesDiffer, OneKey, OneRotation, Moved, ReadRetiring, Is,
         Readable, Name, File
<1>5. OneRotation'
  BY <1>1 DEF Inv, Types, OneRotation, Renamed, Rotating, Step, Moved, ReadRetiring,
         Is, Readable, Name, File
<1>6. KeyKept'
  BY <1>1 DEF Inv, Types, FilesDiffer, OneRotation, Renamed, KeyKept, Kept, Moved,
         ReadRetiring, Is, Readable, Name, File
<1>7. QED BY <1>2, <1>3, <1>4, <1>5, <1>6 DEF Inv

LEMMA ReadActiveKeeps ==
  ASSUME Inv, NEW p \in Process, ReadActive(p) PROVE Inv'
<1>1. PICK at \in {"lookRetiring", "ready", "failed"}, active \in File :
        /\ Moved(p, at, process[p].key, active, process[p].retiring)
        /\ at # "failed" <=> Readable("active")
        /\ at # "failed" => active = dir["active"]
        /\ at = "failed" => active = process[p].active
  <2>1. process[p].key \in File /\ process[p].active \in File /\ process[p].retiring \in File
        /\ dir["active"] \in File
    BY DEF Inv, Types, State, Name
  <2>2. CASE Readable("active")
    BY <2>1, <2>2, BecomeMoves DEF Inv, ReadActive, Step, Rest
  <2>3. CASE ~Readable("active")
    BY <2>1, <2>3, GoMoves DEF Inv, ReadActive, Step, Rest
  <2>4. QED BY <2>2, <2>3
<1>2. Types'
  BY <1>1 DEF Inv, Types, FilesDiffer, Moved, ReadActive, Is, Readable, Name, File
<1>3. FilesDiffer'
  BY <1>1 DEF Inv, Types, FilesDiffer, Moved, ReadActive, Is, Readable, Name, File
<1>4. OneKey'
  BY <1>1 DEF Inv, Types, FilesDiffer, OneKey, OneRotation, Moved, ReadActive, Is,
         Readable, Name, File
<1>5. OneRotation'
  BY <1>1 DEF Inv, Types, OneRotation, Renamed, Rotating, Step, Moved, ReadActive,
         Is, Readable, Name, File
<1>6. KeyKept'
  BY <1>1 DEF Inv, Types, FilesDiffer, OneRotation, Renamed, KeyKept, Kept, Moved,
         ReadActive, Is, Readable, Name, File
<1>7. QED BY <1>2, <1>3, <1>4, <1>5, <1>6 DEF Inv

LEMMA WriteKeeps ==
  ASSUME Inv, NEW p \in Process, Write(p) PROVE Inv'
<1>1. PICK at \in {"lookRetiring", "readRetiring", "ready"} :
        /\ Moved(p, at, process[p].key, process[p].key, process[p].retiring)
        /\ at = "readRetiring" <=> process[p].op = "rotate"
  <2>1. process[p].key \in File /\ process[p].retiring \in File
    BY DEF Inv, Types, State
  <2>2. QED BY <2>1, BecomeMoves DEF Inv, Write, Step, Rest
<1>2. Types'
  BY <1>1 DEF Inv, Types, FilesDiffer, Moved, Write, Is, Name, File, State
<1>3. FilesDiffer'
  BY <1>1 DEF Inv, Types, FilesDiffer, Moved, Write, Is, Name, File, State
<1>4. OneKey'
  BY <1>1 DEF Inv, Types, FilesDiffer, OneKey, OneRotation, Moved, Write, Is, Name,
         File, State
<1>5. OneRotation'
  BY <1>1 DEF Inv, Types, OneRotation, Renamed, Rotating, Step, Moved, Write, Is,
         Name, File, State
<1>6. KeyKept'
  BY <1>1 DEF Inv, Types, FilesDiffer, OneRotation, Renamed, KeyKept, Kept, Moved,
         Write, Is, Name, File, State
<1>7. QED BY <1>2, <1>3, <1>4, <1>5, <1>6 DEF Inv

LEMMA GenerateKeeps ==
  ASSUME Inv, NEW p \in Process, Generate(p) PROVE Inv'
<1>1. PICK at \in {"read", "rollback", "failed", "create"}, key \in File :
        /\ Moved(p, at, key, process[p].active, process[p].retiring)
        /\ at = "read" => process[p].op = "load"
        /\ at = "rollback" => process[p].op = "rotate"
        /\ at = "failed" => process[p].op # "rotate"
        /\ at = "create" => key \in Key \ used /\ used' = used \cup {key}
        /\ at # "create" => key = process[p].key /\ UNCHANGED used
  <2>1. process[p].key \in File /\ process[p].active \in File /\ process[p].retiring \in File
    BY DEF Inv, Types, State
  <2>2. CASE dir["active"] # None
    BY <2>1, <2>2, GoMoves DEF Inv, Generate, FileExists, GiveUp, Step, Rest
  <2>3. CASE dir["active"] = None
    <3>1. PICK k \in Key \ used : used' = used \cup {k}
            /\ Become(p, "create", k, process[p].active, process[p].retiring)
      BY <2>3 DEF Generate
    <3>2. Moved(p, "create", k, process[p].active, process[p].retiring)
      BY <2>1, <3>1, BecomeMoves DEF Inv, Step, File
    <3>3. QED BY <3>1, <3>2 DEF File
  <2>4. QED BY <2>2, <2>3
<1>0. /\ process[p].at = "generate"
      /\ UNCHANGED <<dir, written, last, old, broken>>
      /\ dir["active"] # None => at # "create"
  BY <1>1 DEF Inv, Types, Generate, FileExists, GiveUp, Is, Name, File, State, Moved
<1>2. Types'
  BY <1>1, <1>0 DEF Inv, Types, Moved, Name, File, State
<1>3. FilesDiffer'
  BY <1>1, <1>0, NoneAssumption DEF Inv, Types, FilesDiffer, Moved, Name
<1>4. OneKey'
  BY <1>1, <1>0, NoneAssumption
     DEF Inv, Types, FilesDiffer, OneKey, OneRotation, Renamed, Moved, Name,
         State
<1>5. OneRotation'
  BY <1>1, <1>0, NoneAssumption
     DEF Inv, Types, State, OneRotation, Renamed, Rotating, Step, Moved
<1>6. KeyKept'
  BY <1>1, <1>0, NoneAssumption
     DEF Inv, Types, FilesDiffer, OneRotation, Renamed, KeyKept, Kept, Moved,
         Name, State
<1>7. QED BY <1>2, <1>3, <1>4, <1>5, <1>6 DEF Inv

LEMMA RotateKeeps ==
  ASSUME Inv, NEW p \in Process, Rotate(p) PROVE Inv'
<1>1. PICK at \in {"rename", "failed"} :
        Start(p, "rotate", at) /\ (at = "failed" <=> dir["active"] = None)
  BY DEF Rotate
<1>2. /\ process' \in [Process -> State]
      /\ \A q \in Process : q # p => process'[q] = process[q]
      /\ process'[p].op = "rotate" /\ process'[p].at = at
      /\ process'[p].active = process[p].active /\ process'[p].retiring = process[p].retiring
  BY <1>1, StartMoves DEF Inv, Operation, Step, Rest
<1>3. /\ process[p].at = "ready"
      /\ \A q \in Process : ~Rotating(q)
      /\ UNCHANGED <<dir, written, used, last, old, broken>>
  BY DEF Rotate, Is
<1>4. Types' BY <1>2, <1>3 DEF Inv, Types
<1>5. FilesDiffer' BY <1>2, <1>3 DEF Inv, FilesDiffer
<1>6. OneKey' BY <1>2, <1>3 DEF Inv, OneKey
<1>7. OneRotation'
  BY <1>2, <1>3 DEF Inv, Types, State, OneRotation, Renamed, Rotating
<1>8. KeyKept'
  BY <1>1, <1>2, <1>3, NoneAssumption
     DEF Inv, Types, FilesDiffer, KeyKept, Kept, Name
<1>9. QED BY <1>4, <1>5, <1>6, <1>7, <1>8 DEF Inv

LEMMA OpenKeeps ==
  ASSUME Inv, NEW p \in Process, Open(p) PROVE Inv'
<1>1. PICK at \in {"failed", "read"} : Start(p, "open", at)
  BY DEF Open
<1>2. /\ process' \in [Process -> State]
      /\ \A q \in Process : q # p => process'[q] = process[q]
      /\ process'[p].op = "open" /\ process'[p].at = at
  BY <1>1, StartMoves DEF Inv, Operation, Step, Rest
<1>3. /\ process[p].at = "start"
      /\ UNCHANGED <<dir, written, used, last, old, broken>>
  BY DEF Open, Is
<1>4. process[p].op # "rotate" /\ last # p
  BY <1>3 DEF Inv, OneRotation
<1>5. Types' BY <1>2, <1>3 DEF Inv, Types
<1>6. FilesDiffer' BY <1>2, <1>3 DEF Inv, FilesDiffer
<1>7. OneKey' BY <1>2, <1>3 DEF Inv, OneKey
<1>8. OneRotation'
  BY <1>2, <1>3, <1>4 DEF Inv, Types, OneRotation, Renamed, Rotating
<1>9. KeyKept' BY <1>2, <1>3, <1>4 DEF Inv, Types, KeyKept, Kept
<1>10. QED BY <1>5, <1>6, <1>7, <1>8, <1>9 DEF Inv

LEMMA NewKeeps ==
  ASSUME Inv, NEW p \in Process, New(p) PROVE Inv'
<1>1. PICK at \in {"generate"} : Start(p, "generate", at)
  BY DEF New
<1>2. /\ process' \in [Process -> State]
      /\ \A q \in Process : q # p => process'[q] = process[q]
      /\ process'[p].op = "generate" /\ process'[p].at = at
  BY <1>1, StartMoves DEF Inv, Operation, Step, Rest
<1>3. /\ process[p].at = "start"
      /\ UNCHANGED <<dir, written, used, last, old, broken>>
  BY DEF New, Is
<1>4. process[p].op # "rotate" /\ last # p
  BY <1>3 DEF Inv, OneRotation
<1>5. Types' BY <1>2, <1>3 DEF Inv, Types
<1>6. FilesDiffer' BY <1>2, <1>3 DEF Inv, FilesDiffer
<1>7. OneKey' BY <1>2, <1>3 DEF Inv, OneKey
<1>8. OneRotation'
  BY <1>2, <1>3, <1>4 DEF Inv, Types, OneRotation, Renamed, Rotating
<1>9. KeyKept' BY <1>2, <1>3, <1>4 DEF Inv, Types, KeyKept, Kept
<1>10. QED BY <1>5, <1>6, <1>7, <1>8, <1>9 DEF Inv

LEMMA InvNext == ASSUME Inv, [Next]_vars PROVE Inv'
<1>1. ASSUME UNCHANGED vars PROVE Inv'
  BY <1>1 DEF vars, Inv, Types, FilesDiffer, OneKey, OneRotation, Rotating, KeyKept,
         Kept
<1>2. ASSUME NEW p \in Process, Look(p) PROVE Inv' BY <1>2, LookKeeps
<1>3. ASSUME NEW p \in Process, Generate(p) PROVE Inv' BY <1>3, GenerateKeeps
<1>4. ASSUME NEW p \in Process, Create(p) PROVE Inv' BY <1>4, CreateKeeps
<1>5. ASSUME NEW p \in Process, Write(p) PROVE Inv' BY <1>5, WriteKeeps
<1>6. ASSUME NEW p \in Process, WriteFails(p) PROVE Inv' BY <1>6, WriteFailsKeeps
<1>7. ASSUME NEW p \in Process, ReadActive(p) PROVE Inv' BY <1>7, ReadActiveKeeps
<1>8. ASSUME NEW p \in Process, LookRetiring(p) PROVE Inv' BY <1>8, LookRetiringKeeps
<1>9. ASSUME NEW p \in Process, ReadRetiring(p) PROVE Inv' BY <1>9, ReadRetiringKeeps
<1>10. ASSUME NEW p \in Process, Rotate(p) PROVE Inv' BY <1>10, RotateKeeps
<1>11. ASSUME NEW p \in Process, Rename(p) PROVE Inv' BY <1>11, RenameKeeps
<1>12. ASSUME NEW p \in Process, Rollback(p) PROVE Inv' BY <1>12, RollbackKeeps
<1>13. ASSUME NEW p \in Process, Crash(p) PROVE Inv' BY <1>13, CrashKeeps
<1>14. ASSUME NEW p \in Process, Open(p) PROVE Inv' BY <1>14, OpenKeeps
<1>15. ASSUME NEW p \in Process, New(p) PROVE Inv' BY <1>15, NewKeeps
<1>16. QED
  BY <1>1, <1>2, <1>3, <1>4, <1>5, <1>6, <1>7, <1>8, <1>9, <1>10, <1>11, <1>12, <1>13,
     <1>14, <1>15
     DEF Next

-----------------------------------------------------------------------------

(* The inductive invariant holds of every behaviour.                       *)
THEOREM KeyringInvariant == Spec => []Inv
<1>1. Init => Inv BY InvInit
<1>2. Inv /\ [Next]_vars => Inv' BY InvNext
<1>3. QED BY <1>1, <1>2, PTL DEF Spec

(* Every variable keeps its type, and no file has both names               *)
(* (identity.py:232-349).                                                  *)
THEOREM KeyringTypes == Spec => []TypeOK
<1>1. Inv => TypeOK BY InvImplies
<1>2. QED BY <1>1, KeyringInvariant, PTL

(* As long as nobody rotates, any number of processes that start, fail and *)
(* crash sign with one key, the one on disk (identity.py:253-261).         *)
THEOREM OneKeyForAll == Spec => []FirstStartsAgree
<1>1. Inv => FirstStartsAgree BY InvImplies
<1>2. QED BY <1>1, KeyringInvariant, PTL

(* Whatever fails or crashes and whoever loads meanwhile, the last rotation *)
(* has not lost the key it found (identity.py:334-349).                    *)
THEOREM RotationsKeepTheKey == Spec => []RotationKeepsTheKey
<1>1. Inv => RotationKeepsTheKey BY InvImplies
<1>2. QED BY <1>1, KeyringInvariant, PTL

-----------------------------------------------------------------------------

(* Every step of a command is one of the keyring, or leaves that alone.    *)
LEMMA CommandStep == ASSUME [CommandNext]_allVars PROVE [Next]_vars
<1>1. CASE UNCHANGED allVars BY <1>1 DEF allVars
<1>2. ASSUME NEW p \in Process,
             \/ Agent(p) \/ Keygen(p) \/ RotateCommand(p) \/ Register(p)
             \/ RotateLoaded(p) \/ CommandCrash(p)
      PROVE  [Next]_vars
  BY <1>2
     DEF Agent, Keygen, RotateCommand, Register, RotateLoaded, CommandCrash, Next
<1>3. ASSUME NEW p \in Process, KeyringStep(p) PROVE [Next]_vars
  BY <1>3 DEF KeyringStep, Next
<1>4. ASSUME NEW p \in Process,
             \/ KeyringFailed(p) \/ KeyringDone(p) \/ OpenJwks(p) \/ WriteJwks(p)
             \/ JwksFails(p) \/ Challenge(p) \/ Submit(p) \/ CallFails(p)
      PROVE  UNCHANGED vars
  BY <1>4
     DEF KeyringFailed, KeyringDone, OpenJwks, WriteJwks, JwksFails, Challenge,
         Submit,
     CallFails
<1>5. QED BY <1>1, <1>2, <1>3, <1>4 DEF CommandNext

-----------------------------------------------------------------------------

(* The commands implement Keyring: every step of theirs is a step of it or *)
(* leaves it alone (cli.py:478-743).                                       *)
THEOREM CommandsUseTheKeyring == CommandSpec => Spec
<1>1. CommandInit => Init BY DEF CommandInit
<1>2. [CommandNext]_allVars => [Next]_vars BY CommandStep
<1>3. QED BY <1>1, <1>2, PTL DEF CommandSpec, Spec

(* Without a rotation, agents and commands sign with the key on disk       *)
(* (identity.py:253-261).                                                  *)
THEOREM OneKeyForCommands == CommandSpec => []FirstStartsAgree
BY CommandsUseTheKeyring, OneKeyForAll, PTL

(* The last wbauth rotate has not lost the key it found                    *)
(* (identity.py:334-349).                                                  *)
THEOREM RotateKeepsTheKey == CommandSpec => []RotationKeepsTheKey
BY CommandsUseTheKeyring, RotationsKeepTheKey, PTL

-----------------------------------------------------------------------------

(* p holds a key.                                                          *)
Holding == {"lookRetiring", "readRetiring", "ready"}

(* p generates the first key.                                              *)
Generating(q) == q.op = "generate" /\ q.at \in {"generate", "create", "write"}

(* What a step of p's keyring operation does, as far as the commands can   *)
(* tell: to p itself,                                                      *)
Goes(p) ==
  LET q == process[p]  r == process'[p] IN
  /\ \A o \in Process : o # p => process'[o] = process[o]
  /\ q.at \in Step /\ r.op = q.op
  /\ written \subseteq written' /\ (last' = None => last = None)
  /\ r.at \in Holding => r.active \in written' \/ (q.at \in Holding /\ r.active = q.active)
  /\ r.retiring = q.retiring \/ r.retiring \in written

(* to the names of the keyring,                                            *)
Names(p) ==
  LET q == process[p]  r == process'[p] IN
  \/ UNCHANGED dir
  \/ /\ q.at = "create" /\ dir["active"] = None
     /\ dir'["active"] # None /\ dir'["retiring"] = dir["retiring"]
  \/ /\ q.at = "rename" /\ r.at = "generate"
     /\ dir["active"] # None /\ dir'["retiring"] = dir["active"]
  \/ /\ q.at = "rollback" /\ r.at = "failed"
     /\ dir["retiring"] # None
     /\ dir'["active"] = dir["retiring"] /\ dir'["retiring"] = None

(* and how it gets where it is, if it generates a key or rotates.          *)
Comes(p) ==
  LET q == process[p]  r == process'[p] IN
  /\ Generating(q) => r.at \in {"create", "write", "ready", "failed"}
  /\ Generating(q) \/ q.op = "rotate" =>
       /\ r.at = "write" => dir'["active"] = r.key
       /\ r.at = "readRetiring" => UNCHANGED dir /\ q.at = "write" /\ r.active = q.key
       /\ r.at = "ready" =>
            /\ UNCHANGED dir
            /\ q.op = "generate" => q.at = "write" /\ r.active = q.key
            /\ q.op = "rotate" => /\ q.at = "readRetiring" /\ r.active = q.active
                                  /\ r.retiring = dir["retiring"]
  /\ q.op = "rotate" =>
       /\ q.at # "rollback" /\ r.at = "failed" =>
            UNCHANGED dir /\ (q.at = "rename" \/ (q.at = "readRetiring" /\ ~Readable("retiring")))
       /\ r.at \in Renamed \cup {"ready", "failed"}
       /\ q.at = "rename" =>
            \/ r.at = "generate" /\ dir'["retiring"] = dir["active"]
            \/ r.at = "failed" /\ UNCHANGED dir
       /\ q.at = "rollback" =>
            /\ r.at = "failed"
            /\ dir["retiring"] # None => dir'["active"] = dir["retiring"] /\ dir'["retiring"] = None
  /\ q.op = "generate" /\ q.at = "generate" /\ dir["active"] # None => r.at = "failed"


(* Each of those steps is one that it describes.                            *)
LEMMA KeyringStepTells ==
  ASSUME Inv, NEW p \in Process,
         \/ Generate(p) \/ Create(p) \/ Write(p) \/ WriteFails(p) \/ ReadActive(p)
         \/ LookRetiring(p) \/ ReadRetiring(p) \/ Rename(p) \/ Rollback(p)
  PROVE  Goes(p) /\ Names(p) /\ Comes(p)
<1>1. ASSUME Generate(p) PROVE Goes(p) /\ Names(p) /\ Comes(p)
  <2>1. PICK at \in {"read", "rollback", "failed", "create"}, key \in File :
          /\ Moved(p, at, key, process[p].active, process[p].retiring)
          /\ at = "read" => process[p].op = "load"
          /\ at = "rollback" => process[p].op = "rotate"
          /\ at = "failed" => process[p].op # "rotate"
          /\ at = "create" => key \in Key \ used /\ used' = used \cup {key}
          /\ at # "create" => key = process[p].key /\ UNCHANGED used
    <3>1. process[p].key \in File /\ process[p].active \in File /\ process[p].retiring \in File
      BY DEF Inv, Types, State
    <3>2. CASE dir["active"] # None
      BY <1>1, <3>1, <3>2, GoMoves DEF Inv, Generate, FileExists, GiveUp, Step, Rest
    <3>3. CASE dir["active"] = None
      <4>1. PICK k \in Key \ used : used' = used \cup {k}
              /\ Become(p, "create", k, process[p].active, process[p].retiring)
        BY <1>1, <3>3 DEF Generate
      <4>2. Moved(p, "create", k, process[p].active, process[p].retiring)
        BY <1>1, <3>1, <4>1, BecomeMoves DEF Inv, Step, File
      <4>3. QED BY <4>1, <4>2 DEF File
    <3>4. QED BY <3>2, <3>3
  <2>2. Goes(p)
    BY <1>1, <2>1
       DEF Goes, Holding, Inv, Types, State, Moved, Generate, Is, Step
  <2>3. Names(p)
    BY <1>1, <2>1, NoneAssumption
       DEF Names, Inv, Types, State, FilesDiffer, Moved, Generate, Is, Name, Step
  <2>4. Comes(p)
    BY <1>1, <2>1, NoneAssumption
       DEF Comes, Generating, Renamed, Inv, Types, State, FilesDiffer, OneRotation, Moved,
           Generate, Is, Readable, Name, Step
  <2>5. QED BY <2>2, <2>3, <2>4
<1>2. ASSUME Create(p) PROVE Goes(p) /\ Names(p) /\ Comes(p)
  <2>1. PICK at \in {"read", "rollback", "failed", "write"} :
          /\ Moved(p, at, process[p].key, process[p].active, process[p].retiring)
          /\ at = "write" <=> dir["active"] = None
          /\ at = "read" => process[p].op = "load"
          /\ at = "rollback" => process[p].op = "rotate"
          /\ at = "failed" => process[p].op # "rotate"
    BY <1>2, GoMoves DEF Inv, Create, FileExists, GiveUp, Step, Rest
  <2>2. Goes(p)
    BY <1>2, <2>1
       DEF Goes, Holding, Inv, Types, State, Moved, Create, Is, Step
  <2>3. Names(p)
    BY <1>2, <2>1, NoneAssumption
       DEF Names, Inv, Types, State, FilesDiffer, Moved, Create, Is, Name, Step
  <2>4. Comes(p)
    BY <1>2, <2>1, NoneAssumption
       DEF Comes, Generating, Renamed, Inv, Types, State, FilesDiffer, OneRotation, Moved,
           Create, Is, Readable, Name, Step
  <2>5. QED BY <2>2, <2>3, <2>4
<1>3. ASSUME Write(p) PROVE Goes(p) /\ Names(p) /\ Comes(p)
  <2>1. PICK at \in {"lookRetiring", "readRetiring", "ready"} :
          /\ Moved(p, at, process[p].key, process[p].key, process[p].retiring)
          /\ at = "readRetiring" <=> process[p].op = "rotate"
          /\ at = "lookRetiring" <=> process[p].op = "load"
    <3>1. process[p].key \in File /\ process[p].retiring \in File
      BY DEF Inv, Types, State
    <3>2. QED BY <1>3, <3>1, BecomeMoves DEF Inv, Write, Step, Rest
  <2>2. Goes(p)
    BY <1>3, <2>1
       DEF Goes, Holding, Inv, Types, State, Moved, Write, Is, Step
  <2>3. Names(p)
    BY <1>3, <2>1, NoneAssumption
       DEF Names, Inv, Types, State, FilesDiffer, Moved, Write, Is, Name, Step
  <2>4. Comes(p)
    BY <1>3, <2>1, NoneAssumption
       DEF Comes, Generating, Renamed, Inv, Types, State, FilesDiffer, OneRotation, Moved,
           Write, Is, Readable, Name, Step
  <2>5. QED BY <2>2, <2>3, <2>4
<1>4. ASSUME WriteFails(p) PROVE Goes(p) /\ Names(p) /\ Comes(p)
  <2>1. PICK at \in {"failed", "rollback"} :
          /\ Moved(p, at, process[p].key, process[p].active, process[p].retiring)
          /\ process[p].op = "rotate" <=> at = "rollback"
    BY <1>4, GoMoves DEF Inv, WriteFails, GiveUp, Step, Rest
  <2>2. Goes(p)
    BY <1>4, <2>1
       DEF Goes, Holding, Inv, Types, State, Moved, WriteFails, Step
  <2>3. Names(p)
    BY <1>4, <2>1, NoneAssumption
       DEF Names, Inv, Types, State, FilesDiffer, Moved, WriteFails, Name, Step
  <2>4. Comes(p)
    BY <1>4, <2>1, NoneAssumption
       DEF Comes, Generating, Renamed, Inv, Types, State, FilesDiffer, OneRotation, Moved,
           WriteFails, Readable, Name, Step
  <2>5. QED BY <2>2, <2>3, <2>4
<1>5. ASSUME ReadActive(p) PROVE Goes(p) /\ Names(p) /\ Comes(p)
  <2>1. PICK at \in {"lookRetiring", "ready", "failed"}, active \in File :
          /\ Moved(p, at, process[p].key, active, process[p].retiring)
          /\ at # "failed" <=> Readable("active")
          /\ at # "failed" => active = dir["active"]
          /\ at = "failed" => active = process[p].active
    <3>1. process[p].key \in File /\ process[p].active \in File /\ process[p].retiring \in File
          /\ dir["active"] \in File
      BY DEF Inv, Types, State, Name
    <3>2. CASE Readable("active")
      BY <1>5, <3>1, <3>2, BecomeMoves DEF Inv, ReadActive, Step, Rest
    <3>3. CASE ~Readable("active")
      BY <1>5, <3>1, <3>3, GoMoves DEF Inv, ReadActive, Step, Rest
    <3>4. QED BY <3>2, <3>3
  <2>2. Goes(p)
    BY <1>5, <2>1
       DEF Goes, Holding, Inv, Types, State, Moved, ReadActive, Is,
           Readable, Step
  <2>3. Names(p)
    BY <1>5, <2>1, NoneAssumption
       DEF Names, Inv, Types, State, FilesDiffer, Moved, ReadActive, Is, Readable,
           Name, Step
  <2>4. Comes(p)
    BY <1>5, <2>1, NoneAssumption
       DEF Comes, Generating, Renamed, Inv, Types, State, FilesDiffer, OneRotation, Moved,
           ReadActive, Is, Readable, Name, Step
  <2>5. QED BY <2>2, <2>3, <2>4
<1>6. ASSUME LookRetiring(p) PROVE Goes(p) /\ Names(p) /\ Comes(p)
  <2>1. PICK at \in {"ready", "readRetiring"} :
          /\ Moved(p, at, process[p].key, process[p].active, process[p].retiring)
    BY <1>6, GoMoves DEF Inv, LookRetiring, Step, Rest
  <2>2. Goes(p)
    BY <1>6, <2>1
       DEF Goes, Holding, Inv, Types, State, Moved, LookRetiring, Is,
           Step
  <2>3. Names(p)
    BY <1>6, <2>1, NoneAssumption
       DEF Names, Inv, Types, State, FilesDiffer, Moved, LookRetiring, Is, Name,
           Step
  <2>4. Comes(p)
    BY <1>6, <2>1, NoneAssumption
       DEF Comes, Generating, Renamed, Inv, Types, State, FilesDiffer, OneRotation, Moved,
           LookRetiring, Is, Readable, Name, Step
  <2>5. QED BY <2>2, <2>3, <2>4
<1>7. ASSUME ReadRetiring(p) PROVE Goes(p) /\ Names(p) /\ Comes(p)
  <2>1. PICK at \in {"ready", "failed"}, retiring \in File :
          /\ Moved(p, at, process[p].key, process[p].active, retiring)
          /\ at = "ready" <=> Readable("retiring")
          /\ at = "ready" => retiring = dir["retiring"]
          /\ at = "failed" => retiring = process[p].retiring
    <3>1. process[p].key \in File /\ process[p].active \in File /\ process[p].retiring \in File
          /\ dir["retiring"] \in File
      BY DEF Inv, Types, State, Name
    <3>2. CASE Readable("retiring")
      BY <1>7, <3>1, <3>2, BecomeMoves DEF Inv, ReadRetiring, Step, Rest
    <3>3. CASE ~Readable("retiring")
      BY <1>7, <3>1, <3>3, GoMoves DEF Inv, ReadRetiring, Step, Rest
    <3>4. QED BY <3>2, <3>3
  <2>2. Goes(p)
    BY <1>7, <2>1
       DEF Goes, Holding, Inv, Types, State, Moved, ReadRetiring, Is,
           Readable, Step
  <2>3. Names(p)
    BY <1>7, <2>1, NoneAssumption
       DEF Names, Inv, Types, State, FilesDiffer, Moved, ReadRetiring, Is,
           Readable, Name, Step
  <2>4. Comes(p)
    BY <1>7, <2>1, NoneAssumption
       DEF Comes, Generating, Renamed, Inv, Types, State, FilesDiffer, OneRotation, Moved,
           ReadRetiring, Is, Readable, Name, Step
  <2>5. QED BY <2>2, <2>3, <2>4
<1>8. ASSUME Rename(p) PROVE Goes(p) /\ Names(p) /\ Comes(p)
  <2>1. PICK at \in {"failed", "generate"} :
          /\ Moved(p, at, process[p].key, process[p].active, process[p].retiring)
          /\ at = "failed" <=> dir["active"] = None
    BY <1>8, GoMoves DEF Inv, Rename, Step, Rest
  <2>2. Goes(p)
    BY <1>8, <2>1, NoneAssumption
       DEF Goes, Holding, Inv, Types, State, Moved, Rename, Is, Step
  <2>3. Names(p)
    BY <1>8, <2>1, NoneAssumption
       DEF Names, Inv, Types, State, FilesDiffer, Moved, Rename, Is, Name, Step
  <2>4. /\ process[p].at = "rename" /\ process[p].op = "rotate"
        /\ at = "failed" => UNCHANGED dir
        /\ at = "generate" => dir'["retiring"] = dir["active"]
    BY <1>8, <2>1 DEF Inv, Types, State, OneRotation, Rename, Is, Name
  <2>5. Comes(p)
    BY <2>1, <2>4 DEF Comes, Generating, Renamed, Moved
  <2>6. QED BY <2>2, <2>3, <2>5
<1>9. ASSUME Rollback(p) PROVE Goes(p) /\ Names(p) /\ Comes(p)
  <2>1. PICK at \in {"failed"} :
          /\ Moved(p, at, process[p].key, process[p].active, process[p].retiring)
    BY <1>9, GoMoves DEF Inv, Rollback, Step, Rest
  <2>2. Goes(p)
    BY <1>9, <2>1
       DEF Goes, Holding, Inv, Types, State, Moved, Rollback, Is, Step
  <2>3. Names(p)
    BY <1>9, <2>1, NoneAssumption
       DEF Names, Inv, Types, State, FilesDiffer, Moved, Rollback, Is, Name, Step
  <2>4. Comes(p)
    BY <1>9, <2>1, NoneAssumption
       DEF Comes, Generating, Renamed, Inv, Types, State, FilesDiffer, OneRotation, Moved,
           Rollback, Is, Readable, Name, Step
  <2>5. QED BY <2>2, <2>3, <2>4
<1>10. QED BY <1>1, <1>2, <1>3, <1>4, <1>5, <1>6, <1>7, <1>8, <1>9


-----------------------------------------------------------------------------

(* The inductive invariant.  Types, and what each kind of command does.    *)
CommandTypes ==
  /\ command \in [Process -> [kind : Kind, at : Stage]]
  /\ jwks \subseteq File
  /\ registered \subseteq Key
  /\ settled \in Writer \cup {None}

Doing(p) ==
  LET c == command[p]  q == process[p] IN
  /\ c.at = "none" => q.at = "start" /\ q.op = "load" /\ q.retiring = None
  /\ c.at \in {"publish", "open"} => c.kind \in Writer /\ q.at = "ready"
  /\ c.at \in {"challenge", "submit"} => c.kind = "register" /\ q.at = "ready"
  /\ c.kind = "keygen" => q.op = "generate" /\ (Generating(q) \/ q.at \in Rest)
  /\ c.kind = "rotate" => q.op \in {"load", "rotate"}
  /\ c.kind = "rotate" /\ c.at \in {"publish", "open"} => q.op = "rotate"
  /\ q.op = "rotate" /\ q.at \in Step => At(p, "rotate", "keyring")

(* keygen and rotate run one after the other.                              *)
Alone ==
  \A p, q \in Process :
    command[p].kind \in Writer /\ Runs(p) /\ command[q].kind \in Writer /\ Runs(q) => p = q

(* The keys a process holds are complete.                                  *)
Held(q) ==
  /\ q.at \in Holding => q.active \in written
  /\ q.retiring \in written \cup {None}

(* A command that has changed the keyring, and is going to write the JWKS, *)
(* sees it as it is.                                                       *)
Sees(p) ==
  LET q == process[p] IN
  command[p].kind \in Writer /\ Runs(p) /\ q.op # "load" =>
    /\ q.at = "write" => dir["active"] = q.key
    /\ q.at = "readRetiring" => dir["active"] = q.active
    /\ q.at = "ready" =>
         dir["active"] = q.active /\ (q.op = "rotate" => dir["retiring"] = q.retiring)

(* What register has had accepted.                                         *)
Accepted ==
  /\ \A p \in Process : At(p, "register", "exit0") => process[p].active \in registered
  /\ last = None => registered \subseteq {dir["active"]} \cap written

(* A rotation has renamed the active key, and has not failed.              *)
Midway(p) ==
  /\ command[p].kind = "rotate" /\ Runs(p)
  /\ process[p].op = "rotate" /\ process[p].at \in Renamed \cup {"ready"}

(* The JWKS: no rotation under way, or one that can still be rolled back.  *)
Published ==
  /\ Served \subseteq written
  /\ settled # None =>
       /\ (\A p \in Process : ~Midway(p)) =>
            /\ dir["active"] \in Served
            /\ settled = "rotate" => dir["retiring"] \in Served \cup {None}
       /\ \A p \in Process :
            /\ Midway(p) /\ process[p].at # "ready" => dir["retiring"] \in Served
            /\ command[p].kind = "keygen" /\ Runs(p) =>
                 process[p].at \in {"generate", "failed"} /\ command[p].at = "keyring"

CommandInv ==
  /\ Inv
  /\ CommandTypes /\ Alone
  /\ \A p \in Process : Doing(p) /\ Held(process[p]) /\ Sees(p)
  /\ Accepted /\ Published


LEMMA KeyringStepKeeps ==
  ASSUME CommandInv, NEW p \in Process, KeyringStep(p) PROVE CommandInv'
<1>1. /\ Goes(p) /\ Names(p) /\ Comes(p)
      /\ UNCHANGED commandVars /\ command[p].at = "keyring"
  BY KeyringStepTells DEF CommandInv, KeyringStep
<1>2. Inv' BY InvNext DEF CommandInv, KeyringStep, Next
<1>3. CommandTypes' /\ Alone'
  BY <1>1 DEF CommandInv, CommandTypes, Alone, Runs, commandVars
<1>4. ASSUME NEW o \in Process PROVE Doing(o)'
  <2>1. CASE o # p BY <1>1, <2>1 DEF CommandInv, Doing, Goes, At, commandVars
  <2>2. CASE o = p
    BY <1>1, <2>2 DEF CommandInv, Doing, Goes, Comes, Generating, Step, Rest, At, commandVars
  <2>3. QED BY <2>1, <2>2
<1>5. ASSUME NEW o \in Process PROVE Held(process[o])'
  BY <1>1 DEF CommandInv, Held, Goes
<1>6. ASSUME NEW o \in Process PROVE Sees(o)'
  <2>1. SUFFICES ASSUME command[o].kind \in Writer, Runs(o), process[o].op # "load"
                 PROVE  Sees(o)'
    BY <1>1 DEF Sees, Runs, Goes, commandVars
  <2>2. CASE o # p
    <3>1. process'[o] = process[o] BY <1>1, <2>2 DEF Goes
    <3>2. process[p].op = "rotate" /\ process[p].at \in Step => o = p
      BY <1>1, <2>1 DEF CommandInv, Doing, At, Alone, Runs, Over, Writer
    <3>3. process[p].at \notin {"rename", "rollback"}
      BY <3>2, <2>2 DEF CommandInv, Inv, OneRotation, Step
    <3>4. UNCHANGED dir \/ (dir["active"] = None /\ dir'["retiring"] = dir["retiring"])
      BY <1>1, <3>3 DEF Names
    <3>5. /\ process[o].at = "write" => process[o].key # None
          /\ process[o].at \in {"readRetiring", "ready"} => process[o].active # None
      BY NoneAssumption DEF CommandInv, Inv, Types, FilesDiffer, Held, Holding
    <3>6. QED BY <1>1, <2>1, <3>1, <3>4, <3>5 DEF CommandInv, Sees, Runs, commandVars
  <2>3. CASE o = p
    <3>1. Generating(process[p]) \/ process[p].op = "rotate"
      BY <1>1, <2>1, <2>3 DEF CommandInv, Doing, Goes, Writer, Step, Rest
    <3>2. QED
      BY <1>1, <2>1, <2>3, <3>1 DEF CommandInv, Sees, Goes, Comes, Generating, commandVars
  <2>4. QED BY <2>2, <2>3
<1>7. Accepted'
  <2>1. last' = None => UNCHANGED dir \/ dir["active"] = None
    BY <1>1, <1>2, NoneAssumption
       DEF CommandInv, Inv, Types, Goes, Names, OneRotation, Renamed
  <2>2. \A o \in Process : command[o].at = "exit0" => process'[o] = process[o]
    BY <1>1 DEF Goes
  <2>3. None \notin written
    BY NoneAssumption DEF CommandInv, Inv, Types
  <2>4. QED
    BY <1>1, <2>1, <2>2, <2>3 DEF CommandInv, Accepted, Goes, At, commandVars
<1>8. Published'
  <2>1. Served' = Served /\ UNCHANGED <<jwks, settled, command>> /\ Served \subseteq written'
    BY <1>1 DEF CommandInv, Published, Served, Goes, commandVars
  <2>2. SUFFICES ASSUME settled # None
                 PROVE  /\ (\A o \in Process : ~Midway(o)') =>
                             /\ dir'["active"] \in Served
                             /\ settled = "rotate" => dir'["retiring"] \in Served \cup {None}
                        /\ \A o \in Process :
                             /\ Midway(o)' /\ process'[o].at # "ready" => dir'["retiring"] \in Served
                             /\ command[o].kind = "keygen" /\ Runs(o) =>
                                  process'[o].at \in {"generate", "failed"} /\ command[o].at = "keyring"
    BY <2>1 DEF Published, Runs
  <2>3. None \notin Served BY DEF Served, NoJwks
  <2>4. \A o \in Process : o # p => process'[o] = process[o] /\ (Midway(o)' <=> Midway(o))
    BY <1>1, <2>1 DEF Goes, Midway, Runs
  <2>5. Runs(p) BY <1>1 DEF Runs, Over
  <2>6. process[p].op = "rotate" => command[p].kind = "rotate"
    BY <1>1 DEF CommandInv, Doing, Goes, At
  <2>7. ASSUME NEW o \in Process, command[o].kind = "keygen", Runs(o)
        PROVE  process'[o].at \in {"generate", "failed"} /\ command[o].at = "keyring"
    <3>1. process[o].at \in {"generate", "failed"} /\ command[o].at = "keyring"
      BY <2>2, <2>7 DEF CommandInv, Published
    <3>2. CASE o # p BY <2>4, <3>1, <3>2
    <3>3. CASE o = p
      <4>1. \A x \in Process : ~Midway(x)
        BY <2>7 DEF CommandInv, Alone, Midway, Writer
      <4>2. dir["active"] # None BY <4>1, <2>2, <2>3 DEF CommandInv, Published
      <4>3. process[p].op = "generate" /\ process[p].at = "generate"
        BY <1>1, <2>7, <3>1, <3>3 DEF CommandInv, Doing, Goes, Step
      <4>4. QED BY <1>1, <3>1, <3>3, <4>2, <4>3 DEF Comes
    <3>4. QED BY <3>2, <3>3
  <2>8. CASE \E x \in Process : Midway(x) /\ x # p
    <3>1. PICK x \in Process : Midway(x) /\ x # p BY <2>8
    <3>2. process[p].op # "rotate" /\ command[p].kind # "rotate"
      BY <2>5, <2>6, <3>1 DEF CommandInv, Alone, Midway, Writer
    <3>3. process[p].at \notin {"rename", "rollback"}
      BY <3>2 DEF CommandInv, Inv, OneRotation
    <3>4. dir'["retiring"] = dir["retiring"] BY <1>1, <3>3 DEF Names
    <3>5. Midway(x)' /\ ~Midway(p)' BY <2>1, <2>4, <3>1, <3>2 DEF Midway
    <3>6. QED BY <2>2, <2>4, <2>7, <3>4, <3>5 DEF CommandInv, Published
  <2>9. CASE Midway(p)
    <3>1. /\ process[p].op = "rotate" /\ process[p].at \in Renamed
          /\ dir["retiring"] \in Served
      BY <1>1, <2>2, <2>9 DEF CommandInv, Published, Midway, Goes, Step
    <3>2. \A x \in Process : x # p => ~Midway(x)'
      BY <2>4, <2>9 DEF CommandInv, Alone, Midway, Writer
    <3>3. CASE process'[p].at = "failed"
      <4>1. process[p].at = "rollback"
        BY <1>1, <3>1, <3>3 DEF Comes, CommandInv, Published, Readable, Renamed
      <4>2. dir'["active"] \in Served /\ dir'["retiring"] = None
        BY <1>1, <2>3, <3>1, <4>1 DEF Comes
      <4>3. ~Midway(p)' BY <3>3 DEF Midway, Renamed
      <4>4. QED BY <2>7, <3>2, <4>2, <4>3
    <3>4. CASE process'[p].at # "failed"
      <4>1. dir'["retiring"] = dir["retiring"]
        BY <1>1, <3>1, <3>4 DEF Comes, Names, Renamed
      <4>2. Midway(p)' BY <1>1, <2>1, <2>9, <3>1, <3>4 DEF Comes, Goes, Midway, Runs
      <4>3. QED BY <2>7, <3>1, <3>2, <4>1, <4>2
    <3>5. QED BY <3>3, <3>4
  <2>10. CASE \A x \in Process : ~Midway(x)
    <3>1. /\ dir["active"] \in Served
          /\ settled = "rotate" => dir["retiring"] \in Served \cup {None}
      BY <2>2, <2>10 DEF CommandInv, Published
    <3>2. CASE process[p].op = "rotate"
      <4>1. process[p].at = "rename"
        BY <1>1, <2>5, <2>6, <2>10, <3>2
           DEF CommandInv, Inv, OneRotation, Midway, Goes, Step, Renamed
      <4>2. process'[p].at = "generate" => dir'["retiring"] \in Served
        BY <1>1, <3>1, <3>2, <4>1 DEF Comes
      <4>3. process'[p].at = "failed" => UNCHANGED dir /\ ~Midway(p)'
        BY <1>1, <3>2, <4>1 DEF Comes, Midway, Renamed
      <4>4. process'[p].at = "generate" => Midway(p)'
        BY <1>1, <2>1, <2>5, <2>6, <3>2 DEF Goes, Midway, Runs, Renamed
      <4>5. process'[p].at \in {"generate", "failed"}
        BY <1>1, <3>2, <4>1 DEF Comes
      <4>6. QED BY <2>4, <2>7, <2>10, <3>1, <4>2, <4>3, <4>4, <4>5
    <3>3. CASE process[p].op # "rotate"
      <4>1. process[p].at \notin {"rename", "rollback"}
        BY <3>3 DEF CommandInv, Inv, OneRotation
      <4>2. UNCHANGED dir BY <1>1, <2>3, <3>1, <4>1 DEF Names
      <4>3. ~Midway(p)' BY <1>1, <3>3 DEF Goes, Midway
      <4>4. QED BY <2>4, <2>7, <2>10, <3>1, <4>2, <4>3
    <3>4. QED BY <3>2, <3>3
  <2>11. QED BY <2>8, <2>9, <2>10
<1>9. QED BY <1>2, <1>3, <1>4, <1>5, <1>6, <1>7, <1>8 DEF CommandInv


(* A step that leaves the keyring alone.                                   *)
LEMMA QuietStepKeeps ==
  ASSUME CommandInv, NEW p \in Process, UNCHANGED vars,
         command' \in [Process -> [kind : Kind, at : Stage]],
         \A o \in Process : o # p => command'[o] = command[o],
         command'[p].kind = command[p].kind, Runs(p),
         jwks' \subseteq File, registered' \subseteq Key, settled' \in Writer \cup {None},
         Doing(p)', Accepted', Published'
  PROVE  CommandInv'
<1>1. Inv' BY InvNext DEF CommandInv
<1>2. CommandTypes' BY DEF CommandTypes
<1>3. Alone' BY DEF CommandInv, Alone, Runs
<1>4. ASSUME NEW o \in Process PROVE Doing(o)'
  BY DEF CommandInv, Doing, At, vars
<1>5. ASSUME NEW o \in Process PROVE Held(process[o])' /\ Sees(o)'
  BY DEF CommandInv, Held, Sees, Runs, vars
<1>6. QED BY <1>1, <1>2, <1>3, <1>4, <1>5 DEF CommandInv

(* It goes from one stage to another.                                      *)
LEMMA ThenMoves ==
  ASSUME CommandTypes, NEW p \in Process, NEW at \in Stage, Then(p, at)
  PROVE  /\ command' \in [Process -> [kind : Kind, at : Stage]]
         /\ \A o \in Process : o # p => command'[o] = command[o]
         /\ command'[p] = [kind |-> command[p].kind, at |-> at]
BY DEF CommandTypes, Then


(* What was accepted stays what it should be while registered and the      *)
(* keyring do.                                                             *)
LEMMA AcceptedStays ==
  ASSUME Accepted, NEW p \in Process, UNCHANGED <<vars, registered>>,
         \A o \in Process : o # p => command'[o] = command[o],
         ~At(p, "register", "exit0")'
  PROVE  Accepted'
BY DEF Accepted, At, vars

(* What is published stays what it should be while the JWKS does and p,    *)
(* unless its command ends, is as far with its rotation.                   *)
LEMMA PublishedStays ==
  ASSUME Published, NEW p \in Process, UNCHANGED <<vars, jwks, settled>>,
         \A o \in Process : o # p => command'[o] = command[o],
         command'[p].kind = command[p].kind,
         Midway(p)' <=> Midway(p),
         command[p].kind = "keygen" => ~Runs(p)' \/ settled = None
  PROVE  Published'
<1>1. \A o \in Process : Midway(o)' <=> Midway(o) BY DEF Midway, Runs, vars
<1>2. QED BY <1>1 DEF Published, Served, Runs, vars

(* The same when p is, or becomes, none of those that change the keyring.  *)
LEMMA PublishedBeside ==
  ASSUME Published, NEW p \in Process, UNCHANGED <<dir, jwks, settled>>,
         written \subseteq written',
         \A o \in Process : o # p => command'[o] = command[o] /\ process'[o] = process[o],
         ~Midway(p), ~Midway(p)',
         settled # None /\ (command[p].kind = "keygen" /\ Runs(p))' =>
           process'[p].at \in {"generate", "failed"} /\ command'[p].at = "keyring"
  PROVE  Published'
<1>1. \A o \in Process : o # p => (Midway(o)' <=> Midway(o)) /\ (Runs(o)' <=> Runs(o))
  BY DEF Midway, Runs
<1>2. Served' = Served BY DEF Served
<1>3. Served' \subseteq written' BY <1>2 DEF Published
<1>4. ASSUME settled # None
      PROVE  (\A o \in Process : ~Midway(o)') =>
               /\ dir'["active"] \in Served'
               /\ settled' = "rotate" => dir'["retiring"] \in Served' \cup {None}
  <2>1. (\A o \in Process : ~Midway(o)') => \A o \in Process : ~Midway(o) BY <1>1
  <2>2. QED BY <1>2, <1>4, <2>1 DEF Published
<1>5. ASSUME settled # None, NEW o \in Process
      PROVE  /\ Midway(o)' /\ process'[o].at # "ready" => dir'["retiring"] \in Served'
             /\ command'[o].kind = "keygen" /\ Runs(o)' =>
                  process'[o].at \in {"generate", "failed"} /\ command'[o].at = "keyring"
  <2>1. CASE o = p BY <1>5, <2>1
  <2>2. CASE o # p
    <3>1. (Midway(o)' <=> Midway(o)) /\ (Runs(o)' <=> Runs(o)) BY <1>1, <2>2
    <3>2. process'[o] = process[o] /\ command'[o] = command[o] BY <2>2
    <3>3. QED BY <1>2, <1>5, <3>1, <3>2 DEF Published
  <2>3. QED BY <2>1, <2>2
<1>6. QED BY <1>3, <1>4, <1>5 DEF Published

LEMMA KeyringFailedKeeps ==
  ASSUME CommandInv, NEW p \in Process, KeyringFailed(p) PROVE CommandInv'
<1>1. PICK at \in {"exit1", "exit2"} : Then(p, at) BY DEF KeyringFailed
<1>2. /\ command' \in [Process -> [kind : Kind, at : Stage]]
      /\ \A o \in Process : o # p => command'[o] = command[o]
      /\ command'[p] = [kind |-> command[p].kind, at |-> at]
  BY <1>1, ThenMoves DEF CommandInv, Stage
<1>3. /\ command[p].at = "keyring" /\ process[p].at = "failed" /\ Runs(p)
      /\ UNCHANGED <<vars, jwks, registered, settled>>
  BY DEF KeyringFailed, Is, Runs, Over
<1>4. Doing(p)' BY <1>2, <1>3 DEF CommandInv, Doing, At, Step, vars
<1>5. Accepted' BY <1>2, <1>3, AcceptedStays DEF CommandInv, At
<1>6. Published'
  BY <1>2, <1>3, PublishedStays DEF CommandInv, Midway, Renamed, Runs, Over, vars
<1>7. QED BY <1>2, <1>3, <1>4, <1>5, <1>6, QuietStepKeeps DEF CommandInv, CommandTypes

LEMMA KeyringDoneKeeps ==
  ASSUME CommandInv, NEW p \in Process, KeyringDone(p) PROVE CommandInv'
<1>1. PICK at \in {"exit0", "challenge", "publish"} :
        /\ Then(p, at)
        /\ at = "exit0" => command[p].kind = "agent"
        /\ at = "challenge" => command[p].kind = "register"
        /\ at = "publish" => command[p].kind \in Writer
        /\ command[p].kind = "rotate" => process[p].op = "rotate" /\ at = "publish"
  BY DEF KeyringDone, CommandInv, CommandTypes, Kind, Writer
<1>2. /\ command' \in [Process -> [kind : Kind, at : Stage]]
      /\ \A o \in Process : o # p => command'[o] = command[o]
      /\ command'[p] = [kind |-> command[p].kind, at |-> at]
  BY <1>1, ThenMoves DEF CommandInv, Stage
<1>3. /\ command[p].at = "keyring" /\ process[p].at = "ready" /\ Runs(p)
      /\ UNCHANGED <<vars, jwks, registered, settled>>
  BY DEF KeyringDone, Is, Runs, Over
<1>4. Doing(p)' BY <1>1, <1>2, <1>3 DEF CommandInv, Doing, At, Step, vars
<1>5. Accepted' BY <1>1, <1>2, <1>3, AcceptedStays DEF CommandInv, At
<1>6. command[p].kind = "keygen" => settled = None
  BY <1>3 DEF CommandInv, Published
<1>7. Published'
  BY <1>1, <1>2, <1>3, <1>6, PublishedStays DEF CommandInv, Midway, Runs, Over, vars
<1>8. QED BY <1>2, <1>3, <1>4, <1>5, <1>7, QuietStepKeeps DEF CommandInv, CommandTypes

(* A command that writes the JWKS, and the others.                         *)
LEMMA WriterOf ==
  ASSUME CommandInv, NEW p \in Process, command[p].at \in {"publish", "open"}
  PROVE  /\ command[p].kind \in Writer /\ process[p].at = "ready" /\ Runs(p)
         /\ command[p].kind = "keygen" => settled = None
         /\ command[p].kind = "rotate" => Midway(p)
         /\ \A o \in Process : o # p => ~(command[o].kind \in Writer /\ Runs(o)) /\ ~Midway(o)
BY DEF CommandInv, Doing, Alone, Published, Midway, Runs, Over, Writer

LEMMA OpenJwksKeeps ==
  ASSUME CommandInv, NEW p \in Process, OpenJwks(p) PROVE CommandInv'
<1>1. /\ command' \in [Process -> [kind : Kind, at : Stage]]
      /\ \A o \in Process : o # p => command'[o] = command[o]
      /\ command'[p] = [kind |-> command[p].kind, at |-> "open"]
  BY ThenMoves DEF CommandInv, OpenJwks, Stage
<1>2. /\ command[p].at = "publish" /\ jwks' = NoJwks
      /\ UNCHANGED <<vars, registered, settled>>
  BY DEF OpenJwks
<1>3. /\ command[p].kind \in Writer /\ process[p].at = "ready" /\ Runs(p)
      /\ command[p].kind = "keygen" => settled = None
      /\ command[p].kind = "rotate" => Midway(p)
      /\ \A o \in Process : o # p => ~(command[o].kind \in Writer /\ Runs(o)) /\ ~Midway(o)
  BY <1>2, WriterOf
<1>4. Doing(p)' BY <1>1, <1>2, <1>3 DEF CommandInv, Doing, At, Step, vars
<1>5. Accepted' BY <1>1, <1>2, AcceptedStays DEF CommandInv, At
<1>6. Served' = {} BY <1>2 DEF Served, NoJwks
<1>7. Published'
  <2>1. Midway(p)' <=> Midway(p) BY <1>1, <1>2, <1>3 DEF Midway, Runs, Over, vars
  <2>2. \A o \in Process : o # p => ~Midway(o)' /\ ~(command[o].kind = "keygen" /\ Runs(o))'
    BY <1>1, <1>2, <1>3 DEF Midway, Runs, Writer, vars
  <2>3. QED BY <1>1, <1>2, <1>3, <1>6, <2>1, <2>2 DEF Published, Writer, vars
<1>8. jwks' \subseteq File BY <1>2 DEF NoJwks, File
<1>9. QED BY <1>1, <1>2, <1>3, <1>4, <1>5, <1>7, <1>8, QuietStepKeeps DEF CommandInv, CommandTypes

LEMMA WriteJwksKeeps ==
  ASSUME CommandInv, NEW p \in Process, WriteJwks(p) PROVE CommandInv'
<1>1. /\ command' \in [Process -> [kind : Kind, at : Stage]]
      /\ \A o \in Process : o # p => command'[o] = command[o]
      /\ command'[p] = [kind |-> command[p].kind, at |-> "exit0"]
  BY ThenMoves DEF CommandInv, WriteJwks, Stage
<1>2. /\ command[p].at = "open" /\ jwks' = export_jwks(p) /\ settled' = command[p].kind
      /\ UNCHANGED <<vars, registered>>
  BY DEF WriteJwks
<1>3. /\ command[p].kind \in Writer /\ process[p].at = "ready" /\ Runs(p)
      /\ \A o \in Process : o # p => ~(command[o].kind \in Writer /\ Runs(o)) /\ ~Midway(o)
  BY <1>2, WriterOf
<1>4. Doing(p)' BY <1>1, <1>2, <1>3 DEF CommandInv, Doing, At, Step, vars
<1>5. Accepted' BY <1>1, <1>2, <1>3, AcceptedStays DEF CommandInv, At, Writer
<1>6. /\ process[p].active \in written /\ process[p].retiring \in written \cup {None}
      /\ None \notin written
  BY <1>3, NoneAssumption DEF CommandInv, Held, Holding, Inv, Types
<1>7. /\ dir["active"] = process[p].active
      /\ command[p].kind = "rotate" => dir["retiring"] = process[p].retiring
  BY <1>2, <1>3 DEF CommandInv, Doing, Sees, Writer
<1>8. Served' = {process[p].active, process[p].retiring} \ {None}
  BY <1>2 DEF Served, NoJwks, export_jwks
<1>9. Published'
  <2>1. \A o \in Process : ~Midway(o)' /\ ~(command[o].kind = "keygen" /\ Runs(o))'
    BY <1>1, <1>2, <1>3 DEF Midway, Runs, Over, Writer, vars
  <2>2. QED BY <1>2, <1>6, <1>7, <1>8, <2>1 DEF Published, vars
<1>10. jwks' \subseteq File
  BY <1>2, <1>6 DEF export_jwks, CommandInv, Inv, Types, File
<1>11. QED
  BY <1>1, <1>2, <1>3, <1>4, <1>5, <1>9, <1>10, QuietStepKeeps DEF CommandInv, CommandTypes


LEMMA JwksFailsKeeps ==
  ASSUME CommandInv, NEW p \in Process, JwksFails(p) PROVE CommandInv'
<1>1. /\ command' \in [Process -> [kind : Kind, at : Stage]]
      /\ \A o \in Process : o # p => command'[o] = command[o]
      /\ command'[p] = [kind |-> command[p].kind, at |-> "killed"]
  BY ThenMoves DEF CommandInv, JwksFails, Stage
<1>2. /\ command[p].at \in {"publish", "open"} /\ settled' = None /\ Runs(p)
      /\ UNCHANGED <<vars, jwks, registered>>
  BY DEF JwksFails, Runs, Over
<1>3. Doing(p)' BY <1>1, <1>2 DEF CommandInv, Doing, At, Step, vars
<1>4. Accepted' BY <1>1, <1>2, AcceptedStays DEF CommandInv, At
<1>5. Published' BY <1>2 DEF CommandInv, Published, Served, vars
<1>6. QED BY <1>1, <1>2, <1>3, <1>4, <1>5, QuietStepKeeps DEF CommandInv, CommandTypes

(* A call of register.                                                     *)
LEMMA CallKeeps ==
  ASSUME CommandInv, NEW p \in Process, Challenge(p) \/ Submit(p) \/ CallFails(p)
  PROVE  CommandInv'
<1>1. /\ command[p].kind = "register" /\ process[p].at = "ready" /\ Runs(p)
      /\ UNCHANGED <<vars, jwks, settled>>
  BY DEF CommandInv, Doing, Runs, Over, Challenge, Submit, CallFails
<1>2. PICK at \in {"submit", "exit0", "exit1"} :
        /\ Then(p, at)
        /\ \/ UNCHANGED registered /\ at # "exit0"
           \/ registered' = registered \cup {process[p].active}
  BY DEF Challenge, Submit, CallFails
<1>3. /\ command' \in [Process -> [kind : Kind, at : Stage]]
      /\ \A o \in Process : o # p => command'[o] = command[o]
      /\ command'[p] = [kind |-> command[p].kind, at |-> at]
  BY <1>2, ThenMoves DEF CommandInv, Stage
<1>4. Doing(p)' BY <1>1, <1>3 DEF CommandInv, Doing, At, Step, vars
<1>5. process[p].active \in written /\ written \subseteq Key
  BY <1>1 DEF CommandInv, Held, Holding, Inv, Types
<1>6. last = None => process[p].active = dir["active"]
  BY <1>1 DEF CommandInv, Inv, OneKey
<1>7. Accepted'
  <2>1. ASSUME NEW o \in Process, At(o, "register", "exit0")'
        PROVE  process[o].active \in registered'
    <3>1. CASE o = p BY <1>2, <1>3, <2>1, <3>1 DEF At
    <3>2. CASE o # p
      <4>1. At(o, "register", "exit0") BY <1>3, <2>1, <3>2 DEF At
      <4>2. QED BY <1>2, <4>1 DEF CommandInv, Accepted
    <3>3. QED BY <3>1, <3>2
  <2>2. last = None => registered' \subseteq {dir["active"]} \cap written
    BY <1>2, <1>5, <1>6 DEF CommandInv, Accepted
  <2>3. QED BY <1>1, <2>1, <2>2 DEF Accepted, vars
<1>8. Published'
  BY <1>1, <1>3, PublishedStays DEF CommandInv, Midway
<1>9. registered' \subseteq Key BY <1>2, <1>5 DEF CommandInv, CommandTypes
<1>10. QED BY <1>1, <1>3, <1>4, <1>7, <1>8, <1>9, QuietStepKeeps DEF CommandInv, CommandTypes

LEMMA CommandCrashKeeps ==
  ASSUME CommandInv, NEW p \in Process, CommandCrash(p) PROVE CommandInv'
<1>1. /\ command' \in [Process -> [kind : Kind, at : Stage]]
      /\ \A o \in Process : o # p => command'[o] = command[o]
      /\ command'[p] = [kind |-> command[p].kind, at |-> "killed"]
  BY ThenMoves DEF CommandInv, CommandCrash, Stage
<1>2. /\ Runs(p) /\ UNCHANGED <<jwks, registered>>
      /\ command[p].kind \in Writer => settled' = None
      /\ command[p].kind \notin Writer => settled' = settled
  BY DEF CommandCrash
<1>3. /\ UNCHANGED <<dir, written, last>>
      /\ \A o \in Process : o # p => process'[o] = process[o]
      /\ process'[p].op = process[p].op /\ process'[p].active = process[p].active
      /\ process'[p].retiring = process[p].retiring
      /\ \/ process'[p].at = process[p].at /\ process[p].at \notin Step
         \/ process'[p].at = "crashed"
  <2>1. CASE Crash(p)
    BY <2>1, GoMoves DEF CommandInv, Inv, Crash, Moved, Rest
  <2>2. CASE UNCHANGED vars /\ process[p].at \notin Step BY <2>2 DEF vars
  <2>3. QED BY <2>1, <2>2 DEF CommandCrash
<1>4. Inv'
  <2>1. [Next]_vars BY DEF CommandCrash, Next
  <2>2. QED BY <2>1, InvNext DEF CommandInv
<1>5. CommandTypes' BY <1>1, <1>2, <1>3 DEF CommandInv, CommandTypes
<1>6. Alone' BY <1>1 DEF CommandInv, Alone, Runs, Over
<1>7. ASSUME NEW o \in Process PROVE Doing(o)'
  <2>1. CASE o # p BY <1>1, <1>3, <2>1 DEF CommandInv, Doing, At
  <2>2. CASE o = p BY <1>1, <1>3, <2>2 DEF CommandInv, Doing, At, Generating, Step, Rest
  <2>3. QED BY <2>1, <2>2
<1>8. ASSUME NEW o \in Process PROVE Held(process[o])'
  BY <1>3 DEF CommandInv, Held, Holding
<1>9. ASSUME NEW o \in Process PROVE Sees(o)'
  BY <1>1, <1>3 DEF CommandInv, Sees, Runs, Over
<1>10. Accepted' BY <1>1, <1>2, <1>3 DEF CommandInv, Accepted, At
<1>11. Published'
  <2>1. CASE command[p].kind \in Writer
    BY <1>2, <1>3, <2>1 DEF CommandInv, Published, Served
  <2>2. CASE command[p].kind \notin Writer
    <3>1. ~Midway(p) /\ ~Midway(p)' BY <1>1, <2>2 DEF Midway, Writer
    <3>2. QED BY <1>1, <1>2, <1>3, <2>2, <3>1, PublishedBeside DEF CommandInv, Writer
  <2>3. QED BY <2>1, <2>2
<1>12. QED
  BY <1>4, <1>5, <1>6, <1>7, <1>8, <1>9, <1>10, <1>11 DEF CommandInv

(* A command starts.                                                       *)
LEMMA RunKeeps ==
  ASSUME CommandInv, Inv', NEW p \in Process, NEW kind \in Kind, Run(p, kind),
         kind \in Writer => ~Writing,
         UNCHANGED <<dir, written, last>>,
         \A o \in Process : o # p => process'[o] = process[o],
         process'[p].op \in {"load", "open", "generate"},
         process'[p].at \in {"generate", "read", "failed"},
         process'[p].retiring = process[p].retiring,
         kind = "keygen" => process'[p].op = "generate" /\ process'[p].at = "generate",
         kind = "rotate" => process'[p].op = "load"
  PROVE  CommandInv'
<1>1. /\ command' \in [Process -> [kind : Kind, at : Stage]]
      /\ \A o \in Process : o # p => command'[o] = command[o]
      /\ command'[p] = [kind |-> kind, at |-> "keyring"]
      /\ command[p].at = "none"
      /\ UNCHANGED <<jwks, registered, settled>>
  BY DEF Run, CommandInv, CommandTypes, Stage
<1>2. CommandTypes' BY <1>1 DEF CommandInv, CommandTypes
<1>3. Alone' BY <1>1 DEF CommandInv, Alone, Writing, Runs
<1>4. ASSUME NEW o \in Process PROVE Doing(o)'
  <2>1. CASE o # p BY <1>1, <2>1 DEF CommandInv, Doing, At
  <2>2. CASE o = p BY <1>1, <2>2 DEF Doing, At, Generating
  <2>3. QED BY <2>1, <2>2
<1>5. ASSUME NEW o \in Process PROVE Held(process[o])'
  BY DEF CommandInv, Held, Holding
<1>6. ASSUME NEW o \in Process PROVE Sees(o)'
  BY <1>1 DEF CommandInv, Sees, Runs
<1>7. Accepted' BY <1>1 DEF CommandInv, Accepted, At
<1>8. Published'
  <2>1. ~Midway(p) /\ ~Midway(p)' BY <1>1 DEF Midway, Runs, Over
  <2>2. QED BY <1>1, <2>1, PublishedBeside DEF CommandInv
<1>9. QED BY <1>2, <1>3, <1>4, <1>5, <1>6, <1>7, <1>8 DEF CommandInv

LEMMA StartsKeep ==
  ASSUME CommandInv, NEW p \in Process,
         Agent(p) \/ Keygen(p) \/ RotateCommand(p) \/ Register(p)
  PROVE  CommandInv'
<1>1. Inv'
  <2>1. Next BY DEF Next, Agent, Keygen, RotateCommand, Register
  <2>2. QED BY <2>1, InvNext DEF CommandInv
<1>2. command[p].at = "none" => process[p].op = "load"
  BY DEF CommandInv, Doing
<1>3. ASSUME Look(p), process[p].op = "load"
      PROVE  /\ UNCHANGED <<dir, written, last>>
             /\ \A o \in Process : o # p => process'[o] = process[o]
             /\ process'[p].op = "load" /\ process'[p].at \in {"generate", "read"}
             /\ process'[p].retiring = process[p].retiring
  BY <1>3, GoMoves DEF CommandInv, Inv, Look, Moved, Step
<1>4. ASSUME New(p)
      PROVE  /\ UNCHANGED <<dir, written, last>>
             /\ \A o \in Process : o # p => process'[o] = process[o]
             /\ process'[p].op = "generate" /\ process'[p].at = "generate"
             /\ process'[p].retiring = process[p].retiring
  BY <1>4, StartMoves DEF CommandInv, Inv, New, Step, Operation
<1>5. ASSUME Open(p)
      PROVE  /\ UNCHANGED <<dir, written, last>>
             /\ \A o \in Process : o # p => process'[o] = process[o]
             /\ process'[p].op = "open" /\ process'[p].at \in {"read", "failed"}
             /\ process'[p].retiring = process[p].retiring
  BY <1>5, StartMoves DEF CommandInv, Inv, Open, Step, Rest, Operation
<1>6. CASE Agent(p)
  BY <1>1, <1>2, <1>3, <1>6, RunKeeps DEF Agent, Run, Kind, Writer
<1>7. CASE Keygen(p)
  BY <1>1, <1>4, <1>7, RunKeeps DEF Keygen, Kind
<1>8. CASE RotateCommand(p)
  BY <1>1, <1>2, <1>3, <1>8, RunKeeps DEF RotateCommand, Run, Kind
<1>9. CASE Register(p)
  BY <1>1, <1>5, <1>9, RunKeeps DEF Register, Kind, Writer
<1>10. QED BY <1>6, <1>7, <1>8, <1>9

LEMMA RotateLoadedKeeps ==
  ASSUME CommandInv, NEW p \in Process, RotateLoaded(p) PROVE CommandInv'
<1>1. PICK at \in {"rename", "failed"} : Start(p, "rotate", at)
  BY DEF RotateLoaded, Rotate
<1>2. /\ \A q \in Process : q # p => process'[q] = process[q]
      /\ process'[p].op = "rotate" /\ process'[p].at = at
      /\ process'[p].retiring = process[p].retiring
  BY <1>1, StartMoves DEF CommandInv, Inv, Operation, Step, Rest
<1>3. /\ At(p, "rotate", "keyring") /\ process[p].op = "load" /\ process[p].at = "ready"
      /\ UNCHANGED <<dir, written, last, commandVars>>
  BY DEF RotateLoaded, Rotate, Is
<1>4. Inv'
  <2>1. Next BY DEF Next, RotateLoaded
  <2>2. QED BY <2>1, InvNext DEF CommandInv
<1>5. CommandTypes' /\ Alone'
  BY <1>3 DEF CommandInv, CommandTypes, Alone, Runs, commandVars
<1>6. ASSUME NEW o \in Process PROVE Doing(o)'
  BY <1>2, <1>3 DEF CommandInv, Doing, At, commandVars
<1>7. ASSUME NEW o \in Process PROVE Held(process[o])' /\ Sees(o)'
  BY <1>2, <1>3 DEF CommandInv, Held, Holding, Sees, Runs, commandVars
<1>8. Accepted' BY <1>2, <1>3 DEF CommandInv, Accepted, At, commandVars
<1>9. Published'
  <2>1. ~Midway(p) /\ ~Midway(p)'
    BY <1>2, <1>3 DEF Midway, Renamed
  <2>2. command'[p].kind = "rotate" BY <1>3 DEF At, commandVars
  <2>3. QED BY <1>2, <1>3, <2>1, <2>2, PublishedBeside DEF CommandInv, commandVars
<1>10. QED BY <1>4, <1>5, <1>6, <1>7, <1>8, <1>9 DEF CommandInv


LEMMA CommandInvInit == ASSUME CommandInit PROVE CommandInv
<1>1. Inv BY InvInit DEF CommandInit
<1>2. QED
  BY <1>1, NoneAssumption
     DEF CommandInit, Init, CommandInv, CommandTypes, Alone, Doing, Held, Holding, Sees, Accepted,
         Published, Midway, Served, NoJwks, At, Runs, Over, Kind, Stage, Writer, Step, File

LEMMA CommandInvNext == ASSUME CommandInv, [CommandNext]_allVars PROVE CommandInv'
<1>1. CASE UNCHANGED allVars
  <2>1. Inv' BY <1>1, InvNext DEF CommandInv, allVars
  <2>2. QED
    BY <1>1, <2>1
       DEF allVars, vars, commandVars, CommandInv, CommandTypes, Alone, Doing, Held, Sees,
           Accepted, Published, Midway, Served, At, Runs
<1>2. ASSUME NEW p \in Process, Agent(p) \/ Keygen(p) \/ RotateCommand(p) \/ Register(p)
      PROVE  CommandInv'
  BY <1>2, StartsKeep
<1>3. ASSUME NEW p \in Process, KeyringStep(p) PROVE CommandInv' BY <1>3, KeyringStepKeeps
<1>4. ASSUME NEW p \in Process, RotateLoaded(p) PROVE CommandInv' BY <1>4, RotateLoadedKeeps
<1>5. ASSUME NEW p \in Process, KeyringFailed(p) PROVE CommandInv' BY <1>5, KeyringFailedKeeps
<1>6. ASSUME NEW p \in Process, KeyringDone(p) PROVE CommandInv' BY <1>6, KeyringDoneKeeps
<1>7. ASSUME NEW p \in Process, OpenJwks(p) PROVE CommandInv' BY <1>7, OpenJwksKeeps
<1>8. ASSUME NEW p \in Process, WriteJwks(p) PROVE CommandInv' BY <1>8, WriteJwksKeeps
<1>9. ASSUME NEW p \in Process, JwksFails(p) PROVE CommandInv' BY <1>9, JwksFailsKeeps
<1>10. ASSUME NEW p \in Process, CommandCrash(p) PROVE CommandInv' BY <1>10, CommandCrashKeeps
<1>11. ASSUME NEW p \in Process, Challenge(p) \/ Submit(p) \/ CallFails(p) PROVE CommandInv'
  BY <1>11, CallKeeps
<1>12. QED
  BY <1>1, <1>2, <1>3, <1>4, <1>5, <1>6, <1>7, <1>8, <1>9, <1>10, <1>11 DEF CommandNext

(* The inductive invariant holds of every behaviour of the commands.       *)
THEOREM CommandInvariant == CommandSpec => []CommandInv
<1>1. CommandInit => CommandInv BY CommandInvInit
<1>2. CommandInv /\ [CommandNext]_allVars => CommandInv' BY CommandInvNext
<1>3. QED BY <1>1, <1>2, PTL DEF CommandSpec

(* Every variable keeps its type (cli.py:478-743).                         *)
THEOREM CommandTypesHold == CommandSpec => []CommandTypeOK
<1>1. CommandInv => CommandTypeOK
  BY InvImplies DEF CommandInv, CommandTypes, CommandTypeOK
<1>2. QED BY <1>1, CommandInvariant, PTL

(* Unless keygen or rotate is running or has stopped halfway, the JWKS     *)
(* lists the active key and, after a rotation, the retiring one, complete  *)
(* (cli.py:554-570, identity.py:334-349).                                  *)
THEOREM KeysArePublished == CommandSpec => []KeysPublished
<1>1. ASSUME CommandInv PROVE KeysPublished
  <2>1. ~Writing => \A p \in Process : ~Midway(p) BY DEF Writing, Midway, Runs, Writer
  <2>2. QED BY <1>1, <2>1 DEF CommandInv, Published, KeysPublished
<1>2. QED BY <1>1, CommandInvariant, PTL

(* register exits with 0 only when its key is registered, and while nobody *)
(* rotates the registered key is the one agents sign with                  *)
(* (cli.py:613-690).                                                       *)
THEOREM RegisteredKeyIsActive == CommandSpec => []RegisterTells
<1>1. CommandInv => RegisterTells BY DEF CommandInv, Accepted, RegisterTells
<1>2. QED BY <1>1, CommandInvariant, PTL

=============================================================================
