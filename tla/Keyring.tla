------------------------------ MODULE Keyring -------------------------------
(***************************************************************************)
(* The keyring of an agent, a directory with an active.pem and, after a    *)
(* rotation, a retiring.pem (python/src/wbauth/identity.py l.232-349,      *)
(* 436-518; typescript/src/identity.ts does the same).  Processes that     *)
(* share it load it, generating the first key, open or generate its active *)
(* key alone, and rotate it; each step is one call of the file system.     *)
(*                                                                         *)
(* A file is named by the key it was created for: nothing else is ever     *)
(* written to it, whatever it is renamed to meanwhile.  One rotation runs  *)
(* at a time.  Modes, passwords and keys of another kind are left out.     *)
(***************************************************************************)
EXTENDS FiniteSets

CONSTANTS
  Process,
  Key,      (* the keys that can be generated, which bounds the runs       *)
  None      (* no file, no key                                             *)

ASSUME NoneAssumption == None \notin Key \cup Process

VARIABLES
  dir,      (* the file at each name, or None                              *)
  written,  (* the files that hold their key; the others are incomplete    *)
  used,     (* the keys generated so far                                   *)
  process,  (* per process: what it does, where it is, what it holds       *)
  last,     (* history: the process that rotated last, or None             *)
  old,      (* history: the key that was active then, None if incomplete   *)
  broken    (* history: a process has crashed, or a write failed           *)

vars == <<dir, written, used, process, last, old, broken>>

Name == {"active", "retiring"}
File == Key \cup {None}

(* The steps of an operation, and how a process can end up.                *)
Step == {"generate", "create", "write", "read", "lookRetiring", "readRetiring",
         "rename", "rollback"}
Rest == {"start", "ready", "failed", "crashed"}

(* load_keyring, load, generate and rotate_keyring.                        *)
Operation == {"load", "open", "generate", "rotate"}

State == [op : Operation, at : Step \cup Rest, key : File,
          active : File, retiring : File]

Init ==
  /\ dir = [n \in Name |-> None]
  /\ written = {}
  /\ used = {}
  /\ process = [p \in Process |->
       [op |-> "load", at |-> "start", key |-> None, active |-> None, retiring |-> None]]
  /\ last = None
  /\ old = None
  /\ broken = FALSE

Is(p, at) == process[p].at = at
Rotating(p) == process[p].op = "rotate" /\ process[p].at \in Step

(* The process p goes on: where, and with which keys.                      *)
Become(p, at, key, active, retiring) ==
  process' = [process EXCEPT ![p] =
    [op |-> process[p].op, at |-> at, key |-> key, active |-> active, retiring |-> retiring]]
Go(p, at) == Become(p, at, process[p].key, process[p].active, process[p].retiring)

(* An operation of p begins.                                               *)
Start(p, op, at) ==
  process' = [process EXCEPT ![p] =
    [op |-> op, at |-> at, key |-> None, active |-> process[p].active,
     retiring |-> process[p].retiring]]

Readable(n) == dir[n] \in written

-----------------------------------------------------------------------------

(* load_or_generate: is there an active key?                               *)
Look(p) ==
  /\ Is(p, "start")
  /\ Go(p, IF dir["active"] = None THEN "generate" ELSE "read")
  /\ UNCHANGED <<dir, written, used, last, old, broken>>

(* load: the active key alone, which has to be there.                      *)
Open(p) ==
  /\ Is(p, "start")
  /\ Start(p, "open", IF dir["active"] = None THEN "failed" ELSE "read")
  /\ UNCHANGED <<dir, written, used, last, old, broken>>

(* generate: an active key, which must not be there yet.                   *)
New(p) ==
  /\ Is(p, "start")
  /\ Start(p, "generate", "generate")
  /\ UNCHANGED <<dir, written, used, last, old, broken>>

(* An error: a rotation puts back what it renamed.                         *)
GiveUp(p) == Go(p, IF process[p].op = "rotate" THEN "rollback" ELSE "failed")

(* FileExistsError: load_keyring reads what is there.                      *)
FileExists(p) == IF process[p].op = "load" THEN Go(p, "read") ELSE GiveUp(p)

(* _generate_keypair_to: a last look, and a new key.                       *)
Generate(p) ==
  /\ Is(p, "generate")
  /\ IF dir["active"] # None THEN FileExists(p) /\ UNCHANGED used
     ELSE \E k \in Key \ used :
       /\ used' = used \cup {k}
       /\ Become(p, "create", k, process[p].active, process[p].retiring)
  /\ UNCHANGED <<dir, written, last, old, broken>>

(* Slip: no O_EXCL, and whoever comes later replaces the file.             *)
CreateShared(p) ==
  /\ Is(p, "create")
  /\ dir' = [dir EXCEPT !["active"] = process[p].key]
  /\ Go(p, "write")
  /\ UNCHANGED <<written, used, last, old, broken>>

(* os.open with O_CREAT | O_EXCL: an empty file.                           *)
Create(p) ==
  /\ Is(p, "create")
  /\ IF dir["active"] # None THEN FileExists(p) /\ UNCHANGED dir
     ELSE dir' = [dir EXCEPT !["active"] = process[p].key] /\ Go(p, "write")
  /\ UNCHANGED <<written, used, last, old, broken>>

(* os.write and os.fsync, to the file whatever its name.                   *)
Write(p) ==
  LET q == process[p] IN
  /\ Is(p, "write")
  /\ written' = written \cup {q.key}
  /\ Become(p, CASE q.op = "load" -> "lookRetiring"
                 [] q.op = "rotate" -> "readRetiring"
                 [] OTHER -> "ready",
            q.key, q.key, q.retiring)
  /\ UNCHANGED <<dir, used, last, old, broken>>

(* The file cannot be created or not be written: the error leaves what     *)
(* there is of it.                                                         *)
WriteFails(p) ==
  /\ process[p].at \in {"create", "write"}
  /\ GiveUp(p)
  /\ broken' = TRUE
  /\ UNCHANGED <<dir, written, used, last, old>>

(* _load_keypair of active.pem.                                            *)
ReadActive(p) ==
  /\ Is(p, "read")
  /\ IF Readable("active")
     THEN Become(p, IF process[p].op = "load" THEN "lookRetiring" ELSE "ready",
                 process[p].key, dir["active"], process[p].retiring)
     ELSE Go(p, "failed")
  /\ UNCHANGED <<dir, written, used, last, old, broken>>

LookRetiring(p) ==
  /\ Is(p, "lookRetiring")
  /\ Go(p, IF dir["retiring"] = None THEN "ready" ELSE "readRetiring")
  /\ UNCHANGED <<dir, written, used, last, old, broken>>

(* _load_keypair of retiring.pem, the last step of either operation.       *)
ReadRetiring(p) ==
  /\ Is(p, "readRetiring")
  /\ IF Readable("retiring")
     THEN Become(p, "ready", process[p].key, process[p].active, dir["retiring"])
     ELSE Go(p, "failed")
  /\ UNCHANGED <<dir, written, used, last, old, broken>>

(* rotate_keyring, of an identity that was loaded at some time.            *)
Rotate(p) ==
  /\ Is(p, "ready")
  /\ \A q \in Process : ~Rotating(q)
  /\ Start(p, "rotate", IF dir["active"] = None THEN "failed" ELSE "rename")
  /\ UNCHANGED <<dir, written, used, last, old, broken>>

(* Slip: the active key is linked to the other name, and stays.            *)
RenameLinks(p) ==
  /\ Is(p, "rename")
  /\ dir' = [n \in Name |-> dir["active"]]
  /\ last' = p
  /\ old' = IF Readable("active") THEN dir["active"] ELSE None
  /\ Go(p, "generate")
  /\ UNCHANGED <<written, used, broken>>

(* os.replace(active, retiring).                                           *)
Rename(p) ==
  /\ Is(p, "rename")
  /\ IF dir["active"] = None THEN Go(p, "failed") /\ UNCHANGED <<dir, last, old>>
     ELSE /\ dir' = [n \in Name |-> IF n = "retiring" THEN dir["active"] ELSE None]
          /\ last' = p
          /\ old' = IF Readable("active") THEN dir["active"] ELSE None
          /\ Go(p, "generate")
  /\ UNCHANGED <<written, used, broken>>

(* Slip: the new key failed, and nothing is put back.                      *)
RollbackNothing(p) ==
  /\ Is(p, "rollback")
  /\ Go(p, "failed")
  /\ UNCHANGED <<dir, written, used, last, old, broken>>

(* os.replace(retiring, active), over whatever is there by now.            *)
Rollback(p) ==
  /\ Is(p, "rollback")
  /\ IF dir["retiring"] = None THEN UNCHANGED dir
     ELSE dir' = [n \in Name |-> IF n = "active" THEN dir["retiring"] ELSE None]
  /\ Go(p, "failed")
  /\ UNCHANGED <<written, used, last, old, broken>>

Crash(p) ==
  /\ process[p].at \in Step
  /\ Go(p, "crashed")
  /\ broken' = TRUE
  /\ UNCHANGED <<dir, written, used, last, old>>

Next ==
  \E p \in Process :
    \/ Look(p) \/ Open(p) \/ New(p) \/ Generate(p) \/ Create(p) \/ Write(p) \/ WriteFails(p)
    \/ ReadActive(p) \/ LookRetiring(p) \/ ReadRetiring(p)
    \/ Rotate(p) \/ Rename(p) \/ Rollback(p) \/ Crash(p)

Spec == Init /\ [][Next]_vars

-----------------------------------------------------------------------------

TypeOK ==
  /\ dir \in [Name -> File]
  /\ dir["active"] = dir["retiring"] => dir["active"] = None
  /\ written \subseteq used /\ used \subseteq Key
  /\ process \in [Process -> State]
  /\ last \in Process \cup {None}
  /\ old \in File
  /\ broken \in BOOLEAN

(* As long as nobody rotates, the processes that got an identity, from     *)
(* concurrent first starts, crashed ones or full disks, sign with one key, *)
(* and it is the one they will find after a restart                        *)
(* (identity.py:253-261, 495-518).                                         *)
FirstStartsAgree ==
  last = None =>
    \A p \in Process : Is(p, "ready") =>
      process[p].active = dir["active"] /\ Readable("active")

(* The last rotation never loses the complete key it found, wherever it or *)
(* another process stopped: it is the retiring one when the rotation       *)
(* succeeds, beside the new one and in the identity, and the active one    *)
(* again when it fails (identity.py:334-349).                              *)
RotationKeepsTheKey ==
  old # None =>
    /\ old \in {dir["active"], dir["retiring"]}
    /\ Is(last, "ready") =>
         /\ dir["retiring"] = old /\ process[last].retiring = old
         /\ dir["active"] = process[last].active /\ Readable("active")
    /\ Is(last, "failed") => dir["active"] = old

(* What identity.py:246-247 says: "Concurrent first-start processes are    *)
(* safe: the loser of the O_EXCL race loads the winner's key."             *)
FirstStartsSucceed ==
  last = None /\ ~broken =>
    \A p \in Process : process[p].op = "load" => ~Is(p, "failed")

=============================================================================
