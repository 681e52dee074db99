----------------------------- MODULE KeyCommands -----------------------------
(***************************************************************************)
(* The commands around a keyring, python/src/wbauth/cli.py l.478-743, and  *)
(* the server of its JWKS, _http_server/jwks_server.py.  An agent loads    *)
(* the keyring and stays; `wbauth keygen` and `wbauth rotate` change it    *)
(* and write the JWKS file; `wbauth register` opens the active key and     *)
(* registers it with a directory, whose answers may be lost.               *)
(*                                                                         *)
(* A process is one command.  keygen and rotate, which both write the JWKS *)
(* file, are run one after the other; agents and register at any time.     *)
(* The directory takes one challenge per call and checks what Registration *)
(* says; a refusal stands for all its reasons.                             *)
(***************************************************************************)
EXTENDS Keyring

VARIABLES
  command,     (* per process: which it is, and how far                    *)
  jwks,        (* the JWKS file: the keys it lists, or NoJwks              *)
  registered,  (* the keys the directory has accepted                      *)
  settled      (* history: the command that wrote the JWKS last, or None   *)
               (* if there was none or one has stopped halfway since       *)

commandVars == <<command, jwks, registered, settled>>
allVars == <<vars, commandVars>>

Kind == {"agent", "keygen", "rotate", "register"}
Writer == {"keygen", "rotate"}

(* There is no JWKS file, or one that does not parse: no server starts.    *)
NoJwks == {None}

(* make_handler: the keys of a server that is started now.                 *)
Served == jwks \ NoJwks

(* none; busy with the keyring; the JWKS file to be opened, and open; the  *)
(* calls of register; and the exit codes, or no exit code.                 *)
Stage == {"none", "keyring", "publish", "open", "challenge", "submit",
          "exit0", "exit1", "exit2", "killed"}
Over == {"none", "exit0", "exit1", "exit2", "killed"}

CommandInit ==
  /\ Init
  /\ command = [p \in Process |-> [kind |-> "agent", at |-> "none"]]
  /\ jwks = NoJwks /\ registered = {}
  /\ settled = None

At(p, kind, at) == command[p] = [kind |-> kind, at |-> at]
Then(p, at) == command' = [command EXCEPT ![p].at = at]
Runs(p) == command[p].at \notin Over
Writing == \E p \in Process : command[p].kind \in Writer /\ Runs(p)

(* export_jwks: the active key, and the retiring one if there is one.      *)
export_jwks(p) == {process[p].active, process[p].retiring} \ {None}

-----------------------------------------------------------------------------

(* A command starts with its keyring operation.                            *)
Run(p, kind) ==
  /\ command[p].at = "none"
  /\ command' = [command EXCEPT ![p] = [kind |-> kind, at |-> "keyring"]]
  /\ UNCHANGED <<jwks, registered, settled>>

(* An agent: load_keyring.                                                 *)
Agent(p) == Run(p, "agent") /\ Look(p)

(* wbauth keygen --keyring: a first key, and none in place of another.     *)
Keygen(p) == ~Writing /\ Run(p, "keygen") /\ New(p)

(* wbauth rotate: it loads the keyring first, like an agent.               *)
RotateCommand(p) == ~Writing /\ Run(p, "rotate") /\ Look(p)

(* wbauth register: it never generates a key.                              *)
Register(p) == Run(p, "register") /\ Open(p)

(* A step of that operation.                                               *)
KeyringStep(p) ==
  /\ command[p].at = "keyring"
  /\ \/ Generate(p) \/ Create(p) \/ Write(p) \/ WriteFails(p) \/ ReadActive(p)
     \/ LookRetiring(p) \/ ReadRetiring(p) \/ Rename(p) \/ Rollback(p)
  /\ UNCHANGED commandVars

(* rotate has loaded the keyring, and rotates it.                          *)
RotateLoaded(p) ==
  /\ At(p, "rotate", "keyring") /\ process[p].op = "load"
  /\ Rotate(p)
  /\ UNCHANGED commandVars

(* The operation has failed: register exits with 1, the others with 2.     *)
KeyringFailed(p) ==
  /\ command[p].at = "keyring" /\ Is(p, "failed")
  /\ Then(p, IF command[p].kind = "register" THEN "exit1" ELSE "exit2")
  /\ UNCHANGED <<vars, jwks, registered, settled>>

(* It is done: an agent signs from now on, keygen and rotate go on to the  *)
(* JWKS file, register to the directory.                                   *)
KeyringDone(p) ==
  /\ command[p].at = "keyring" /\ Is(p, "ready")
  /\ CASE command[p].kind = "agent" -> Then(p, "exit0")
       [] command[p].kind = "register" -> Then(p, "challenge")
       [] command[p].kind = "keygen" -> Then(p, "publish")
       [] OTHER -> process[p].op = "rotate" /\ Then(p, "publish")
  /\ UNCHANGED <<vars, jwks, registered, settled>>

(* write_text: the file is truncated,                                      *)
OpenJwks(p) ==
  /\ command[p].at = "publish"
  /\ jwks' = NoJwks
  /\ Then(p, "open")
  /\ UNCHANGED <<vars, registered, settled>>

(* Slip: the identity from before the rotation is exported.                *)
WriteOldJwks(p) ==
  /\ command[p].at = "open"
  /\ jwks' = {process[p].retiring} \ {None}
  /\ settled' = command[p].kind
  /\ Then(p, "exit0")
  /\ UNCHANGED <<vars, registered>>

(* and written.                                                            *)
WriteJwks(p) ==
  /\ command[p].at = "open"
  /\ jwks' = export_jwks(p)
  /\ settled' = command[p].kind
  /\ Then(p, "exit0")
  /\ UNCHANGED <<vars, registered>>

(* Either may fail, with a traceback: the keyring is what it is by now.    *)
JwksFails(p) ==
  /\ command[p].at \in {"publish", "open"}
  /\ Then(p, "killed")
  /\ settled' = None
  /\ UNCHANGED <<vars, jwks, registered>>

(* A process crashes, in its keyring operation or after it.                *)
CommandCrash(p) ==
  /\ Runs(p)
  /\ IF process[p].at \in Step THEN Crash(p) ELSE UNCHANGED vars
  /\ Then(p, "killed")
  /\ settled' = IF command[p].kind \in Writer THEN None ELSE settled
  /\ UNCHANGED <<jwks, registered>>

(* register asks for a challenge for its key, and is given one.            *)
Challenge(p) ==
  /\ command[p].at = "challenge"
  /\ Then(p, "submit")
  /\ UNCHANGED <<vars, jwks, registered, settled>>

(* Slip: raise_for_status is forgotten.                                    *)
SubmitUnchecked(p) ==
  /\ command[p].at = "submit"
  /\ \E accepted \in BOOLEAN :
       registered' = IF accepted THEN registered \cup {process[p].active} ELSE registered
  /\ Then(p, "exit0")
  /\ UNCHANGED <<vars, jwks, settled>>

(* It submits: the directory accepts or refuses, and answers.              *)
Submit(p) ==
  /\ command[p].at = "submit"
  /\ \/ registered' = registered \cup {process[p].active} /\ Then(p, "exit0")
     \/ UNCHANGED registered /\ Then(p, "exit1")
  /\ UNCHANGED <<vars, jwks, settled>>

(* A call does not arrive, or its answer is lost, or takes over 10 s; a    *)
(* submit may have been accepted all the same.                             *)
CallFails(p) ==
  /\ command[p].at \in {"challenge", "submit"}
  /\ \/ UNCHANGED registered
     \/ command[p].at = "submit" /\ registered' = registered \cup {process[p].active}
  /\ Then(p, "exit1")
  /\ UNCHANGED <<vars, jwks, settled>>

CommandNext ==
  \/ \E p \in Process :
       \/ Agent(p) \/ Keygen(p) \/ RotateCommand(p) \/ Register(p)
       \/ KeyringStep(p) \/ RotateLoaded(p) \/ KeyringFailed(p) \/ KeyringDone(p)
       \/ OpenJwks(p) \/ WriteJwks(p) \/ JwksFails(p) \/ CommandCrash(p)
       \/ Challenge(p) \/ Submit(p) \/ CallFails(p)

CommandSpec == CommandInit /\ [][CommandNext]_allVars

-----------------------------------------------------------------------------

CommandTypeOK ==
  /\ TypeOK
  /\ command \in [Process -> [kind : Kind, at : Stage]]
  /\ jwks \subseteq File
  /\ registered \subseteq Key
  /\ settled \in Writer \cup {None}

(* Between the commands that write the JWKS, as long as none of them was   *)
(* stopped halfway, a server that starts publishes the active key and,     *)
(* after a rotation, the retiring one, and none that is not complete: also *)
(* when the last command gave up, beside agents that found no active key   *)
(* and generated one (cli.py:554-570, identity.py:334-349, README.md:189). *)
KeysPublished ==
  settled # None /\ ~Writing =>
    /\ dir["active"] \in Served /\ Served \subseteq written
    /\ settled = "rotate" => dir["retiring"] \in Served \cup {None}

(* register says that it is done only when the directory has the key it    *)
(* opened; and what any register got accepted, whether its answer arrived  *)
(* or not, is the key all agents sign with, as long as nobody rotates      *)
(* (cli.py:613-690, 733-743).                                              *)
RegisterTells ==
  /\ \A p \in Process : At(p, "register", "exit0") => process[p].active \in registered
  /\ last = None => registered \subseteq {dir["active"]} \cap written

=============================================================================
