---------------------------- MODULE PolicyCache -----------------------------
(***************************************************************************)
(* The policy files known of one origin, python/src/wbauth/policy/cache.py: *)
(* per endpoint what is fresh, and what can be revalidated once it is not. *)
(*                                                                         *)
(* A file is known by its version, which also stands for the ETag or the   *)
(* Last-Modified it is sent with, if any.  An origin has far fewer         *)
(* endpoints than either store has room for, so nothing gives way.         *)
(***************************************************************************)
EXTENDS Integers

CONSTANTS
  Endpoint,    (* robots.txt, ai.txt and the other policy files            *)
  FAILURE_TTL  (* how long a failure is remembered                         *)

ASSUME FailureAssumption == FAILURE_TTL \in Nat \ {0}

VARIABLES
  fresh,       (* PolicyCache._cache, per endpoint: {} or one entry         *)
  stale,       (* PolicyCache._stale, per endpoint: {} or one entry         *)
  saved        (* the file of save_cache(), per endpoint: {} or one item    *)

cacheVars == <<fresh, stale, saved>>

NoTag == 0

(* What an endpoint said: a version of its file and what that says, or a   *)
(* failure to get any.                                                     *)
Content == {"allows", "disallows", "restricts", "absent", "loops", "garbled", "odd"}
Value == [says : Content \cup {"failed"}, version : Nat]

(* Cache-Control: whether the value may be kept, and how long it is fresh; *)
(* no-store is [keep |-> FALSE, ttl |-> 0], no-cache [TRUE, 0].            *)
CacheControl == [keep : BOOLEAN, ttl : Nat]

(* What revalidation needs of a file: it, and the tag it was sent with.    *)
Known == [value : Value, tag : Nat \ {NoTag}]

(* An entry: a value, its tag if any, and until when it is fresh.  An item *)
(* of the file that is there to be revalidated only is fresh until 0.      *)
Entry == [value : Value, until : Nat, tag : Nat]

IsFile(v) == v.says \in {"allows", "disallows", "restricts"}
IsFailure(v) == v.says \in {"failed", "loops"}

-----------------------------------------------------------------------------

CacheInit ==
  /\ fresh = [ep \in Endpoint |-> {}]
  /\ stale = [ep \in Endpoint |-> {}]
  /\ saved = [ep \in Endpoint |-> {}]

(* Slip: what has once been fresh stays so until it is replaced.           *)
LiveForGood(ep, now) == fresh[ep]

(* get(ep): an entry whose time is not over.                               *)
Live(ep, now) == {e \in fresh[ep] : e.until > now}

(* Slip: a failure is kept as long as a robots.txt without Cache-Control.  *)
TimeToLiveDefault(v, cc) ==
  IF IsFailure(v) THEN 24 * 3600
  ELSE IF IsFile(v) \/ v.says = "absent" THEN cc.ttl
  ELSE 0

(* How long set() keeps a value fresh: a failure shortly, whatever the     *)
(* answer said; what could not be parsed or was refused, not at all.       *)
TimeToLive(v, cc) ==
  IF IsFailure(v) THEN FAILURE_TTL
  ELSE IF IsFile(v) \/ v.says = "absent" THEN cc.ttl
  ELSE 0

(* set(ep, v, cc, tag): what is fresh afterwards.  An entry that may not   *)
(* be kept, or not without revalidation, leaves the one before in place.   *)
FreshAfter(ep, v, cc, tag, now) ==
  IF TimeToLive(v, cc) > 0
    THEN {[value |-> v, until |-> now + TimeToLive(v, cc), tag |-> tag]}
    ELSE fresh[ep]

(* Slip: a file without a tag can be revalidated, too.                     *)
StaleAfterAny(ep, v, cc, tag) ==
  IF IsFile(v) /\ cc.keep THEN {[value |-> v, tag |-> tag]} ELSE stale[ep]

(* And what can be revalidated: files with a tag only.                     *)
StaleAfter(ep, v, cc, tag) ==
  IF IsFile(v) /\ cc.keep /\ tag # NoTag THEN {[value |-> v, tag |-> tag]} ELSE stale[ep]

(* What is no longer fresh is dropped, from the file as well: restore()    *)
(* would skip it.                                                          *)
Expire(now) ==
  /\ fresh' = [ep \in Endpoint |-> Live(ep, now)]
  /\ saved' = [ep \in Endpoint |-> {e \in saved[ep] : e.until = 0 \/ e.until > now}]

(* dump(): what is fresh, but no failure; of the other endpoints, what can *)
(* be revalidated.                                                         *)
Dump(now) ==
  [ep \in Endpoint |->
    LET live == {e \in Live(ep, now) : ~IsFailure(e.value)} IN
    IF live # {} THEN live
    ELSE {[value |-> e.value, until |-> 0, tag |-> e.tag] : e \in stale[ep]}]

(* restore(), in the next process: an item is fresh for as long as it was; *)
(* it can be revalidated if it has a tag.  One that is no longer fresh is  *)
(* skipped, unless it was saved for that.                                  *)
Restore(now) ==
  /\ fresh' = [ep \in Endpoint |-> {e \in saved[ep] : e.until > now}]
  /\ stale' = [ep \in Endpoint |->
       {[value |-> e.value, tag |-> e.tag] :
          e \in {e \in saved[ep] : /\ e.until = 0 \/ e.until > now
                                   /\ IsFile(e.value) /\ e.tag # NoTag}}]

CacheTypeOK ==
  /\ fresh \in [Endpoint -> SUBSET Entry]
  /\ stale \in [Endpoint -> SUBSET Known]
  /\ saved \in [Endpoint -> SUBSET Entry]

=============================================================================
