---------------------------- MODULE MemoryCache -----------------------------
(***************************************************************************)
(* The cache in the memory of each isolate of the directory worker         *)
(* (directory/src/cache.ts, l.25-69): least recently used entries give way *)
(* when there are too many, or too many bytes in them.  A Map iterates in  *)
(* the order its keys were set, which `order` is.                          *)
(***************************************************************************)
EXTENDS Integers, FiniteSets, SequencesExt

CONSTANTS
  Isolate,     (* instances of the worker                                  *)
  Key,         (* the URLs a purge clears from memory, any query included  *)
  MAX_ENTRIES, (* MEMORY_MAX_ENTRIES                                       *)
  MAX_BYTES,   (* MEMORY_MAX_BYTES                                         *)
  MAX_BODY     (* MEMORY_MAX_BYTES / 4                                     *)

ASSUME LimitAssumption ==
  MAX_ENTRIES \in Nat \ {0} /\ MAX_BYTES \in Nat /\ MAX_BODY \in 0 .. MAX_BYTES

VARIABLES
  memory,      (* per isolate and key: what is cached, {} or one entry      *)
  order,       (* per isolate: the keys cached, least recently used first  *)
  memoryBytes  (* per isolate: the bytes counted                           *)

memoryVars == <<memory, order, memoryBytes>>

(* An entry: a response, the bytes of its body, when it expires.           *)
Entry(Copy) == [copy : Copy, size : Nat, until : Nat]

Live(es, now) == {e \in es : e.until > now}

(* The bytes of what is cached, numbered, and how many they are.           *)
Numbers(es) == UNION {1 .. e.size : e \in es}
Content(f, ks) == UNION {{k} \X Numbers(f[k]) : k \in ks}
Bytes(es) == Cardinality(Numbers(es))
BytesAt(f, ks) == Cardinality(Content(f, ks))

Cached(i) == {k \in Key : memory[i][k] # {}}

-----------------------------------------------------------------------------

MemoryInit ==
  /\ memory = [i \in Isolate |-> [k \in Key |-> {}]]
  /\ order = [i \in Isolate |-> <<>>]
  /\ memoryBytes = [i \in Isolate |-> 0]

(* The order without the key k, and with k as the most recently used.      *)
Without(seq, k) ==
  IF k \in ToSet(seq) THEN RemoveAt(seq, CHOOSE j \in DOMAIN seq : seq[j] = k) ELSE seq
Touched(seq, k) == Append(Without(seq, k), k)

(* The cache of i becomes f, in the order seq, counted as n bytes.         *)
Become(i, f, seq, n) ==
  /\ memory' = [memory EXCEPT ![i] = f]
  /\ order' = [order EXCEPT ![i] = seq]
  /\ memoryBytes' = [memoryBytes EXCEPT ![i] = n]

(* Slip: what is expired is discounted, and left in the map.               *)
memGetKeeps(i, k, now) ==
  IF Live(memory[i][k], now) # {}
    THEN Become(i, memory[i], Touched(order[i], k), memoryBytes[i])
    ELSE Become(i, memory[i], order[i], memoryBytes[i] - Bytes(memory[i][k]))

(* Looking k up makes it the most recently used, or drops it as expired.   *)
memGet(i, k, now) ==
  IF Live(memory[i][k], now) # {}
    THEN Become(i, memory[i], Touched(order[i], k), memoryBytes[i])
    ELSE Become(i, [memory[i] EXCEPT ![k] = {}], Without(order[i], k),
                memoryBytes[i] - Bytes(memory[i][k]))

(* Slip: what the entry replaces stays counted.                            *)
CountedTwice(i, k, e) == memoryBytes[i] + e.size

(* The count once e has taken the place of what was cached for k.          *)
CountedWith(i, k, e) ==
  memoryBytes[i] - Bytes(memory[i][k]) + e.size

(* Are entries and bytes few enough without the first m keys?              *)
Oldest(seq, m) == ToSet(SubSeq(seq, 1, m))
Fits(f, seq, n, m) ==
  \/ m = Len(seq)
  \/ /\ Len(seq) - m <= MAX_ENTRIES
     /\ n - BytesAt(f, Oldest(seq, m)) <= MAX_BYTES

(* How many keys give way when f, in the order seq, counts n bytes: no     *)
(* more than have to.                                                      *)
GiveWay(f, seq, n) ==
  CHOOSE m \in 0 .. Len(seq) :
    Fits(f, seq, n, m) /\ \A l \in 0 .. Len(seq) : Fits(f, seq, n, l) => m <= l

(* A body that is too big is not kept, and what was cached then stays.     *)
memPut(i, k, e) ==
  LET f == [memory[i] EXCEPT ![k] = {e}]
      seq == Touched(order[i], k)
      n == CountedWith(i, k, e)
      m == GiveWay(f, seq, n)
      gone == Oldest(seq, m)
  IN IF e.size > MAX_BODY
       THEN UNCHANGED memoryVars
       ELSE Become(i, [j \in Key |-> IF j \in gone THEN {} ELSE f[j]],
                   SubSeq(seq, m + 1, Len(seq)),
                   n - BytesAt(f, gone))

(* Clearing the keys, entry by entry.                                      *)
clearMemoryCache(i) ==
  Become(i, [k \in Key |-> {}], <<>>, memoryBytes[i] - BytesAt(memory[i], Key))

-----------------------------------------------------------------------------

(* However concurrent requests put, replace and look up entries, the bytes *)
(* counted are those of the entries, and neither they nor the number of    *)
(* entries exceeds its limit (cache.ts:45-59).                             *)
MemoryBounded ==
  \A i \in Isolate :
    /\ ToSet(order[i]) = Cached(i) /\ IsInjective(order[i])
    /\ memoryBytes[i] = BytesAt(memory[i], Key)
    /\ memoryBytes[i] <= MAX_BYTES
    /\ Len(order[i]) <= MAX_ENTRIES

=============================================================================
