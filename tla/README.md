# wbauth: specifications and proofs

TLA+ specifications of wbauth, the Web Bot Auth toolkit: a Cloudflare Worker
that publishes the keys of bots (`directory/`), an SDK and command line in
Python (`python/`) and an SDK in TypeScript (`typescript/`). A bot keeps an
Ed25519 key, registers it with the directory, signs its HTTP requests with it,
and asks a site's policy files whether it is welcome; an origin fetches the
key from the directory and verifies the signature.

Paths and line numbers in the modules are those of the repository, with
`directory/src/`, `directory/src/routes/` and `python/src/wbauth/` left out
where the file name says enough. `PROJECT.json` says for every definition which
lines it models, for every hazard which property covers it, and for every
property which slip of the code (the definitions marked *Slip*) breaks it.

Contents: [inventory](#1-the-system) · [modules](#2-the-modules) ·
[runs](#3-what-is-model-checked) · [disagreements](#4-where-the-code-and-its-documents-disagree) ·
[proofs](#5-what-is-proved) · [limits](#6-what-is-not-modelled) · [plan](#7-plan)

## 1. The system

| Component | State | Operations | Talks to |
|---|---|---|---|
| Registration, `routes/register.ts` | D1 tables `registration_challenges`, `agents` | `POST /register/challenge`, `POST /register/submit` | rate limiter, domain check, edge cache purge |
| Rate limiter, `ratelimit.ts` | D1 table `ratelimit`, per client bucket and day | `checkAndIncrementRateLimit` | called by both handlers |
| Domain check, `domain.ts` | none | `verifyDomainOwnership` | fetches the claimed URL |
| Edge cache, `cache.ts`, `routes/read.ts` | a memory map per isolate, the Cache API | `edgeCached`, `purgeAgentCache` | D1, signing key, registration |
| Listings, `routes/read.ts`, `scripts/snapshot.sh` | `agents` in keyset order; a cursor on the client's side | `GET /agents`, `GET /static/all.json` page by page | registration inserts, page caches |
| Identity, `identity.py`, `identity.ts` | `active.pem`, `retiring.pem` | `load_or_generate`, `load_keyring`, `rotate_keyring` | other processes, through the files |
| Command line, `cli.py` | the JWKS file; what the directory has registered | `keygen`, `rotate`, `register`, `serve`, `inspect --cache` | the keyring, the directory, `jwks_server.py` |
| Verifier, `verifier.py`, `verifier.ts` | `NonceStore`, `JwksCache` | `Verifier.verify` | fetches the signer's directory |
| ASGI middleware, `verifier.py:358-417` | the messages of a request it holds | `__call__`, `receive` | the server, the verifier, the application |
| Signing clients, `signer.py`, `adapters/`, `fetch.ts` | the headers of a request that is redirected or sent again | `sign`, `signed_client`, `signed_async_client`, `signed_session`, `WebBotAuth`, `createSignedFetch` | httpx, requests, fetch, the policy guard |
| Policy cache, `policy/cache.py` | what is fresh and what can be revalidated, per origin and file | `get`, `set`, `get_stale`, `dump`, `restore` | the inspector; a file, between two processes |
| Policy inspector, `policy/inspector.py` | `_CACHE`, `_INFLIGHT` | `inspect` | fetches robots.txt, ai.txt, llms.txt, the signing directory |
| Policy verdict, `policy/verdict.py` | none | `compute_verdict` | called by the inspector |
| Policy guard, `policy/guard.py` | `_next_slot`, `_locks` per origin | `check`, `wait_turn` | the inspector; runs before every request of a guarded client |
| Policy parsers, TypeScript signer, Playwright adapters, pages, probe | none | see [section 6](#6-what-is-not-modelled) | |

What is hard in them, and what makes them correct:

* **Registration.** Handlers run concurrently, in several isolates, without a
  transaction around their D1 statements; the worker may stop at any await; a
  client may repeat or duplicate anything. A challenge must admit one submit,
  in time, signed by the key it was asked for; no key may be published that
  its holder has not proven; a row must be one submit, whole; nobody may cost
  another client its pending challenge or its daily budget.
* **Edge cache.** Two layers that each start their own time to live, a purge
  that reaches one isolate, and requests and background puts that overlap it.
  A copy must not outlive its signature, and a registration must show in the
  end whatever becomes of its purge. The byte count of the memory must not
  drift.
* **Listings.** Rows are inserted with a time that is seconds old, pages are
  cached one by one, and rows can tie. A walk must be in order, without
  repetition and without a gap.
* **Keyring.** Processes share a directory and have no lock but `O_EXCL`; they
  crash or run out of disk between two calls. First starts must agree on one
  key; a rotation must not lose the old one.
* **Commands.** `keygen` and `rotate` write the JWKS file after the keyring, and
  stop or fail in between; `register` is told of what it did by an answer that
  may be lost. What is published and registered must be what agents sign with.
* **Verifier.** Requests are verified concurrently and wait for the directory
  in between. A nonce must be accepted once, a damaged copy must not use it
  up, the store is bounded, and keys are cached: how late does a rotation show?
* **Middleware.** It consumes the body of a signed request before the
  application does. The application must be given every message, in order, and
  may only be told of an agent whose body it reads.
* **Signing clients.** A library copies the headers of one hop to the next and
  an application sends a request object again: no signature may go to another
  origin than it was made for, be sent twice, cover another body, or be too old
  after a wait in the guard.
* **Policy.** Calls share fetches and a cache, are cancelled, stop early, and
  revalidate with tags. A verdict must rest on recent files. Requests queue
  for their slot under a lock, wake late and are cancelled while they wait.

## 2. The modules

Each module takes its numbers and sets as `CONSTANTS` with named assumptions;
an action is the code from one await (or one system call) to the next, with
everything that happens in between. Wall clocks are a variable `now` or
`clock` that a `Tick` advances up to `MaxTime`; bounds on how long a request
may take are guards of `Tick` and named constants, and where the code enforces
them is said below. Variables marked *history* record what happened for the
properties; no guard reads them.

| Module | Models | Correspondence |
|---|---|---|
| `RateLimit` | `ratelimit.ts` | `BeginCall` fixes day and key (l.47-54), `CountCall` is the D1 batch (l.55-69), `FailCall` the batch that throws. Constant `Limit`. |
| `DomainOwnership` | `domain.ts` | pure: the URLs that are not asked, and the decision for every answer. |
| `Registration` | `register.ts`, on the two above | one variable per handler local that lives across an await; `pc` is the await. The rate-limit actions are those of `RateLimit`, conjoined with the handler's. |
| `MemoryCache` | `cache.ts:23-69` | the Map with its insertion order and `memoryBytes`; the bytes it is compared with are counted as the elements of a set. Its keys are the URLs a purge clears. |
| `EdgeCache` | `cache.ts:71-170`, the directory route of `read.ts` | `Get`, `Match`, `Hit`, `Read`, `Sign`, `Store` are the stages of a GET, `PutAtEdge` the background put, `Register`, `PurgeMemory`, `PurgeEdge` a registration and its purge. |
| `Pagination` | `read.ts:59-79`, `snapshot.sh` | a page as the query gives it at some moment within `Age`; `Register` takes `created_at`, `Insert` writes it up to `Delay` later. |
| `Keyring` | `identity.py:233-349, 436-518` | one action per file system call; `Crash` at any of them, `WriteFails` for a full disk. |
| `KeyCommands` | `cli.py`, `jwks_server.py`, on `Keyring` | an action of `Keyring` conjoined with the stage of the command it belongs to; `OpenJwks`, `WriteJwks` are `write_text`, `Challenge`, `Submit` the two calls of `register`. |
| `NonceStore` | `verifier.py:156-175` | `until` is the map, `older` the order its keys were first set in; what is dropped at the limit. |
| `Verifier` | `verifier.py:195-346` | `Fetch`, `Answer`, `Store` are the awaits of the key cache; `Finish` is everything after the last of them, the nonce's test-and-set included. |
| `Middleware` | `verifier.py:358-417` | `Buffer` is one `await receive()`, `Verify` what follows the last; `Replay` and `Receive` are the application's calls of the `receive` it is given. |
| `PolicyCache` | `policy/cache.py` | `set` as `FreshAfter` and `StaleAfter`, with its early returns; `Dump` and `Restore`. |
| `PolicyVerdict` | `policy/verdict.py` | pure: the composition rules over what each file said. |
| `PolicyInspector` | `policy/inspector.py`, on the two above | `Inspect`, `Absorb` run from await to await; `inflight` is `_INFLIGHT`, a task is answered (`Answer`), arrives or fails and wakes all who wait for it; `Cancel` cancels a caller; `Restart` is a process that loads what the one before saved (`load_cache`, `save_cache`). |
| `PolicyGuard` | `policy/guard.py` | the lock's queue, the sleeper at its head, and cancellation of either. |
| `Pacing` | what `guard.py` promises | abstract: requests go in slots that are their delays apart, each at its slot or up to `LATE` after it. |
| `SignedClient` | `signer.py`, `adapters/`, `fetch.ts:66-149`, on `PolicyGuard` | `hop` is the request of a caller and its headers; `Prepare` is what happens to it before it is sent, `Redirect` and `Again` are the library and the application. A library gives the next hop the headers it sent (`After`), `createSignedFetch` those it was given (`Refetched`). |

`MC…` modules give constants their values for TLC, `…_proofs` modules hold the
theorems. `Registration` composes `RateLimit` and `DomainOwnership`;
`EdgeCache` composes `MemoryCache` with the edge; `Verifier` uses `NonceStore`;
`PolicyInspector` uses `PolicyCache` and `PolicyVerdict`. `RateLimit` is at the
same time the abstract specification of the budget: `ImplementsRateLimit` says
that every behaviour of `Registration` is one of `RateLimit!LimitSpec`.
`SignedClient` composes `PolicyGuard` with the calls of a client, and
implements `Pacing` (`Pace == INSTANCE Pacing WITH slot <- nextSlot, ...`, the property
`KeepsPace`): the lock, its queue, the sleeper and the cancelled waiter all
disappear in the mapping, which keeps the time, the next slot and what was sent.
`KeyCommands` composes `Keyring` with the files and calls of the commands, and
every behaviour of it is one of `Keyring!Spec`.

Abstractions. Signatures, digests and thumbprints are ideal: a request has the
key it verifies under and possibly a `flaw`, which some local check finds. A
nonce of 128 random bits is identified with the request that made it. File
contents are a version number, which is also the ETag.
What a signature covers is the signer's subject, not the protocol's.

## 3. What is model-checked

No run constrains its states, and none replaces a definition of a module; the
constants marked `<-` get values too long for a cfg.
`CHECK_DEADLOCK` is off because every model ends when its clock, its slots or
its keys run out. Safety runs use no fairness.

| Run | Bounds | Properties |
|---|---|---|
| `registration_keys` | 4 requests, 2 keys, a moment | `TypeOK`, `SingleUse`, `EveryPublishedKeyProven`, `RowIsOneSubmit` |
| `registration_time` | 3 requests, 3 addresses in 2 buckets, limit 1, 3 moments over a midnight, TTL 1 | `ChallengeHonoured`, `BudgetHolds`, `RefusedOnlyOverBudget`, `PendingChallengesSafe` |
| `edgecache` | 1 isolate, 2 readers, 2 URLs that do not fit together, a registration, TTL 1, 4 moments | `TypeOK`, `MemoryBounded`, `PurgeEffective`, `SignatureFresh`, `RegistrationShows` |
| `edgecache_240s` | every request answered at once | `ValidityLeft` is violated |
| `pagination` | 5 agents, 2 rows a page, old pages, late inserts | `TypeOK`, `PagesInOrder`, `WalkComplete` |
| `keyring_shared` | 3 commands of any kinds, 4 keys | `CommandTypeOK`, `FirstStartsAgree`, `RotationKeepsTheKey`, `KeysPublished`, `RegisterTells` |
| `keyring_first` | 2 processes, no failure | `FirstStartsSucceed` is violated |
| `verifier` | 3 deliveries of 6 requests, 2 keys, room for 2 nonces | `TypeOK`, `StoreBounded`, `NonceAcceptedOnce`, `RefusedForAnAcceptance`, `AcceptedKeyWasListed`, `RefusedKeyWasNotListed` |
| `middleware` | 4 messages, bodies of 2 kinds of chunks, 2 at most | `MessagesInOrder`, `AgentVouches` |
| `policy_inspector` | 2 tasks, 2 files, robots.txt changes once, restarts, 5 moments | `TypeOK`, `NobodyForgotten`, `AllowedByRecentFiles`, `ForbiddenForAReason` |
| `policy_tags` | the same with `no-cache`, 2 moments | `TagsMatch` is violated |
| `policy_guard` | 2 tasks, the hops of one, 3 origins, a redirect, delays 1 and 2, wake-ups 1 late | `ClientTypeOK`, `NoGap`, `StrayHopsWarned`, `SignedHopsFit`, `OtherHopsBare`, `RequestsEnd`, `KeepsPace` |

Why the bounds are enough:

* `registration_keys`: a cross-publication needs two registrations with a
  challenge each; four slots hold two challenges and two submits of one or of
  two keys, or one challenge quoted three times, in every interleaving of
  their awaits. Keys publish one another, sign for each other, and claim the
  hosted page, a site and a forbidden site. Time plays no part there.
* `registration_time`: one call over a limit of one, two addresses of one /64
  and a third client, a day of two ticks, a TTL of one: a challenge is judged
  before, at and after its expiry, and a call is counted after the midnight
  that followed its day.
* `edgecache`: either list or directory fits, not both, and a list beyond
  `MAX_BODY` after the registration; two readers put, replace and expire the
  same key. There is time for an edge hit at the last moment and another life
  in memory after it, beside a purge.
* `pagination`: three pages, of which the last is short, with rows that share a
  `created_at` across the end of a page.
* `keyring_shared`: three concurrent first starts, of agents, `keygen` and
  `register`, or a rotation beside two of them, one of which stops halfway, and
  another after it. Four keys are one for every process and one for a rotation.
* `middleware`: a body of two chunks fits and a third does not; four messages
  are two of the body, an empty one and a disconnect, in every order.
* `verifier`: the three deliveries are any of a request, its two damaged
  copies and three others, one without a nonce; two nonces fill the store, a
  third makes one give way. Windows close, entries of the key cache expire
  (TTL 2) and the directory changes between any two awaits, within five
  moments.
* `policy_inspector`: one task stops at a robots.txt that forbids and one does
  not, so that they join each other's fetches with different sets of files
  left; the tag, expiry, revalidation, failure and cancellation of robots.txt
  are all reached. ai.txt has no tag and may be `no-store`.
  Restarts happen between any two steps, with the file saved at any earlier one.
* `policy_guard`: one task sleeps under the lock, the other queues behind it or
  waits for its inspection, and either leaves or is refused from either place.
  A call starts anywhere and is redirected to a signed origin, a foreign one or
  the guarded one, with its body or without, in each of the four forms.

What some of the properties say, and do not say:

* `NonceAcceptedOnce` has two exceptions, both the code's. A full store forgets
  its oldest tenth. And the window is judged by `t`, read before the keys are
  awaited and inclusive of `expires + skew` (`verifier.py:307-311`), the nonce by
  the store's own clock after that, which drops it at `expires + skew`
  (l.165-171): a second delivery that begins in the last moment of the window
  and ends after it is accepted again.
* `SignatureFresh` is `2 * EDGE_TTL + Latency`: with 60 s and requests of a few
  seconds a copy has close to 180 s of its 300 s left, not 240 s (section 4).
* `AllowedByRecentFiles` gives the age of what a verdict rests on: as long as the
  origin let that file be kept (a chain of redirects without an end is kept as a
  failure is), plus four fetches: the verdict's own call takes one, the call that
  put the file in the cache another, which joined a third, and a call that asks
  for robots.txt first takes two. For robots.txt it is plus three. The run has
  two endpoints and does not reach the fourth: that takes a third endpoint, and
  a caller that stops at robots.txt; the proof did. The property exempts the files for
  which a 304 has been misread (section 4), which the variable `crossed`
  records.
* `KeepsPace` bounds the sum of delays between *any* two requests but for one late
  wake-up. The slot that follows a sleeper is counted from its slot, not from
  when it woke (`guard.py:78-81`), so two neighbours can be closer than the
  delay by that lateness, and lateness does not add up.
* `SignedHopsFit` and `OtherHopsBare` are about the hops wbauth prepares. The
  form `auth=WebBotAuth(...)` prepares the first hop only, and its signature
  follows the redirects; `StrayHopsWarned` says that the caller is told.
  `requests` with `auth=` prepares every hop.
* `AgentVouches` says what an agent in the scope means to the application. A
  body that was removed altogether is not compared with the digest
  (`verifier.py:320`), so `agent` vouches for the body that is read or for none.
* `KeysPublished` is about a JWKS file no writer was stopped at. A `keygen` after
  a rotation that crashed publishes the new key alone, although `retiring.pem` is
  still there; a `rotate` after it drops the key that was published. A server
  reads the file once, when it starts (`jwks_server.py:60`). Writers of the file
  run one after the other; the commands take no lock that would say so.
* `RegisterTells` lets the directory have a key whose `register` exited with an
  error: the answer was lost, and the command cannot know.

Fairness. `RequestsEnd` is the only liveness property. `ClientSpec` assumes what
`PolicyGuard` does: weak fairness of `Check` (an inspection ends: each of its
fetches has a 3 s timeout, `inspector.py:323-327`), of `Resume` and `Wake`
(asyncio's lock is first come, first served, and the event loop runs what is
ready) and of `Tick` (time passes). None of `Begin` and `Cancel`: nothing forces
a request or saves it. None of the hops outside of the guard: an HTTP library
may wait for ever. New calls stop at `Closing`, so that the clock does not.

Bounds on durations, which are guards of `Tick`: in `RateLimit` a call is less
than a day between reading its day and its batch (a Worker is cut off long
before); in `EdgeCache` a request and its put take at most `Latency`; in
`Verifier` a fetch takes at most `Latency`; `Pagination`'s `Delay` is
the 3 s timeout of the domain check and its `Age` the age of a cached page, for which `EdgeCache` gives the bound; in `PolicyInspector` `TIMEOUT`
is `PER_ENDPOINT_TIMEOUT`, which `wait_for` enforces; `PolicyGuard`'s `LATE`
bounds how late a sleeper is woken.

## 4. Where the code and its documents disagree

1. `edgecache_240s`: `cache.ts:10-12` says a cached copy "always has ≥ 240 s of
   validity left". An entry the edge has kept for almost 60 s is put into memory
   for another 60 s (l.118-128): down to 180 s.
2. `keyring_first`: `identity.py:246-247` says "Concurrent first-start processes
   are safe: the loser of the O_EXCL race loads the winner's key". The winner
   creates the file at l.510 and writes it at l.512-515; a loser that reads in
   between finds an empty file and raises `ValueError`. `FirstStartsAgree`
   still holds: whoever gets a key gets the same one.
3. `policy_tags`: `README.md:167` says revalidation is by conditional GET, "so an
   unchanged file costs a 304". A call joins a request under way without
   looking at what it asks (`inspector.py:320`), and takes its 304 for its own
   old file (l.533), which it stores under the new tag (l.540). That its file is
   older than what the request asks about takes a call whose answer was kept
   back by a slower endpoint (l.332) and cached after a newer one. From then on
   every revalidation confirms the old file.

Smaller observations, not made into runs: `maxsize // 10` drops nothing from a
full `NonceStore` of fewer than ten (`verifier.py:169`; `verifier.ts:68-76` always drops one),
hence `DROP >= 1` is assumed; the timeout of `JwksCache` is per read, not per
fetch; the numbered legacy pages of the list shift under inserts, as documented;
two rotations at once are not excluded by anything, and `Keyring` allows one
after the other only.

## 5. What is proved

TLAPS checks these for every value of the constants that meets the assumptions;
TLC checks the same formulas on the instances above.

| Theorem | States |
|---|---|
| `Registration_proofs!LimitInvariant`, `Budget`, `RefusalsAreOverBudget` | the inductive invariant of the budget, `BudgetHolds`, `RefusedOnlyOverBudget` |
| `Registration_proofs!ImplementsRateLimit` | `Spec => LimitSpec` |
| `Registration_proofs!Invariant`, `TypeCorrect` | the inductive invariant of the handlers, `TypeOK` |
| `Registration_proofs!ChallengesAreSingleUse`, `OnlyChallengedSubmits`, `PendingChallengesStay` | `SingleUse`, `ChallengeHonoured`, `PendingChallengesSafe` |
| `Registration_proofs!PublishedKeysAreProven`, `RowsAreWhole` | `EveryPublishedKeyProven`, `RowIsOneSubmit` |
| `EdgeCache_proofs!CopiesAge`, `SignaturesFresh`, `RegistrationsShow` | the ages of copies, `SignatureFresh`, `RegistrationShows` |
| `EdgeCache_proofs!PurgesWork` | `PurgeEffective` |
| `EdgeCache_proofs!MemoryCounts`, `EdgeTypes` | `MemoryBounded`, `TypeOK` |
| `Pagination_proofs!PaginationInvariant`, `PaginationTypes`, `WalksInOrder`, `WalksComplete` | `TypeOK`, `PagesInOrder`, `WalkComplete` |
| `KeyCommands_proofs!KeyringInvariant`, `KeyringTypes`, `OneKeyForAll`, `RotationsKeepTheKey` | of `Keyring` alone: `TypeOK`, `FirstStartsAgree`, `RotationKeepsTheKey` |
| `KeyCommands_proofs!CommandsUseTheKeyring`, `OneKeyForCommands`, `RotateKeepsTheKey` | `CommandSpec => Spec`, and with it `FirstStartsAgree`, `RotationKeepsTheKey` |
| `KeyCommands_proofs!CommandInvariant`, `CommandTypesHold`, `KeysArePublished`, `RegisteredKeyIsActive` | `CommandTypeOK`, `KeysPublished`, `RegisterTells` |
| `Verifier_proofs!NonceInvariant`, `StoreIsBounded`, `NoncesAreAcceptedOnce`, `ReplaysFollowAcceptances` | `StoreBounded`, `NonceAcceptedOnce`, `RefusedForAnAcceptance` |
| `Verifier_proofs!KeyInvariant`, `TypesHold`, `AcceptedKeysWereListed`, `RefusedKeysWereNotListed` | `TypeOK`, `AcceptedKeyWasListed`, `RefusedKeyWasNotListed` |
| `Middleware_proofs!MiddlewareInvariant`, `MessagesStayInOrder`, `AgentsVouch` | `MessagesInOrder`, `AgentVouches` |
| `PolicyInspector_proofs!InspectorTypes`, `NobodyIsForgotten`, `AllowedRecently`, `ForbiddenRecently` | `TypeOK`, `NobodyForgotten`, `AllowedByRecentFiles`, `ForbiddenForAReason` |
| `SignedClient_proofs!GuardInvariant`, `ClientsAreGuarded` | the inductive invariant of the guard; clients drive it as `PolicyGuard` says |
| `SignedClient_proofs!ClientTypes` | `ClientTypeOK` |
| `SignedClient_proofs!ClientsKeepPace`, `ClientsLeaveNoGap` | `KeepsPace` (the refinement of `Pacing`), `NoGap` |
| `SignedClient_proofs!ClientInvariant`, `StraysAreWarnedOf`, `SignaturesFit`, `OthersAreBare` | `StrayHopsWarned`, `SignedHopsFit`, `OtherHopsBare` |

The arguments:

* **Budget.** `BudgetHolds` is not inductive: it says nothing of the rows. The
  invariant adds that a call still to be counted took its day today or
  yesterday (`LateCallsAreRecent`), that a row of those two days holds at least
  the calls let through on it (`RecentRowsCount`: the cleanup has not reached
  it), and that no row holds more than the calls answered on it
  (`RowsOnlyCount`).
* **Registration.** A nonce admits one submit because a submit that has won has
  no challenge left in the table (`SpentInv`), and quotes can only be consumed
  from there. `JudgedInv` carries what the lookup found over the await to the
  `DELETE … RETURNING`. For keys, `KeysInv` says that between the two reads of
  the proof of possession every extra key is either still `unproven` or already
  proven, and proven keys stay proven: the staleness of the reads is harmless
  because nothing is ever unproven again. A row is one submit because some slot
  that wrote it stays to answer for it (`Wrote`), and `SeenInv` carries over the
  await of the domain check that a forbidden host was never asked: without it the
  row could be marked verified by a page nobody fetched. Challenges are deleted in
  three places: one only deletes what is expired, and in the other two
  `PendingChallengesStay` has from `JudgedInv` who signed the submit, which was
  checked awaits ago.
* **Edge cache.** Each place a copy can be has an age (`ReaderInv`, `PutInv`,
  `EdgeInv`, `MemoryInv`): a memory entry is an edge entry's age plus one
  `EDGE_TTL`, an edge entry's is a put's plus one. `Outdated` bounds the time
  since the version after a copy's was written. Purges only remove; eviction
  only removes; so neither needs to be right for the bounds to hold. What a purge
  does achieve rests on `AloneInv`, about a purge that nothing overlaps: while it
  goes on what it has deleted stays so (`Quiet`), and after it every copy of a
  URL it handles that is kept, put or in the hands of a request says what the
  registry does (`Current`).
* **Memory.** The count is compared with the number of elements of `Content`, a
  set in which the bytes of every key are numbered: taking a key away, or
  putting one in, splits that set in two (`BytesSplit`), so a cardinality does
  what would take an induction for a sum. `MemoryKept` adds to it that `order` is
  the cached keys, each once (`Ordered`), and that no entry is larger than
  `MAX_BODY`: an entry just put is never evicted for its own size. That enough
  keys give way is a least element of a set of numbers (`LeastNat`).
* **Keyring.** At most one process is in a rotation, and at each of its steps
  it is known which name the old key has (`OneRotation`); before the first
  rotation there is one key, as `O_EXCL` lets one create succeed (`OneKey`).
* **Commands.** Every step of a command is a step of `Keyring` or leaves its
  variables alone, which gives the keyring's theorems for the commands. For what
  is published and registered, `CommandInv` says of each stage of each kind of
  command which of its keys are on the disk, written, and in the JWKS file, and
  that a command that reads `active.pem` while nobody rotates has the one key.
* **Guard and clients.** `NoGap` and the pace rest on `Slots`: a sleeper has a
  slot, is not woken later than `LATE`, and the next slot is never more than the
  last delay after the last request. The line of the lock (`LineInv`) holds those
  who queue or sleep, each once, and whoever sleeps leads it (`SleepersLead`),
  which is what leaves the line whole when a cancelled waiter steps out of the
  middle. A hop with a stray signature is one of the
  form `auth` past its first hop (`StrayOK`). What is signed fits because
  nothing happens between `Prepare` and sending, which is why a wait in the
  guard cannot age a signature: the guard comes first.
* **Verifier.** `NonceAcceptedOnce` says nothing of the store. `Remembered` adds
  that the nonce of an acceptance is in it until its time is over, unless it
  was forgotten; `Founded`, that whatever is in it belongs to an acceptance of
  just that time. `StoreBounded` needs a first element of a finite order
  (`SomeFirst`, by the pigeonhole principle: otherwise the numbers of older
  nonces would all differ and leave out zero). For keys, an answer is as recent
  as its request (`AnswersRecent`) and an entry ends no later than `TTL +
  Latency` after its keys were listed (`EntriesRecent`).
* **Middleware.** What is buffered, replayed and still to come are the messages of
  the server in order (`InOrder`), a body ends once (`EndsOnce`), and an agent is
  found only behind a body that ended, and was its digest's or empty (`Vouched`). The body is a
  fold over the messages; that the fold of a longer sequence appends needs an
  induction, which `SetInduction` gives for a *set* of numbers, from the
  well-foundedness of finite sets under inclusion.
* **Policy.** `LagInv` says of every place a file can be how long ago the origin
  said so: of the cache and the saved file (`EntryInv`), of a task's answer
  (`TaskInv`), and of what a call holds (`CallInv`), measured from the moment `b`
  at which its present round of fetches began. A caller waits only for tasks
  that were under way at `b`, whoever started them. It exempts the
  files in `crossed`, as the properties do.
* **Pagination.** The cursor is the last row shown, and every agent that was
  there in time is either shown or comes after it in the order (`NoneMissed`);
  a row inserted late, or a page that is old, cannot be before the cursor and
  have been there `Age` before the walk began.

Assumptions are the named `ASSUME`s of the modules, which TLC evaluates on every
run. Every property of the passing runs but one is stated by a theorem. Only
model-checked: `RequestsEnd`, as liveness under fairness (and `ENABLED`) is out of
the provers' reach, and the three disagreements of section 4, which are
counterexamples. Also out of reach is induction with the library's theorems, which take a
predicate as a parameter: recursive definitions are avoided (`Bytes`), replaced
in the proof by an invariant, or unfolded by `SetInduction`.

## 6. What is not modelled

* Signature base, thumbprints, redaction, name normalisation and the parsers of
  the policy files are pure text or cryptography: their results are inputs.
* The agent list and badge, the smoke probe, `verify` of the command line,
  scripts and examples read and print. The local JWKS server answers with what
  it read when it started, which `KeyCommands` models.
* The Playwright adapters: the browser follows redirects and repeats requests by
  itself, and the adapter sees what it is shown.
* The TypeScript signer, which computes what the Python one does. Of `fetch.ts`,
  the credentials it drops between origins and the redirect modes in which it
  follows none.
* In modelled components: file modes, passwords, and in-memory rotation of
  identities; custom key resolvers; the policy cache's eviction at 4096 entries,
  processes that share a cache file (the last save wins), and the address checks
  of the inspector; numbered pages and the decoding of cursors; the 304 of the
  edge cache, which repeats the ETag and not the signature; `max_retries` of the
  `requests` adapter, which sends a signed request again below it.
* A `register` of a key that is not the keyring's `active.pem`: it has no part in
  a keyring.
* The TypeScript verifier and keyring take the steps of the Python ones. Where
  they differ: `verifier.ts` reads the body before it asks for keys and drops
  one nonce of a full store at a time.

## 7. Plan

Written, in this order: `RateLimit`, `Registration` and their proofs;
`EdgeCache`; `Verifier`; `Keyring`; `Pagination`; the policy modules;
`SignedClient` on the guard, with `Pacing`; `KeyCommands`; `Middleware`;
restarts of the policy cache. Next:

1. `fetch.ts:142-144`: no credentials go from one origin to another, however a
   call is redirected there and back.
2. Key propagation: a rotation of the keyring, its registration, the edge cache
   and a verifier's key cache as one system, with the sum of their delays.
3. Theorems about these two: the second as a composition of
   `RegistrationsShow` and `AcceptedKeysWereListed`.
