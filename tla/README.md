# TLA+ models of the NextEPC HSS authentication engine and MME paths

These modules model the HSS authentication path of this repository
(`src/src/hss`) and two parts of the MME under `src/src/mme`: the S11
(GTP-C) path and the NAS COUNT. They
are checked with TLC. Each model is translated from the C source, and
`PROJECT.json` maps every TLA+ definition to the lines it models.

## 1. The system

| Part | Source | State | Operations |
|---|---|---|---|
| S6a AIR handler | `hss-fd-path.c` `hss_ogs_diam_s6a_air_cb` (46-363) | per request: `auth_info`, `block_auth_info`, `result_code` (stack) | load subscriber, refresh zero RAND, fetch or refill vectors, resync check, store RAND/SQN, bump SQN, answer or error answer |
| Subscriber store | `hss-context.c` (283-787) | MongoDB `subscribers` documents: `security.{rand,sqn,authvectors}`, `remote`; process-wide `db_lock` | `hss_db_auth_info`, `hss_db_fetch_sawtooth_authentication_vectors` (find + `$pop`), `hss_db_write_additional_vectors` (find + 9 × `$push`), `hss_db_update_rand_and_sqn` (`$set`), `hss_db_increment_sqn` (`$inc` + `$bit`) |
| AV derivation | `hss-auc.c`, MILENAGE | none (pure) | `hss_auc_kasme`, `hss_auc_sqn` |
| S6a ULR handler | `hss-fd-path.c` 366-808, `hss_db_subscription_data` | none (reads the profile) | build Subscription-Data |
| MME GTP-C path | `mme-gtp-path.c` | S11 event queue, GTP transactions, the UE's session list | receive callback, transaction timeout, the S11 senders and bearer responses, `mme_gtp_send_delete_all_sessions` |
| MME NAS security | `nas-security.c` | `dl_count`, `ul_count{overflow,sqn}`, `security_context_available`, `mac_failed` | `nas_security_encode`, `nas_security_decode` |
| PFCP path, S1AP codec | `lib/pfcp/path.c`, `lib/s1ap/message.c` | sockets | I/O and ASN.1 wrappers |

### How the parts interact

freeDiameter runs the AIR callback on its dispatch threads, so several AIRs
run at once. Each store function takes `db_lock` for its own duration only.
An AIR therefore runs as a chain of separate critical sections:

1. read the subscriber;
2. fetch or refill the vector pool;
3. `$set` the RAND and SQN;
4. `$inc` and then `$bit` the SQN.

Any number of these sections from other threads can run in between. Each
backend round-trip is atomic on the server, but one function may make several
of them: find then `$pop`, find then nine `$push`es, `$inc` then `$bit`. Other
HSS processes sharing the collection can run between those round-trips, since
their `db_lock` is a different mutex.

A subscriber document with a `remote` field is served from its
`authvectors` pool. The head is read, then popped. Any other subscriber is
"local". For a local subscriber, nine vectors are derived from the stored
RAND with SQN + 32·k and pushed to the pool. The first of them is kept as the
vector to answer (`use_db = 1`).

### Hazards

`PROJECT.json` ("hazards") lists each hazard at its line. In short:

- **Lost updates.** RAND/SQN are read in one critical section and written
  back in a later one.
- **Non-atomic dequeue.** The pool dequeue is a find plus a `$pop`, under a
  mutex local to one process.
- **Pool popped too early.** The pool is popped before the resync MAC check.
- **Resync too late.** The resync changes RAND and SQN after the answered
  vector was already built.
- **Ignored store failures.** Failures of the fetch, `$push` and `$pop` are
  ignored.
- **Uninitialised `use_db`.** It can be read uninitialised.
- **Empty pool.** An emptied remote pool crashes the HSS process: the
  `av_count <= 0` test never fires, and `bson_iter_recurse` reads through
  the NULL pointer a failed `bson_iter_find("0")` leaves.
- **Unbounded pool.** A local pool grows by nine vectors per AIR, with no
  bound.
- **Unmasked SQN.** The SQN is transiently unmasked between `$inc` and
  `$bit`.
- **`db_lock` release.** `db_lock` must be released on every path.
- **Wrong RAND stored.** The stored RAND is the bytes of libc `rand()`.
- **Wrong KASME input.** KASME is derived with the User-Name instead of the
  Visited-PLMN-Id.
- **MME.** The delete-all-sessions loop never advances. A packet from an
  unknown SGW dereferences NULL.
- **ULR profile.** The UE address type depends on the order of `addr` and
  `addr6`. The result code is whatever the last address parse returned. The
  AMBR goes into an Unsigned32 AVP. Too many PDNs trip an assert.
- **HSS configuration.** `load_extension` and `connect` entries are appended
  to fixed arrays with no bound check. A `connect` port is stored in a
  `uint16_t`.
- **NAS COUNT.** `ul_count` is overwritten before the MAC check. The 5-bit
  carry and the overflow wrap are easy to get wrong at a boundary.

## 2. Modules

### `HssAir` — the AIR handler over the store

**Constants.**
- `Workers` are the dispatch threads.
- `Instance[w]` is the HSS process of a thread, i.e. which `db_lock` it
  takes.
- `InitDb` holds the provisioned documents.
- `Rands` are the values `ogs_random` can return.
- `SqnWidth` is the SQN width. The code uses 48; TLC runs use 8, so the
  wrap is reachable.
- `RefillCount` is the number of vectors per refill (9 in the code).
- `ResyncInfo[i]` holds the `(SQN_MS, MAC_S ok)` pairs that a request for
  subscriber `i` may carry.
- `StoreFaults` says whether backend round-trips may fail.
- `MaxRequests` bounds the number of AIRs.

**Variables.**
- `db` is the collection: `rand`, `sqn`, `remote` and `avs` per IMSI.
- `lock` records the `db_lock` holder of each process.
- Per thread:
  - `pc` is the position in the handler;
  - `req` is the IMSI and the resync info of the request;
  - `auth` is `auth_info`;
  - `block` is `block_auth_info`;
  - `result` is `result_code`.
- `down` is the set of HSS processes that have crashed.
- History variables: `failed` records that a store call failed, `answers`
  holds the answers sent, and `usedRands` the RAND values seen so far.

**Data abstraction.** A vector is identified by the inputs it is derived from:
`[rand, sqn mod 2^SqnWidth, snid]`, where `snid` is the PLMN id given to
`hss_auc_kasme`.

A pool entry holds:
- the stored `rand` field;
- the stored `sqn` field, unmasked, as the code stores it;
- the vector identity of its AUTN/XRES/KASME.

`Garbage` stands for an unwritten stack struct.

**Actions.** There is one action per backend round-trip. Each action holds
the handler code that follows that call, up to the next call.

| Action | Code |
|---|---|
| `AirRequest` | fd-path 46-93 |
| `hss_db_auth_info` | context 584-700 plus the zero-RAND refresh and the branch at fd-path 95-133 |
| `hss_db_fetch_find` | context 283-403 (lock, find, copy the head; an emptied array crashes the process) |
| `hss_db_fetch_pop` | context 405-427 (`$pop -1`, unlock) |
| `hss_db_write_additional_vectors` | context 429-578 (one step: the whole function holds `db_lock`) |
| `AirResync` | fd-path 135-168 |
| `hss_db_update_rand_and_sqn` | context 702-738 |
| `hss_db_increment_sqn_inc` / `_bit` | context 740-787 |
| `AirAnswer` | fd-path 186-340 |
| `AirOut` | fd-path 342-362 |

How the actions treat locking and failures:
- **Locking.** An action that takes `db_lock` waits for it with `LockFree`.
  The two-round-trip functions hold it in `lock` between their two actions.
- **Failures.** Under `StoreFaults`, each round-trip can fail in the way the
  code handles that failure. A failed `$push` subset is modelled with
  `AllSubSeqs`. A failed refill find leaves `use_db` as either boolean value,
  because it is uninitialised stack memory.

**Crash.** `bson_iter_array` returns the array's byte length, at least 5
for an empty BSON array, so the `av_count <= 0` branch at `hss-context.c:347`
is dead. An emptied `authvectors` array goes on to `bson_iter_find("0")`,
which fails and leaves the iterator's raw pointer NULL; `bson_iter_recurse`
(`:357`) then reads through it and the process dies. `hss_db_fetch_find`
models this as its instance joining `down`: every thread of that process
stops where it is (`Alive`), with its request unanswered. No restart is
modelled: nothing in the code restarts the process.

**Fairness.** Each handler step of a thread of a live process is weakly
fair, because the OS schedules runnable threads. Request arrival is not
fair. `Done` lets the model stop once every thread is idle with the request
budget spent, or gone with its crashed process.

**MC module.** `MCHssAir` gives the constants values. It provides one or two
threads in one or two processes, and four subscribers:
- `imsiA`: local, never authenticated (RAND zero);
- `imsiB`: local, one AIR below the SQN wrap;
- `imsiR`: remote, with a pool;
- `imsiU`: unprovisioned.

### `NasCount` — UL/DL NAS COUNT of the MME (`nas-security.c`)

`nas_security_decode` rebuilds the 24-bit uplink COUNT of each message from
`mme_ue->ul_count` (16-bit overflow, 8-bit sqn) and the sequence number in
the message. A protected message carries 8 bits of it, a SERVICE REQUEST 5.
The MAC is computed over that estimate, so the model says a message
verifies iff the estimate equals the UE's COUNT and the key is the UE's
(`MacOk`). The ciphers themselves are not modelled.

| Code | Model |
|---|---|
| `ul_count.overflow`, `ul_count.sqn`, `dl_count`, `security_context_available` | `ulOverflow`, `ulSqn`, `dlCount`, `secAvail` |
| service-request branch: high 3 bits, `+= 0x20` in `uint8_t`, `overflow++` | `SrEstimate`, `NasDecodeServiceRequest` |
| no integrity algorithm: `return OGS_ERROR`; no context: header ignored | `Unverified` |
| new-context header zeroes `ul_count`; `sqn > sequence_number` → `overflow++` | `Estimate`, `NasDecodeProtected` |
| `ul_count` written before the MAC is checked, kept on failure | `Record` |
| `nas_security_encode` with a new-context header: both counts zeroed | `NasEncodeSmc` |
| `dl_count = (dl_count + 1) & 0xffffff` | `NasEncode` |

The environment is a UE that numbers its uplink messages and restarts at 0
with SECURITY MODE COMPLETE (`UeSend`, `UeSmcComplete`). Messages travel in
order over a path that may lose them (`Lose`). A gap `g` in `Gaps` stands
for `g - 1` messages lost before the one that arrives. `Crossing` says whether a message of the old context may still be decoded
after the MME sent a Security Mode Command. `highest` and `delivered` are
history variables that the properties use.

Properties:
- `FreshMessageAccepted`: a message of the current context that is at most
  255 past the highest accepted COUNT (31 for a SERVICE REQUEST) verifies.
- `UlCountMonotonic`: a decode never moves `ul_count` backwards (mod 2^24),
  except on a new context.

No fairness is assumed: every property here is a safety property.

### `MmeGtp` — the MME's S11 path (`mme-gtp-path.c`)

The MME runs one event thread. The receive callback, the GTP transaction
timeout, every S11 sender and the handler of a queued S11 event all run on
it, one at a time. `Idle` says the thread is free: not inside
`mme_gtp_send_delete_all_sessions`, not blocked in `ogs_queue_push`, and
not crashed.

| Code | Model |
|---|---|
| the UE's session list (`mme_sess_first`, `mme_sess_remove`) | `sess`, a sequence of sessions |
| `session_context_will_deleted` | `willDeleted` |
| open local transactions, per message type and session | `xacts` (saturating at 2) |
| SGW-initiated transactions waiting for the MME's response | `remote` |
| the event queue of `mme_self()` and its capacity | `queue`, `QueueSize` |
| buffers received, freed and handed to the S11 handler | `recvd`, `freed`, `dispatched` |
| `_gtpv2_c_recv_cb`: failed read, unknown SGW, push, push onto a full queue | `gtpv2_c_recv_cb` |
| `timeout`: DSR → UE context release; else delete session or release | `timeout` |
| build, `ogs_gtp_xact_local_create`, commit (each may fail) | `SendLocal`, `SendUe`, the five UE senders, `mme_gtp_send_delete_session_request` |
| `ogs_gtp_xact_update_tx` and commit on the SGW's transaction | `SendBearerResponse` and the three bearer responses |
| the early return, the flag, and one loop iteration each | `mme_gtp_send_delete_all_sessions`, `DeleteAllIteration`, `DeleteAllEnd` |

Line 58 frees `e->pkbuf` while `e` is still NULL. A datagram from an address
that is no SGW therefore crashes the process; this is the `crashed` branch
of `gtpv2_c_recv_cb`. `ogs_queue_push` waits while the queue is full, and
the queue is drained by the same event thread: a push onto a full queue
blocks the MME for good (`blocked`). The push fails, and the callback frees
the event, only on a terminated queue at shutdown, which is not modelled.
`BuildFaults` lets a build or a transaction create fail
(`ogs_expect_or_return`).

The environment: `Dispatch` is the S11 state machine (not in this file). It
takes a queued event and either answers one open transaction (an answer to a
Delete-Session-Request removes that session) or opens an SGW-initiated
bearer transaction. `Teardown` is the rest of the MME asking to delete all
sessions. Both run only when the thread is idle.

Properties (both checked by violation runs; see section 3):
- `UnknownSgwDropped`: a datagram from an unknown address is dropped and the
  MME goes on.
- `DeleteAllTerminates`: the delete-all loop always returns.

**Fairness.** `WF` on the loop's steps only. The loop is straight-line code
on the thread that runs it, so it keeps running once it is enabled. Nothing
is assumed about the SGW or about arriving datagrams.

**MC module.** `MCMmeGtp` has three sessions. `s1` and `s3` have an S1-U
path and `s3`'s default bearer will disconnect. There is one SGW and one
stranger address.

### `AbstractAir` and the refinement `AirRefinement`

`AbstractAir` is what the AIR service promises its peers, with no store and
no lock. A dispatch thread takes a request (`Request`) and answers it in one
step (`Answer`). Exactly one answer is appended, for the IMSI asked about. A
success answer carries a vector that no earlier success answer for that
subscriber carried.

`HssAir` defines `Abstract == INSTANCE AbstractAir WITH ...`:
- `busy[w]` is the IMSI of thread `w`'s request, or none when `pc[w]` is
  idle;
- each answer is projected to IMSI, success and vector.

All the intermediate steps of `HssAir` (locking, read, fetch, `$set`,
`$inc`, `$bit`) are stuttering steps of `AbstractAir`. `hss_air_seq` checks
`AirRefinement == Abstract!Spec` on one thread without store faults. With
two threads or two processes the freshness it requires is what
`hss_air_lost_update` and `hss_air_two_processes` show broken.

### `HssUlr` — the ULR handler and the profile read

`hss_ogs_diam_s6a_ulr_cb` calls `hss_db_subscription_data`, which holds
`db_lock` for a single find and writes nothing. It then builds the ULA from
the result. One ULR is therefore one step (`Ulr`) over the document in the
store (`doc`). The step records the request (`ulr`) and the answer (`ula`).

| Code | Model |
|---|---|
| the BSON walk over a PDN entry's keys (child2 loop) | `PdnField`, folded over the entry's fields |
| `"ue"` `addr`/`addr6`: `ogs_ipsubnet`, paa type IPv4 → IPv4v6 etc. | `UeAddr` |
| `"pgw"` `addr`/`addr6` | `PgwAddr` |
| `rv = ogs_ipsubnet(...)` overwriting the function's result | the `rv` threaded through the folds |
| the `"pdn"` array, each entry zeroed first | `PdnArray`, `NoPdn` |
| not found → `OGS_ERROR`; UE-AMBR ×1024 | `hss_db_subscription_data` |
| `val.u32 =` of a 64-bit rate | `U32`, `Bandwidth` |
| one APN-Configuration per PDN | `ApnConfiguration` |
| Subscription-Data unless `SKIP_SUBSCRIBER_DATA` | `SubscriptionDataAvp`, `hss_ogs_diam_s6a_ulr_cb` |

A document keeps only what the walk branches on:
- the UE-AMBR;
- per PDN, in stored order: `type`, `ambr`, and the `ue` and `pgw`
  subdocuments as sequences of `addr`/`addr6` entries, each of which parses
  or not.

APN names, QCI, ARP and the scalar fields are copied unchanged, so they are
left out. Bit rates are kept in units of 1024 bit/s, because TLC's integers
are 32-bit. In those units the Unsigned32 AVP is the rate mod 2^22.

`UlaFaithful` compares the answer with a reference (`RefSub`). The reference
is read off the document directly, not by walking it:
- one APN-Configuration per PDN, with Context-Identifier index+1;
- the families of the parsed UE addresses that the PDN type allows;
- the parsed PGW families;
- the AMBRs in bit/s.

It also requires that a success is sent only for a stored document. It
constrains success answers only, because of the `rv` defect below: whether
a malformed document is refused depends on which address the walk meets
last.

`MCHssUlr` enumerates the documents:
- no document, or a UE-AMBR of 0 or {1000, 5000} kb/s;
- zero, one or two PDN entries, each with:
  - every PDN type;
  - with or without AMBR;
  - every order and parse outcome of the UE's `addr`/`addr6`;
  - four PGW shapes.

### No refinement for `NasCount`

An abstract receiver would accept each COUNT once, in order, within a
window. The code does not implement it: a crossing message breaks it (see
the findings), and the decoder has no replay window at all. On the in-order
path of `nas_count_fifo`, the refinement would say only what
`FreshMessageAccepted` already says, so no abstract module was written.

## 3. Runs

Pass runs (`MCHssAir`, `SqnWidth = 8`):

| Run | Setup | Checks |
|---|---|---|
| `hss_air_seq` | 1 thread, all four subscribers, resync good/forged, pool of 3, `MaxRequests = 4`, refill 9 | `TypeOK`, `NoVectorReuse`, `PoolVectorsDeliveredOnce`, `SqnAdvance`, `AnswerEventually`, `AirRefinement` |
| `hss_air_shared` | 2 threads in one process, local + remote with a pool of 1, `MaxRequests = 3` | `TypeOK`, `PoolVectorsDeliveredOnce`, `AnswerEventually` |
| `hss_air_faults` | 1 thread, every round-trip may fail, refill 2, `MaxRequests = 3` | `TypeOK`, `AnswerEventually` |

What the pass runs show:
- **`hss_air_seq`.** On one thread, vectors are never reused across the SQN
  wrap and resyncs. A pooled vector is answered exactly once. A completed AIR
  advances the SQN by exactly 32. Every AIR is answered unless the process
  has crashed on the emptied pool (the fourth AIR for `imsiR`). The handler
  implements `AbstractAir`: the crash only stops it, which the abstract
  service allows.
- **`hss_air_shared`.** Because `db_lock` is held across find and `$pop`, the
  dequeue is atomic among threads of one process, and no thread of a running
  process waits on the lock forever. When one thread crashes the process on
  the emptied pool, the other thread's AIR is lost with it.
- **`hss_air_faults`.** `db_lock` is released on every error path. `TypeOK`
  ties the lock to the two intermediate program counters, so a leak shows up
  as a violation. Every AIR of a running process is still answered.

Violation runs. Each checks one property that the spec or the code's own
comments state, and TLC finds it violated. `PROJECT.json` ("findings") gives
the details.

| Run | Property | What the code does |
|---|---|---|
| `hss_air_lost_update` | `NoVectorReuse` (spec 8.5) | two threads of one process read the same SQN and answer the same vector |
| `hss_air_two_processes` | `PoolVectorsDeliveredOnce` | two processes both read the head before either pops |
| `hss_air_failure_answer` | `NoSuccessAfterFailure` (spec 5) | failed fetch/push/pop ignored, success answered |
| `hss_air_empty_pool` | `EmptyPoolAnswered` (spec 4.4, 7: answer 4181) | the second AIR of a remote subscriber with a one-vector pool crashes the HSS (`hss-context.c:357`) and is never answered |

Five more defects were found while writing `HssAir`. Each is visible in a
single sequential AIR, so a unit test reaches it and there is no run for it.
`PROJECT.json` lists them as hazards:
- **Wrong RAND stored.** `hss_db_write_additional_vectors` stores the
  hex-encoded bytes of libc `rand()` as the "rand" of each pushed vector
  (`hss-context.c:516`).
- **Pool grows without bound.** The local pool grows by nine entries per AIR,
  and its SQNs are out of order after a resync (`hss-context.c:481`). This is
  against spec 8.4.
- **Pool popped before the MAC check.** The remote pool is popped before the
  resync MAC check, so a forged resync loses a vector (`hss-fd-path.c:126`).
- **Wrong KASME input.** KASME is derived with the User-Name bytes as the
  PLMN id (`hss-fd-path.c:132`).
- **Stale AUTN after resync.** After a good resync the answer carries the
  fresh RAND but the AUTN built from the old RAND and SQN
  (`hss-fd-path.c:148`).

Every property of every pass run has a seeded fault in `HssAir` that makes
TLC report it violated under that run's configuration. The seeded faults
appear in `PROJECT.json` ("mutants"):
- a missing unlock after the `$pop` (breaks `TypeOK`, and `AnswerEventually`
  in `hss_air_seq` and `hss_air_shared`);
- a resync that keeps the old RAND;
- `$pop 1` instead of `$pop -1`;
- a missing `$bit`;
- an `$inc` outside the lock;
- a `$pop` on a wrong field;
- a leak on the `$bit` error path (breaks `TypeOK` and `AnswerEventually` in
  `hss_air_faults`);
- an answer step that sends nothing (breaks `AirRefinement`).

NAS COUNT runs (`NasCount`; start COUNTs 0, 250 and 2^24 - 2; `dl_count`
0 or 2^24 - 1; gaps 1, 31, 33 and 200; three uplink messages; two Security
Mode Commands in `nas_count_fifo`, one in `nas_count_crossing`):

| Run | Expect | Checks |
|---|---|---|
| `nas_count_fifo` | pass | `TypeOK`, `FreshMessageAccepted`, `UlCountMonotonic` |
| `nas_count_crossing` | violation | `FreshMessageAccepted`: an old-context message decoded after the SMC fails its MAC but moves `ul_count`; with the SECURITY MODE COMPLETE lost, the UE's next genuine message is rejected |

What the NAS runs show:
- **Estimation is right when every message is genuine.** On an in-order
  path, estimation is exact across the 32 and 256 boundaries and the
  overflow wraps, for any loss pattern of the gaps used.
- **It is not robust.** A message that fails verification still overwrites
  `ul_count`. In the `nas_count_crossing` trace the UE sends an old-context
  message, the MME sends the Security Mode Command and then decodes that
  message, which fails its MAC and sets `ul_count.sqn` to 30. The UE's
  SECURITY MODE COMPLETE is lost; its new-context header would have zeroed
  `ul_count` again (`nas-security.c:181`). The UE's next message, COUNT 1 of
  the new context, is estimated with overflow 1 and rejected.
- The decoder has no replay window (`nas-security.c:202`): a copy of the
  last accepted message is estimated at the same COUNT and verifies again.
  That is the design of this decoder, not a state a model run adds anything
  to, so no run re-injects messages.

The seeded faults for the NAS runs are:
- a missing 5-bit carry;
- an unmasked `dl_count`;
- a dropped new-context test in the encoder.

S11 runs (`MCMmeGtp`):

| Run | Expect | Setup | Checks |
|---|---|---|---|
| `mme_gtp_delete_all` | violation | one teardown, no faults | `DeleteAllTerminates` |
| `mme_gtp_unknown_sgw` | violation | one datagram from a stranger address | `UnknownSgwDropped` |

What the S11 runs show:
- **An unknown sender kills the MME** (`mme-gtp-path.c:58`). The callback
  logs "Unknown SGW" and calls `ogs_pkbuf_free(e->pkbuf)`, but `e` is only
  created further down: the NULL dereference ends the process, and the
  received buffer is never freed.
- **The delete-all loop does not return** (`mme-gtp-path.c:275`). Each
  iteration re-reads `mme_sess_first`. Sending a Delete-Session-Request does
  not remove the session, and skipping a disconnecting one does not either.
  Such a session is read again forever, so the only event thread spins. A
  unit test with one session and no S1-U path does not see this.

There is no pass run for `MmeGtp`. Its earlier one checked a buffer count
that holds by the shape of the callback and a flag that restates the guard
of `mme_gtp_send_delete_all_sessions`; neither said anything a reviewer of
this file would argue about.

ULR run (`MCHssUlr`):

| Run | Expect | Checks |
|---|---|---|
| `hss_ulr_profile` | pass | `TypeOK`, `UlaFaithful` over 195,315 documents, with and without `SKIP_SUBSCRIBER_DATA` |

What it shows: for every document and every order of address keys, each
success answer agrees with the reference.

Three defects of the same code were found while modelling it. Each shows up
in one ULR on one document, so a unit test reaches it and there is no run:
- **The result follows the last address parse** (`hss-context.c:958`). `rv`
  is overwritten by every `ogs_ipsubnet`. If the last address walked does not
  parse, a stored subscriber is answered `USER_UNKNOWN`. A bad address
  followed by a good one is silently dropped instead.
- **AMBR wraps at 4 Gbit/s** (`hss-fd-path.c:486`). A rate of 4194304 kb/s or
  more is answered mod 2^32 bit/s.
- **Too many PDNs abort the HSS** (`hss-context.c:883`). A document with more
  than `OGS_MAX_NUM_OF_SESS` PDNs fails an assert on every ULR.

The seeded faults are:
- a Context-Identifier from the 0-based index;
- a UE address that sets the paa type to its own family, dropping the other.

### Bounds

- **SQN width.** 8 bits make `imsiB` (SQN 224) wrap on its first AIR. The
  arithmetic that matters is kept: +32 per AIR, +33 on resync, and the mask.
- **Requests.** Four AIRs reach:
  - every handler path on one thread;
  - an emptied pool, and the crash, after three pooled vectors;
  - a second resync on one subscriber.
- **Threads and processes.** Two threads and two processes are enough for
  every interleaving of two AIRs on one document.
- **Refill count.** `hss_air_faults` uses `RefillCount = 2`. The push loop
  behaves the same for any count, and 2 already has every subset of partial
  failures. `hss_air_seq` uses the code's 9.
- **RAND values.** `Rands` has 16 values, more than the five provisioned
  plus two fresh ones per AIR.
- **NAS gaps and start values.** The gaps reach every boundary:
  - gap 31 is the largest a SERVICE REQUEST may skip;
  - gap 33 crosses a 32 boundary;
  - gap 200 is a large 8-bit step.

  The start values put the first message next to the 8-bit, 16-bit and
  24-bit wraps. Three messages are enough to wrap and then go on.
  `nas_count_fifo` allows two Security Mode Commands, so the second one
  re-keys a context that has already carried messages. Four messages with
  two commands take more than four minutes to check.

- **S11 sizes.** One datagram is enough for the unknown-sender crash. Three
  sessions cover each branch of the delete-all loop: S1-U, S1-U with a
  disconnecting bearer, and no S1-U. Transaction counts saturate at 2,
  because only whether a transaction is open matters here.

- **ULR documents.** Two PDNs show Context-Identifiers beyond the first,
  and `rv` carried from one PDN to the next. Two address entries give every
  order of `addr`/`addr6`. The stored PDN types are the three that spec §3
  allows. Rates stay below 2^22 kb/s so that the reference can state the
  bit/s value (see the AMBR defect above).

## 4. Not modelled

- **MILENAGE and HMAC-SHA256 arithmetic.** A vector is identified by its
  inputs, which is enough to tell vectors apart. Determinism (spec 8.1) is
  assumed.
- **Diameter AVP encoding and freeDiameter internals.** The answer is a
  record of IMSI, result code, RAND and vector.
- **HSS context, configuration and Diameter registration.**
  - `hss_context_init` and `hss_context_final` only create and destroy
    `db_lock`.
  - `hss_db_init` and `hss_db_final` open and close the collection.
  - `hss_fd_init` and `hss_fd_final` register and unregister the dispatch
    callbacks.

  None of these runs concurrently with anything. `hss_context_parse_config`
  walks the YAML tree once. It could be checked against spec 157 as a pure
  operator. It is not modelled, for two reasons:
  - spec 11 puts the YAML loader out of scope;
  - the project keeps its runs for the handlers with concurrency or a
    defect.

  Its two defects are listed as hazards:
  - unbounded appends to `ext[]` and `conn[]` (`hss-context.c:182`, `:236`);
  - a port taken mod 2^16 (`hss-context.c:221`).
- **The Diameter statistics counter** (`nb_echoed`) of the ULR handler.
- **PFCP socket I/O and the S1AP ASN.1 codec.** They have no state of their
  own.
- **`mme_gtp_open` and `mme_gtp_close`.** Socket setup at start and stop.
- **The S11 handler (`mme-s11-handler.c`).** It is not in the modelled
  sources, so it appears only as the `Dispatch` environment action.
