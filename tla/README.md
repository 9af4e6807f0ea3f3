# RFed in TLA+

A TLA+ development of `rfed`, the federation daemon of this repository, and of
the parts of it where the order of steps decides whether a message arrives:
what it promises, the model-checked state machines of its components, and
machine-checked proofs about them.  Paths below are relative to the repository.

Contents: [the system](#1-the-system), [the modules](#2-the-modules) and how
they correspond to the code, [the runs](#3-the-runs), [fairness](#4-fairness),
[the proofs](#5-the-proofs), [what the checks found](#6-what-the-checks-found),
[what is abstracted or left out](#7-what-is-abstracted-or-left-out),
[the plan](#8-the-plan).

## 1. The system

`rfed` is a Reticulum node.  Clients subscribe to channels, publish blobs to
them, bind links and streams to be pushed to, and pull what they missed; other
nodes federate blobs, back up each other's subscriptions and exchange LXMF
messages.  Two bridge daemons turn wakes into APNs and FCM notifications.

| Component | State | Operations | Hard behaviour | What makes it correct |
|---|---|---|---|---|
| Deferred queue (`deferred_queue.rs`, `store_db.rs`) | a FIFO bucket per subscriber, pages held by pulls, tickets in flight, SQLite rows | enqueue (three evictions, one refusal), take / settle a page, flush copies, confirm, release, expire, drain, load | pulls and flushes hold entries while verdicts are out; a write or its COMMIT fails; a crash between any two methods | no entry is lost unlogged or delivered after its proof; table = memory; limits; order |
| Live push outcome (`stream_registry.rs`, `handoff.rs`) | four atomics shared by the receipts of one push | dispatch, delivery / timeout callback per link, late proof | callbacks run concurrently with the dispatch and each other, lock-free | one verdict; handed on at most once, and only if nobody proved it on time |
| Link sessions, stream registries (`link_session.rs`, `stream_registry.rs`) | one session per subscriber and per delivery hash; streams per channel | configure, evict others, remove, dispatch, request with response / failure callbacks | an old link's open or close arrives after the new link's; callback set after the link is gone | one live route per subscriber; no session of a dead link is used for good |
| Fan-out, hand-off (`fanout.rs`, `handoff.rs`) | a plan per post, pushes awaiting verdicts | tiers link, stream, packet; hand-off; wake; announce flush; drop of expired | verdicts race announces, pulls, expiry and restarts | a planned post is received, queued, or logged; once |
| Subscriptions (`subscription.rs`) | (subscriber, channel, owner) rows | subscribe, renew, expire, unsubscribe, adopt, prune | a backup row and a local row of one subscriber; renewal races expiry | a renewed row is not expired; local wins over backup |
| Backup chain (`destinations.rs` 1514–2235, 2772) | pending pushes, adopted pairs | push to a backup, adopt, deliver for an absent owner, extend, prune | owner returns while the backup delivers | someone serves a subscriber whose owner is gone |
| Blob store, federation sync (`blob_store.rs`, `sync.rs`) | blobs, heard peers, failure counts, one link per peer | store, evict, manifest, offer, gap, get | callbacks of old links, evicted blobs pulled again | a session ends; a blob comes in once |
| Distro registry (`distro.rs`) | members, announce store | register, unregister, announce, fan-out | a member leaves during the fan-out | as the fan-out |
| Notify registry, relays (`notify/`) | hooks per subscriber | register, rekey, clear, dispatch | rekey at every start | no hook lost or doubled |
| LXMF propagation (`lxmf_propagation.rs`) | messages with per-peer marks, peers and their session, budget | ingest, offer, GET, peer sync, evict, save / load | every step of a sync is a callback; links re-open unasked; files vanish | marked handled only if the peer has it; a session ends |
| Destinations and requests (`destinations.rs`) | none of its own: the locks | request handlers | lock order; state read before an unlock | answers match what was done |
| Announces, channel naming (`announce.rs`, `channel.rs`) | – | pure | – | – |
| Startup, configuration (`main.rs`, `config.rs`, `ini_config.rs`) | – | parse, start the ticks | – | – |
| APNs, FCM bridges | token table, retries | register, wake | a token goes while a wake is retried | a dead token is removed, a live one is not |
| Build stamp, utilities, scripts | – | – | – | – |

How they interact.  `FedNode` (destinations.rs) owns the tables behind one
mutex; the deferred queue, the blob store, the hook registry and the
propagation node have mutexes of their own.  A post comes in as a packet or a
request, a *plan* is made under the node's lock and carried out on a thread
that takes the locks one at a time.  Reticulum calls back on its own threads
with deliveries, timeouts, responses, link events and announces.  The hourly
eviction and the ticks are threads of `main.rs`.  So every state a thread read
before it let go of a lock may have changed when it acts; those are most of
the hazards listed in `PROJECT.json`.

## 2. The modules

| Module | Models | Shape |
|---|---|---|
| `DeferredQueue` | the queue and its table | a method is an action; `Restart` is `load` |
| `DeferredQueue_proofs` | | 9 theorems |
| `PushOutcome` | one live push on any set of links | an atomic operation is an action |
| `PushOutcome_proofs` | | 7 theorems |
| `DeliveryPromise` | abstract: the fate of a (subscriber, blob) pair | none → owed → waiting → received / dropped; a crash loses only what is owed |
| `Fanout` | the way of a post to each subscriber, composed with the queue (`Q == INSTANCE DeferredQueue`) | what a thread does under one lock is an action |
| `Fanout_proofs` | | 8 theorems, the refinement of `DeliveryPromise` among them |
| `BackupChain` | the subscription tables and the chain of custody of several nodes | a request, a callback or a tick is an action |
| `LinkSession` | the three registries of bound links, the handlers that bind, the closed callbacks, a push over `rfed.link` | a handler is three actions: judge, bind, watch |
| `LinkSession_proofs` | | 3 theorems |
| `FedSync` | federation sync between nodes and the blob store | a callback is an action |
| `PeerSync` | one propagation peer's outbound sync, the worker, AppLinks | a stretch of a handler under the node's lock is an action |
| `PeerSync_proofs` | | 7 theorems; 3 of `InboundSync` |
| `SyncBudget` | the sending budget of all peers' sessions, the choice of the next peer | messages are counted, not told apart |
| `InboundSync` | the receiving side: offers, keys, Resources, stamps | each taking of the lock of `InboundSyncs` is an action |
| `PeerMarks` | abstract: each peer hash has its own marks on the held messages, peered or not | the reference's `handled_peers` / `unhandled_peers` |
| `PropStore` | the message store, marks by slot, uploads, eviction, the saved files | one message of a batch is an action |
| `PropStore_proofs` | | 3 theorems, the refinement of `PeerMarks` among them; 2 of `BackupChain` |
| `Distro` | the registry of one distro's devices, the announce store, ingest, fan-out and hand-off | one device of a fan-out is an action |
| `Distro_proofs` | | 3 theorems; 2 of `FedSync` |
| `WakePath` | notify registrations, the wake to the relay, the relay's tokens | packets arrive when they arrive |
| `WakePath_proofs` | | 4 theorems; 2 of `SyncBudget` |
| `…MC` | TLC instances of the module | constants as model values, scenes |

How they divide the system: a push's outcome on several links is `PushOutcome`'s;
`Fanout` and `Distro` take its verdict as one step and hand off to the queue,
`DeferredQueue`'s own in `Fanout`, a sequence per device in `Distro`.
`LinkSession` says which links a push finds.  `BackupChain` says who serves a
subscriber, `FedSync` which blobs a node has to serve.  The propagation node is
cut along its data: `PeerSync` the session of one peer, `SyncBudget` what the
sessions share, `InboundSync` what comes in, `PropStore` what is kept.
`WakePath` begins where a hand-off wakes a device.

**DeferredQueue.**  `queue` is all buckets; an entry's `place` is its position
(a bucket's `VecDeque` is the order of its places).  `held` holds the entries in
pages, `in_flight` the tickets a flush sent, `rows` the table, with SQLite's
reuse of the largest row id.  `Enqueue` composes the store's write (`Write`,
`WriteOutcomes`) with each eviction in the order of the code.  `posts`,
`delivered`, `dropped` and `unsaved` are history: `posts` is the clock behind
`enqueued_at`.  `flown` says whose verdicts may still come; it allows more
verdicts than `PushOutcome` gives (both a confirm and a release of one copy).

**PushOutcome.**  `pc` places each thread: the dispatch, and per link the
delivery and the timeout callback.  `step` is how far `push_on_links` is with a
link (sent, counted, callbacks tied), `receipt` what Transport holds.  The
labels `prove`, `conclude`, `any sent?`, `proved?`, `hand off` are the atomic
operations of `prove_on_time`, `proved_late` and `conclude_one`.
`await_packet_proof` in `Required` mode is the instance with one link.

**Fanout.**  `todo` is the plan with each subscriber's tier, `pushes` those
awaiting a verdict, `flushing` the copies of announce flushes, `wakes` what was
queued and is to be woken.  `subscribed`/`stale` is the subscription table as
the plan reads it.  `content` says which (subscriber, blob) an entry of the
queue is for.  `HandOff` is the queue's own `Enqueue`.  `Fate` is the
refinement mapping to `DeliveryPromise`, checked as the property `PromiseKept`.

**BackupChain.**  `own` and `backup` are the rows of each node's table,
`pending` its `pending_backup_pushes`, `pushes` the batches in a link's
callbacks, `silence` how long ago each peer was heard, `selected` the backups
it chose itself.  A push has its link established (`Established`), which sends
the request with the callbacks that queue its pairs again (`BackupPush`,
`PushFailed`), or never (`PushLost`).  `Tick` is the whole of
`backup_delivery_tick` and `tick_backup_delivery`: prune, choose the offline
rows, adopt, extend, push.  What the queue holds for a subscriber when the tick
looks is a choice.  `pending` is the set of the pairs in the code's list, whose
repetitions count against its cap: so a list that holds anything may be full
(`queue_push`).

**LinkSession.**  `opens` are the handlers at work, `sessions` the entries of
`rfed.link`, the channel streams and the propagation streams (told apart by
`aspect`, the destination a link was opened to), `callback` the links with a
closed callback to run.  `evict_others` removes a whole session, with its other
binding: a link that had a channel and a delivery bound loses both when another
link binds one of them for the device.

**FedSync.**  A session is a link and how far its callbacks are; `sync_links`
is the table that keeps a peer from being asked twice.  `unsent` counts how
often a blob was stored and has yet to go out to the subscribers.  `Static` and
`Announced` say which peers a node may know.

**PeerSync.**  The record `PropPeer` is a set of scalars; `session` is
`sync_session`.  `key` folds `peering_key`, `key_reground_at_cost` and
`key_refused_at_cost`; `postponed` folds `next_sync_attempt` and
`throttled_until`.  `inbox` is the worker's channel: events run in the order
they came, each to its end (`job` is what is left of it between two
acquisitions of the lock).  `handled` and `unhandled` are the peer's marks on
the stored messages.  AppLinks is external and modelled from what the code and
its comments say of it: attempts outlive the session that made them, the
newest link is held, a closed link may be opened again unasked, DISCONNECTED is
reported for any link to a registered destination.  Requests and Resources
conclude exactly once, at any time; a Resource that failed may have arrived.

**SyncBudget.**  `outbound_sends` says how many messages were handed to links
how long ago, in ticks; `budget_reserved`, `turn_sent` and `batch` are each
session's.  `select_sync_peer` and `contends_for_sync` are the node's choice,
`last_turn` each peer's place in it.  `handed` is what `outbound_sends` would be
if no restart forgot it.

**InboundSync.**  `offer` is how far the handler of a link's offer is, `batch`
the link's Resource; `validated`, `accepted`, `validating` and `sync_links` are
the fields of `InboundSyncs` and what stands beside them.  A link's closed
callback runs at any time after the close; `clean_links` is the sweep.

**PropStore.**  `entries` is the set of stored messages and `before` their
order, the rows' and, after a start, that of the received times.  Marks are by slot number (`slot`, `departed`), as in
`PropagationEntries`; `ByHash` maps them to `PeerMarks`, checked as the property
`MarksByHash`.  `batch` is the ingest of an upload with the messages left and the
one being delivered; `file` is what is on disk; `CleanExit` saves and
`Crash` does not, both start the node again (`Start`).

**Distro.**  An arrival is one way a message reaches the node (a client, a peer
that claims a stamp, the federation).  `job`, `todo` and `outcome` are its
ingest and fan-out.  `AnnounceJudged` and `AnnounceStored` are the two halves of
the announce handler, between which a device may leave.

**WakePath.**  A row's `hashed` says how often its key was hashed.  `path` and
`key` are Transport's route to the relay and the identity recalled for it;
`inbox` the registrations that reached the bridge, numbered as they arrived,
served in order by apns-bridge and on threads by fcm-bridge; `sends` the wakes
at a gateway.  A registration is one write, or a database error, which leaves
the older row (`try_handle_register`).  `standing` is history: what arrived,
without what the database did not write and what a gateway's refusal took back.

Definitions preceded by `BUG:` are the plausible mistakes each property is
tested against; the specifications do not use them.

## 3. The runs

| Run | Instance | Distinct states | Shows |
|---|---|---|---|
| `deferred_queue` | 2 subscribers (limits 2 and 3), 2 routing hashes, global limit 2, 3 posts, writes saved or refused | 541,064 | one entry per ticket, restart exactness, accounting, no delivery after proof, limits, order, own rows |
| `push_outcome` | 3 links | 102,133 | exact count, one next route, handed off only unproven, one proved hook; every push is decided |
| `fanout` | 1 subscriber, 1 channel, 2 blobs, limits 2 and 1 | 167,895 | confirmed is received, wakes are for something to pull, refinement of `DeliveryPromise`, every push settles |
| `peer_sync` | 2 messages, one over the limit, 2 link attempts | 812,277 | handled is settled, a number names its session, every session ends |
| `backup_chain` | 3 nodes in a circle, 1 device, 1 channel, 1 push out | 231,384 | a pair is kept until taken; the chain retracts |
| `link_session` | 3 links, 2 of them to one destination, 2 devices, three layouts | 1,019,212 | acknowledged is not deferred, a live session goes only for its own device's other link, a closed link is forgotten |
| `fed_sync` | 2 nodes, 2 blobs, room for 1 at the publisher, limits of 1 | 79,054 | out once per stay; gaps close |
| `inbound_sync` | 2 links, 2 senders, three configurations, one inbound sync at a time | 77,170 | nothing is left of a closed link, a batch is judged by its key, the busy marks end |
| `prop_store` | 2 messages, 2 peers (one static), two scenes | 574,008 | refinement of `PeerMarks`; one wake for a message |
| `distro` | 2 devices, 3 arrivals, three scenes | 80,998 | announce only with a device, bounded un-woken backlog, every device settles |
| `wake_path` | 2 subscribers, 2 tokens, 3 registrations, three scenes | 1,462,985 | keys hashed once, the route comes back, purges deserved, the last token stands |
| `sync_budget` | 2 peers, budget 2, a window of 2 ticks, offers of 2, one restart | 200,280 | the budget holds in every window; turns come |

Each run takes between some seconds and two and a half minutes.  `TypeOK` of each
module is a check of the model itself: name it under `INVARIANTS` of the run's
configuration, where it passes.  For every module that states one it is a
theorem: `DeferredQueue`, `PushOutcome`, `LinkSession`, `Fanout` and `WakePath`
(`TypeCorrect`), `PeerSync` (`SyncTypeCorrect`), `InboundSync`
(`InboundTypeCorrect`), `PropStore` (`StoreTypeCorrect`), `BackupChain`
(`ChainTypeCorrect`), `Distro` (`DistroTypeCorrect`), `FedSync` (`FedTypeCorrect`)
and `SyncBudget` (`BudgetTypeCorrect`).

Bounds, and why they are enough.

* Queue: three posts with a global limit of 2 and a per-subscriber limit of 2
  reach each of the three evictions and the refusal, with a page and a flush
  out; two tiers make the global limit bite before one subscriber's own.
  `MaxPages` bounds pages per process (a restart resets it), `OpenPages` = 1 is
  the client that waits for its page; `MaxUnsaved` lets one post's write fail,
  after which the statements about the table except that post.  The theorems
  hold without these bounds.
* Push: three links let one be proved, one time out and one fail to send,
  each before and after the others.  The theorems hold for any number.
* Fan-out: two blobs with one global place make the queue evict and refuse
  while a push, a flush and a pull are out.  One subscriber is enough for what
  a pair's copy can do; buckets of several subscribers meet only in the queue,
  which has its own run and proofs.  Failing writes are left to the queue's run
  (`WriteOutcomes = {"saved"}`).
* Backup chain: a → b → c → one of the others make a circle, the shape in which
  nodes could hold a pair for one another for ever.  `Offline` = 1 and `Ttl` = 2
  keep the code's order of the two periods (`Ttl >= 2 * Offline` is assumed).
  Retracting is each pair's own matter, and one push out at a time has every
  way to end (`MostPushes` bounds the pushes out when a tick finds a path).
  What becomes of a batch is for `BackupChainPush.cfg`, below: two pairs, alone
  and together, a cap of 1 that a requeue overruns as in the code, a pair the
  backup may not hold, and two pushes, so that a pair can be in one that fails
  while another of it is taken.  `KeptTillTaken` holds without these bounds.
* Link sessions: two opens on one link let it bind again after it was evicted,
  bind its second half, or be refused; two devices show whose sessions a bind
  evicts.  Two links share each destination in turn, a third is beside them.
* Federation: the publisher's one place has it evict the first blob for the
  second; limits of 1 truncate each answer.  `MaxLinks` = 2 is a link and one
  whose callback is late.
* Peer sync: two messages make partial offers, partial wants, partly read
  batches and a next batch; two attempts make a session's callbacks arrive in
  the next one's time.  `MaxLinks` acts as a backoff that does not end;
  `MaxPeerings` = 1 is a peer that is not removed and added again, which
  `PeerSyncAgain.cfg` allows.
* Budget: two peers on two messages contend as soon as both lack two; the
  window of two ticks lets a send age inside it.
* Inbound: each configuration puts both links in one another's way (one slot
  for transfers, sequential validation, the static peer that bypasses it).
* Store: one message brought twice and two messages for one place are the two
  scenes; two peers make a slot change hands.
* Distro, wakes: each scene bounds the clients' requests, named in the MC module.
  Three registrations are one written, one the database fails and one still to
  come, or a purge between two.

`CHECK_DEADLOCK FALSE` is set where a system whose bounds are spent has nothing
left to do (a closed link, an idle node, requests used up); that nothing stops
half way is what the liveness properties say.

Each property of a run has a mutant (`PROJECT.json`, "mutants"): one mapped
definition replaced by a plausible mistake, which the run then reports.

Beside the runs stand configurations that show what the code does *not* keep
([section 6](#6-what-the-checks-found)), `BackupChainPush.cfg`, where
`KeptUntilTaken` holds of two pairs and two pushes (476,496 states, half a
minute), and `PeerSyncLinks.cfg`, one message and
three link attempts (9.6 million states, two minutes), which passes with
`LossIsReported`, `NoUnusedLink` and `EveryWaitIsAnswered`, each a theorem too: a
session never misses the loss of its link, no link stays up unused, and every
state a session can be in has an event coming.  `SyncBudget` with
a budget of 3 passes too
(548,934 states, three and a half minutes).

## 4. Fairness

Never assumed: that a client asks, pulls or announces, that a proof or a
message arrives, that a node or a link fails.

* `PushOutcome`: each thread's steps run on, and Transport's job loop times out
  every receipt that is not proved.
* `Fanout`, `Distro`: fan-out threads run on; each request, receipt and packet
  proof gets its response or its timeout, as Reticulum's receipts do.
* `PeerSync`: the worker thread runs on; a link attempt comes up or fails, a
  request is answered or fails, a Resource concludes: each has a timeout of its
  own in Reticulum (lxmf_propagation.rs 5638–5645, 5499).
* `BackupChain`: time passes and the tick runs.  That the owners are heard is
  the hypothesis of `ChainRetracts`.
* `LinkSession`: handlers and callbacks run, a request is answered or fails.
* `FedSync`: ticks, callbacks and backoffs run.  Strongly fair are the steps
  that need the network: a peer tried again and again is reached at last, and a
  gap asked for hour after hour gets blobs through.  That the peer keeps the
  blob and is known is the hypothesis of `GapCloses`.
* `InboundSync`: a handler and an ingest run to their end though the lock they
  wait for is taken and given back meanwhile (hence strong fairness); transfers
  and callbacks end.
* `SyncBudget`: the tick, time and backoffs; a session's step is strongly fair
  since the worker takes its events in the order they came, so that other
  sessions' events only delay it.
* `WakePath`: a path request is answered while the relay is on the network.
* `DeferredQueue`, `PropStore`: safety only, no fairness.

`TurnComes` has the hypothesis that the budget binds whenever a peer is chosen
or goes on, for only then does the node use its turns; when it does not, the
reference's choice at random rules, which is fair in probability only.

## 5. The proofs

Checked by TLAPS for every value of the constants.  Every safety invariant and
every action property that a run checks is a theorem, and so are the two
refinements.  Four modules share a proof module with another one, which extends
both: `FedSync` in `Distro_proofs`, `InboundSync` in `PeerSync_proofs`,
`BackupChain` in `PropStore_proofs`, `SyncBudget` in `WakePath_proofs`.  That is why
the names every module has bear a prefix in these four (`FedInit`, `ChainSpec`);
nothing in the proofs joins the two.

**DeferredQueue_proofs**, in three layers.

1. `TypeInv` (`TypeOK`, and that posts in the history are past): `TypeCorrect`.
2. `StoreInv` relates memory, pages, table and history.  None of the listed
   invariants is inductive alone: `DeliveredStaysGone` needs that a held page's
   entry has its row, that needs that ids of stored rows are distinct, and a
   restart needs that the rows carry the entries' subscriber, routing and time.
   Each method is shown to be one of four kinds (`Leaves`, `Moves`, `Admits`,
   refuse) or `Restart`, and each kind to preserve `StoreInv`.  From it follow
   `RestartIsExact`, `NothingLostInSilence`, `NeverAgainAfterProof` and
   `OnlyOwnRowsDeleted`.
   Assumption: `"uncommitted" \notin WriteOutcomes`, without which they are
   false (`DeferredQueueCommit.cfg`).
   The part that concerns tickets and places only, `NamesInv`, survives even a
   failed COMMIT: `VerdictsHitTheirEntry` has no assumption.
3. `SizeInv` adds the size of what is stored: `GlobalLimitHolds`.  `OrderInv`
   adds how places and pages lie to each other: `OnePullKeepsOrder`, under
   `OpenPages <= 1`, without which it is false (`DeferredQueueTwoPages.cfg`).

**Fanout_proofs.**  `Fanout` composes the fan-out with the queue, so the proof
takes the queue's results as they are: `QP == INSTANCE DeferredQueue_proofs WITH
Routings <- Channels`, and a lemma that the parameters meet the queue's
assumptions.  Each step of `Fanout` is shown to leave the queue alone or to be
one of its methods (`StepIsQueueStep`), so that the queue's invariants are
invariants of the composition.  `RouteInv` is the fan-out's own: a pair is planned
in one tier, is handed to the queue once, and what is planned, handed over and
lost are apart.  On these stand

* `DeliveredMeansReceived`: what a step adds to the delivered posts is of a page
  or a copy that arrived, and a post keeps its pair (`StoredIsPast`);
* `WakesAreForWaiting`: a hand-off admits the post or drops it before its wake is
  due, and a flush copy still in the bucket under its ticket is the entry of its
  own post (`NamesInv`, so with failed COMMITs too);
* `FanoutKeepsPromise`, the refinement: `Fate` is read off disjoint sets, which
  is `RouteInv` again (`FateIsRead`); every step but `Restart` is `Progress` and
  maps to `Deliver` or a stutter, `Restart` to `Crash`, for which the queue's
  `StoreInv` is needed: what waits comes back.  Assumption: `WriteOutcomes
  \subseteq {"saved"}`, the run's own.  A post whose write fails is in memory
  alone, and a stop of the process takes it while it waits, which the promise
  excludes;
* `SavedKeepPromise`: where the table refuses writes, the same steps keep the
  promise for every pair none of whose own writes failed (`Doubtful` are the
  others).  It is the same argument pair by pair: `Handed` is still `Queued`,
  `received` and `Dropped`, apart from `Doubtful`, and a restart changes `Queued`
  within `Doubtful` only.  Assumption: `"uncommitted" \notin WriteOutcomes`, as for
  `StoreInv`, and needed: after a failed COMMIT the removal of one post deletes the
  row of the next, and a restart then takes that one, none of whose own writes
  failed.  No run checks `PromiseKeptIfSaved`; with `WriteOutcomes = {"saved",
  "refused"}` and `MaxUnsaved = 1` in `Fanout.cfg`, and without fairness, TLC finds
  it to hold over 4,901,037 states in four minutes.  With `{"saved",
  "uncommitted"}` TLC finds it violated once `GlobalLimit = 2`; a limit of 1 hides
  it, as two posts must be stored at a time;
* `RunningKeepsPromise`: what is left of the promise then, with no assumption.
  While the process runs, each pair goes only where the promise lets it, whatever
  becomes of the writes; only `Restart` is excepted.  The table does not come into
  it: each step of the queue is shown to keep, deliver or drop every stored post
  and to take in new ones only (`Accounts`), and what arrives to be of a pair that
  is owed, queued or dropped (`StepArrives`), for which a flush's copies must be of
  posts known since the process began (`CopiesKnown`).  With every write outcome,
  `GlobalLimit = 2` and `MaxUnsaved = 2` TLC finds no violation within 330 s
  (9.6 million states, up to depth 21, not all there are);
* `OneRouteOnly` and `NoFlightForgotten`, for every write outcome: a pair is in one
  tier or once in the queue (`RouteInv` with `OneEntryPerPost`); and a ticket
  marked in flight is that of a copy some flush still has to send, to release or
  to hear of, which is inductive as it stands.  TLC finds both to hold over
  2,845,737 states with `GlobalLimit = 2`;
* `TypeCorrect`: `FanoutInv` with the table (`TableTypes`), what a flush in hand is at
  (`FlushTypes`) and that wakes, debts and receipts are pairs of a subscriber and
  a blob there are (`PairSorts`).

**PushOutcome_proofs.**  `VerdictInvariant` says where each thread can be for
each state of its link, that `pending` counts exactly the receipts not
concluded and the dispatch's own, that at most one thread ever decides, and
what the hooks then are.  `TypeCorrect`, `PendingExact`, `HandedOnOnce`,
`HandedOnOnlyUnproven` and `ProvedOnce` follow.  Assumption: the set of links is
finite.

**PeerSync_proofs.**  What is marked must be traced through callbacks that
arrive in any order, so the invariant speaks of the numbers they bear
(`SyncInv`): no outstanding request, Resource, event or job bears a number above
the record's (`NumbersBelow`); a request or a Resource under the record's number
is of the offer or batch the record holds (`NumbersNamed`); an answer or outcome
under it tells the truth of that offer or batch (`AnswersTell`); under one number
one Resource is sent, after the answer (`OneResource`).  Three lemmas dispose of
the steps that leave the session alone (`QuietStep`), that leave it awaiting
nothing (`ElsewhereStep`) and that happen without a peer (`PeerlessStep`); what
is left is the offer, its answer, the Resource and the peer's own steps.
`HandledIsSettled` and `NumberNamesTheSession` follow.  Assumption:
`MaxPeerings <= 1`.  A record made anew starts its numbers over, and
`PeerSyncAgain.cfg` shows callbacks of the old one finding the new.

What a session waits for holds without that assumption.  `TypeInv`
(`SyncTypeCorrect`) is proved part by part, each after a lemma on all a step can
do to that part: the marks (`StoreMoves`), AppLinks (`LinkMoves`), the record
(`RecordMoves`), the channel (`WorkerInbox`, `OthersInbox`).  `LinkInv` then says
more than that a loss is reported: a held link the session does not run on is
one whose *own* report waits, as the report of an earlier link is not news; and
where nothing is held or tried, a loss was.  Its first part, that a session's
destination is registered with AppLinks, is what makes AppLinks report at all.
`AnswerInv` says which job, request, Resource or event bears the session's
number in each state; that a conclusion under it comes only once there is a
batch is needed, as one without a batch is dropped.  `LossIsTold`,
`NoLinkLingers` and `NoWaitHangs` follow.  That what is coming does come is the
fairness of `SessionEnds`, which TLC checks.

`EntriesGoWithTheLink` and `PresentedKeyCounts` (of `InboundSync`): of a closed link
there are entries only while a handler or an ingest is at work that will take
them back (`EntriesHeld`), which is what lets `forget_link` spare the entry of a
batch that is being validated; a batch carries the key it was advertised with,
so that no later loss of the entry refuses it.  Steps on one link touch one
link's part of the invariant (`OneLink`).  `InboundTypeCorrect` adds the types; that
an entry which says VALIDATING has its batch is `EntriesHeld` again.

**PropStore_proofs.**  `Spec => MarksByHash`: each step of the store with slots
is a step of `PeerMarks`, or a stutter.  `MarkInv`: every mark is of a held
message and of the one peer whose slot it is (`Own`), a peered one or one that
left with marks.  A free slot exists by the pigeonhole principle (slots are as
many as peers, and those taken belong to distinct peers); at a start the records
are numbered one by one, an injection because a surjection between finite sets
of one size is one.  `FileInv` types what is on disk.  Assumption: the set of
peers is finite.

`RecipientWokenOnce` (`WokenInv`): a message whose recipient was woken has its id
among the processed, two uploads never deliver the same message, and what an
upload is about to deliver was not woken for; a start forgets the wakes whose ids
it does not find again.  `StoreTypeCorrect` takes the slots and marks from `MarkInv`
(`SlotsAreTyped`), the times from `WokenInv`, and adds that of two messages held
one was received first (`OrderInv`), which is what eviction goes by.

`KeptTillTaken` (of `BackupChain`): every action that does not end a push, nor is
a restart, is shown to leave each pair in hand: a pair moves from `pending` into
a push, and a push whose link comes up keeps its batch (`LinkUpLosesNothing`).
Of those that end one, a failed or unanswered request queues the pairs again; a
push the backup has answered leaves a fresh row of every pair it may hold
(`TakenHolds`); and what `PushLost` takes was never up.  `ChainTypeCorrect`
(`ChainInv`) has the types, that every write leaves a table one row of a pair and
owner, as it replaces the row there is, and that `resolve_backup` selects one
backup or none.

**LinkSession_proofs.**  `SessionInv`: a registry has one session for a link,
and two sessions of one registry never share a device, which is what
`evict_others` is for.  From it `PushInv`: at most one session of `rfed.link`
matches a push, so that one answer at most is awaited (`AckedIsNotDeferred`).
`LiveSessionStays` follows from what each step takes away, a bind the sessions
of the device it binds and no other (`TakenByBind`).  `TypeCorrect` is `SessionInv` with the sorts of
links and push (`LinkSorts`).

**Distro_proofs.**  `AnnounceHasDevice` is strengthened by what the announce
handler knows between its halves: the distro has a device, or its last one has
left meanwhile (`raced`).  `BacklogIsBounded`: with the sorts of the queue the
bound is inductive (`BacklogInv`), as it counts what is un-woken in the bucket: a
hand-off that does not push found fewer than the limit there, a pull only takes,
and what an unproved page puts back is what `returned` counts.  Assumption: the
limit is not 0.  `DistroTypeCorrect` adds that a message is queued for a device once
(`QueuedOnce`), in its bucket or its page: an arrival is handed off only while its
outcome at the device says it was not (`HandedOff`), and a fan-out serves only
devices nothing has come of (`Unserved`).  So a page and the bucket it was cut from
have nothing in common (`OnceCut`), and what comes back can be joined to it
(`OnceJoined`).  Assumption: the table of a scene lists devices.

`EachStayGoesOutOnce` (of `FedSync`): `unsent` is the number of sessions that bring a
blob and, when it was published there, one more (`Accounted`).  That a session's
step changes this by its own part needs that a session is known by its node and
link number, that what a store holds was published (so a publish always finds its
blob new) and that the set of sessions is finite (`FedSorts`).  The steps before
an answer change nothing of what is brought (`BringsTheSame`); an answer stores
exactly what it then brings, since it leaves out what is held.  `FedTypeCorrect`
(`FedLimits`) adds the types and the limits: a store takes in only what it lacks, so
that its index repeats nothing though sessions overlap (`StoreFits`), eviction
brings it within its limit (`EvictedFits`), and an answer is cut to what is left of the
hour (`AnswerWithinHour`).

**WakePath_proofs.**  `KeyedOnce` is `RowsInv`: a row hashed once is never taken
for one under an identity hash, as its owner would have to be registered under
the hash of its own hash.  `InboxInv` types the registrations under way and gives
`PurgeIsDeserved`.  `LastTokenStands` is about every moment, not only an empty
inbox, so `LastInv` also says where in the order of arrival everything is: the
inbox is sorted by number, and what apns-bridge has handled is older than all
that waits.  So what is handled next is the newest
handled (`HandledKeepsLast`), an arrival is not handled yet (`ArrivesKeepsLast`),
and a purge takes back all that was handled of its subscribers
(`AnswerKeepsLast`).  Assumption: a scene's rows
are hashed at most once and its gateways are known (`ScenesAssumption`).
`TypeCorrect` adds what waits at the node (`NodeTypes`) and that a token in the inbox
or the table is one of the device's (`TokenTypes`); a device has one token or more
(`TokensAssumption`).

`BudgetIsKept` (of `SyncBudget`): while the record of what was sent is younger
than the window, nothing is sent or reserved and what was handed out before the
restart ages away; from then on the record is all that was handed out
(`RecordTells`).  What was handed out and what is reserved together stay within
the budget (`WithinBudget`): an offer is cut to what is left, an answer and a
batch are within the reservation.  The sums are folds, so the module first proves
what a sum is: the fold's equation has a solution on a finite set, every solution
takes the elements in any order (`AnyOrder`), one changed value changes the sum by
the difference (`SumChanges`), and shifting by one place does not increase it
(`SumShifts`).  The library's induction theorems take an operator, which no
backend instantiates; the induction here is over *sets* of numbers (`Induction`),
from the least element of the complement.  Assumption: `ListsTwice = FALSE`, an
answer lists an offered id once; without it the property is false
([section 6](#6-what-the-checks-found)).

`BudgetTypeCorrect` needs one fact beside the types: what a peer was offered it
still lacks until it answers (`LackTypes`), so that an answer takes no more away
than there is.  It does not assume that an answer lists an id once.  The turns
are places among the peers (`TurnsArePlaces`), as many as there are.

Only model-checked: the ten liveness properties (`Decided`, `EveryPushSettles`,
`SessionEnds`, `ChainRetracts`, `ClosedIsForgotten`, `GapCloses`, `MarksEnd`,
`EveryDeviceSettles`, `RouteComesBack`, `TurnComes`), which are out of the prover's
reach, and the properties of the configurations beside the runs.

## 6. What the checks found

Each of these configurations ends in a counterexample (`tlc -config X.cfg` on the
MC module); the properties in brackets are the documents' words.

| Configuration | Finding |
|---|---|
| `DeferredQueueCommit` (`WritesOnlyOwnRows`) | A failed COMMIT leaves the entry with the row id of a rolled-back row; the next insert takes that id, and the first entry's removal deletes the second's row (deferred_queue.rs:426). `PromiseKeptIfSaved` of `Fanout` fails for the same reason with `GlobalLimit = 2` and `WriteOutcomes = {"saved", "uncommitted"}`. |
| `DeferredQueueEviction` (`EvictsOldest`) | A bucket at its limit evicts its front, which after an unproved page came back need not be its oldest entry, as the documents say (deferred_queue.rs:403). |
| `DeferredQueueTwoPages` (`FirstInFirstOut`) | Two unproved pages of one subscriber are put back on two threads, in either order (destinations.rs:230). |
| `FanoutRestart` (`NeverLost`) | A post is only in memory between its plan and its verdict; a stop of the process loses it (fanout.rs:104). |
| `FanoutExpiry` (`ExpiredHasNoPuller`) | The drop of what an expired subscription had queued also takes what was queued since the device subscribed again (fanout.rs:146). |
| `PeerSyncAgain` (`CallbacksFindNoPeer`) | A peer that denied access and announces again starts with session number 0 while callbacks of the old peering are still out; they find a peer after all, and once the numbers meet they count (lxmf_propagation.rs:1764).  With three attempts and two messages TLC also reaches the state where an old offer bears the new one's number (`NumberNamesTheSession`, about 5 minutes). |
| `BackupChainMoved` (`SubscribedIsPrimary`) | A device that subscribes at the node that backs up its old one is taken for subscribed already: no row of its own is made, the backup row stays suppressed while the old owner is up and goes with it (subscription.rs:192–236; SPEC.md:838–839). |
| `FedSyncLinks` (`OneLinkPerPeer`) | A late closed callback removes the entry of the peer's next link, and the tick opens a second one beside it (destinations.rs:1471; the comment at 1401). |
| `SyncBudget` with `ListsTwice = TRUE` (`BudgetKept`) | An answer that lists an offered id twice has it sent and counted twice, past the reservation (lxmf_propagation.rs:4758; 3605–3608). |

Seen while modelling, each allowed by its module and excepted by the property
it would break:

* Backup.  Pairs are pushed when subscribed or adopted and not again, though
  SPEC.md:1799 says "periodically".  The pairs of a push whose link is never
  established are gone (`PushLost`, the one loss `KeptUntilTaken` excepts; once
  the link was up they are not).  A requeued adopted pair is pushed under
  the node's own name.  `has_pending` asks per subscriber, so that while one
  channel waits in the queue the tick passes the subscriber's others over.
* Sessions.  Binding a delivery on a second link evicts the first link's
  channel binding too (`evict_others`), and the request of an old link, served
  late, wins over the newer one.
* Inbound.  Two batches of one sender that validate at once share one mark, and
  the first to end takes it.  Overlapping uploads of several senders can keep
  the node busy for ever, each mark ending: `MarksEnd` is per sender.
* Store.  A crash loses the marks and the collected ids since the last clean
  exit; between a message's store and its delivery it leaves a recipient that
  is never woken.  A file half written at a crash is indexed as a message.
* Distro.  The last device can leave between an announce's check and its store,
  and the announce stays (`raced`).  `count_matching` does not see a page a
  pull holds (`returned`).  A crash between store and fan-out leaves a blob that
  no later arrival fans out; a blob evicted meanwhile goes out a second time.
* Wakes.  fcm-bridge serves each registration on its own thread, so an older
  token can stand.  apns-bridge serves them in the packet callback, which keeps
  the order the stack calls it in.  At either a database error leaves the older
  row and is only logged (apns-bridge/src/bridge.rs:515–524,
  fcm-bridge/src/bridge.rs:413–427): the device is not told and the older token stands, which `LastTokenStands` allows.  A
  dropped wake is not sent again: its path request is for the next one.

## 7. What is abstracted or left out

* Time is whether a wait is over, or a small number of periods.  The wall clock
  going backward is not modelled; in `PeerSync` it may be set forward (`cull`).
* `db = None` (no database) is the queue whose writes are all refused.
* `load` gives tickets in row order; the model takes any order that keeps them
  distinct.
* A poisoned mutex is not modelled: every caller logs and gives up.  Lock order
  is not either: a handler's stretch under nested locks is one action.
* `Fanout` leaves open which links and streams a subscriber has bound, serves a
  plan's subscribers in any order and lets fan-outs interleave, which
  `hook_registry`'s lock in fact serialises: it allows more than the code.  A
  live packet that physically arrives after its timeout is not told from one
  that does not; a late proof is only logged.
* `PeerSync` leaves open how much of an offer the budget lets through and
  whether a session yields to others (`SyncBudget` says), counts no bytes, and
  has an empty store at start, so that the startup hold on the backlog never
  applies.  It has no restart: nothing of a session is saved.
* `SyncBudget` counts messages and knows every peer's stamp costs; peering and
  unpeering are left out.
* `FedSync` has blobs of one size, `PropStore` messages of one size.
* `BackupChain` leaves out a subscription table whose write fails.
* Signatures, stamps and keys are judged outside the models: a request that is
  refused for them changes nothing.
* Not modelled at all, and why: configuration parsing, naming, announce layout
  and build stamp (pure functions or formatting); status answers and statistics;
  the propagation node's GET lists and sizes; HTTP/2, JWT and database drivers
  of the bridges (libraries); `push/mod.rs` and `push/rns.rs` (compiled into no
  crate); PHP and Python utilities and scripts (outside the daemons).

## 8. The plan

Done: every component whose order of steps matters has its module, all are
checked, and the safety properties of all of them are proved.  What is left, in order of worth:

1. `PeerSync` with a peer added again, if the code comes to number sessions
   across peerings: the theorems' assumption would then fall away.
2. A composition of `FedSync` with `Distro`, for a blob that is evicted and
   comes in again while its first fan-out is on its way.
3. Peering and unpeering in `SyncBudget`.
