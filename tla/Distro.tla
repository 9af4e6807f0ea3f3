------------------------------- MODULE Distro -------------------------------
\* A distro at one node: an identity several devices share. The devices
\* register (distro.rs DistroTable), one of them has the node replay the
\* announce it signed (DistroAnnounceStore), and a message to the distro is
\* stored and fanned out to every registered device on first sight, whether a
\* propagation upload or the federation sync brings it
\* (lxmf_propagation.rs ingest_propagation_batch, destinations.rs
\* plan_sync_dispatch). A device no live push reaches is handed off: the
\* message is queued for its pull, and the device is woken, except for its own
\* sync, which a sync proof marks (handoff.rs distro_hand_off).
\*
\* Abstracted: one distro, whose blobs are model values; signatures and keys
\* (every request here is one verify_signed_payload accepted); the links and
\* streams themselves (LinkSession, PushOutcome); the blob store's eviction
\* (FedSync). The devices of one fan-out are served in any order, and the loop
\* may go on while an earlier device is handed off, as it does for a live push.
EXTENDS Naturals, Sequences, SequencesExt, FiniteSets

CONSTANTS
  Devices,       \* the devices that may register
  Arrivals,      \* the times a message to the distro reaches the node
  Scenes,        \* what the instance starts with and what its clients ask:
                 \* [registered, arrival, requests, disk_fails]
  SyncUnwokenLimit, \* DISTRO_SYNC_UNWOKEN_LIMIT
  DeviceLimit,   \* limit_for: entries one device's bucket holds
  GlobalLimit,   \* DeferredQueue.global_limit
  PageSize,      \* entries in a pull's page
  MaxReturned,   \* bound: unpushed entries that unproved pages put back
  MaxRestarts,   \* bound: restarts of the node
  MaxUnregistered \* bound: unregistrations

ASSUME ConstantsAssumption == SyncUnwokenLimit \in Nat \ {0} /\ PageSize \in Nat

\* The table lists devices.
ASSUME RegisteredAssumption == \A scene \in Scenes : scene.registered \subseteq Devices

VARIABLES
  requests,      \* what the clients of the scene ask of the node
  disk_fails,    \* the blob store may refuse a write
  registered,    \* DistroTable: the devices of the distro
  announce,      \* DistroAnnounceStore holds the distro's announce
  announcing,    \* an announce request judged its distro served, not yet stored
  arrival,       \* what each arrival is: [blob, from, claim]
  held,          \* BlobStore.index: the blobs stored
  job,           \* how far the ingest of each arrival is
  todo,          \* the devices its fan-out has still to serve
  outcome,       \* what its fan-out came to, device by device
  queue,         \* DeferredQueue.queue: the arrivals queued for each device
  page,          \* DeferredQueue.held: the page each device's pull holds
  unwoken,       \* history: queued at the device since it was last pushed
  returned,      \* history: of those, how many an unproved page put back
  raced,         \* history: the last device left while an announce was judged
  unregistered, restarts

table_vars == <<registered, announce, announcing, raced, unregistered>>
ingest_vars == <<arrival, held, job, todo>>
queue_vars == <<queue, page, unwoken, returned>>
scene_vars == <<requests, disk_fails>>
vars == <<scene_vars, table_vars, ingest_vars, outcome, queue_vars, restarts>>

Outcomes == {"none", "link", "stream", "unconfirmed", "waking",
             "answered", "woken", "quiet", "lost"}

\* The outcomes that are final: nothing of the node waits on them.
Final == {"answered", "woken", "quiet", "lost"}

TypeOK ==
  /\ registered \subseteq Devices
  /\ {announce, announcing, raced} \subseteq BOOLEAN
  /\ job \in [Arrivals -> {"waiting", "judged", "first", "stored", "fanning", "done"}]
  /\ todo \in [Arrivals -> SUBSET Devices]
  /\ outcome \in [Arrivals -> [Devices -> Outcomes]]
  /\ held \subseteq {arrival[j].blob : j \in Arrivals}
  /\ \A d \in Devices : ToSet(queue[d]) \cap ToSet(page[d]) = {}
  /\ unwoken \in [Devices -> SUBSET Arrivals]

Init ==
  \E scene \in Scenes :
    /\ registered = scene.registered
    /\ arrival = scene.arrival
    /\ requests = scene.requests
    /\ disk_fails = scene.disk_fails
    /\ announce = FALSE
    /\ announcing = FALSE
    /\ raced = FALSE
    /\ held = {}
    /\ job = [j \in Arrivals |-> "waiting"]
    /\ todo = [j \in Arrivals |-> {}]
    /\ outcome = [j \in Arrivals |-> [d \in Devices |-> "none"]]
    /\ queue = [d \in Devices |-> <<>>]
    /\ page = [d \in Devices |-> <<>>]
    /\ unwoken = [d \in Devices |-> {}]
    /\ returned = [d \in Devices |-> 0]
    /\ unregistered = 0
    /\ restarts = 0

-----------------------------------------------------------------------------
\* Registration and announces

is_distro == registered # {}

\* DistroTable::register, idempotent.
Register(d) ==
  /\ "register" \in requests
  /\ d \notin registered
  /\ registered' = registered \cup {d}
  /\ UNCHANGED <<announce, announcing, raced, unregistered, ingest_vars,
                 outcome, queue_vars, restarts, scene_vars>>

\* What is left of the announce when `devices` are: with the last device the
\* node stops advertising a route.
AnnounceLeft(devices) == announce /\ devices # {}

\* BUG: the announce outlives the distro's last device.
AnnounceStays(devices) == announce

announce_left(devices) == AnnounceLeft(devices)

\* handle_distro_registration, unregistering: the table's guard is held over
\* the announce's removal.
Unregister(d) ==
  /\ "register" \in requests
  /\ d \in registered
  /\ unregistered < MaxUnregistered
  /\ unregistered' = unregistered + 1
  /\ registered' = registered \ {d}
  /\ announce' = announce_left(registered \ {d})
  /\ raced' = IF registered = {d} THEN announcing ELSE raced
  /\ UNCHANGED <<announcing, ingest_vars, outcome, queue_vars, restarts, scene_vars>>

\* announce_cb finds a device registered, and releases the table.
AnnounceJudged ==
  /\ "announce" \in requests
  /\ ~announcing
  /\ is_distro
  /\ announcing' = TRUE
  /\ UNCHANGED <<registered, announce, raced, unregistered, ingest_vars,
                 outcome, queue_vars, restarts, scene_vars>>

\* It stores the announce, which this and every later replay broadcasts.
AnnounceStored ==
  /\ announcing
  /\ announcing' = FALSE
  /\ announce' = TRUE
  /\ UNCHANGED <<registered, raced, unregistered, ingest_vars, outcome,
                 queue_vars, restarts, scene_vars>>

-----------------------------------------------------------------------------
\* Ingest

\* BatchClaims: a claim counts in a client's batch only, and once verified.
\* (A second copy of a message in one batch finds its claim taken; it is not
\* the message's first sight, so nothing follows from that.)
Proved(j) == arrival[j].from = "client" /\ arrival[j].claim = "valid"

\* A message of a propagation upload whose destination is registered as a
\* distro; any other goes the way of the messagestore (PropStore).
Intercept(j) ==
  /\ job[j] = "waiting"
  /\ arrival[j].from # "fed"
  /\ job' = [job EXCEPT ![j] = IF is_distro THEN "judged" ELSE "done"]
  /\ UNCHANGED <<arrival, held, todo, table_vars, outcome, queue_vars, restarts, scene_vars>>

\* ingest_distro_blob, under the store's guard: a blob held already is not
\* fanned out again, one that cannot be stored is.
IngestDistroBlob(j) ==
  /\ job[j] = "judged"
  /\ \/ /\ arrival[j].blob \in held
        /\ job' = [job EXCEPT ![j] = "done"]
        /\ UNCHANGED held
     \/ /\ arrival[j].blob \notin held
        /\ job' = [job EXCEPT ![j] = "first"]
        /\ \/ held' = held \cup {arrival[j].blob}
           \/ disk_fails /\ held' = held
  /\ UNCHANGED <<arrival, todo, table_vars, outcome, queue_vars, restarts, scene_vars>>

\* The federation sync stores a blob it asked a peer for: the hash was one of
\* registered_distro_hashes, the blob not in the index.
FedStored(j) ==
  /\ job[j] = "waiting"
  /\ arrival[j].from = "fed"
  /\ is_distro
  /\ arrival[j].blob \notin held
  /\ held' = held \cup {arrival[j].blob}
  /\ job' = [job EXCEPT ![j] = "stored"]
  /\ UNCHANGED <<arrival, todo, table_vars, outcome, queue_vars, restarts, scene_vars>>

\* The devices are snapshotted and the table released before the fan-out. A
\* distro whose last device left meanwhile has nobody to serve: the upload's
\* fan-out is empty, the sync's takes the hash for a channel's.
Snapshot(j) ==
  /\ job[j] \in {"first", "stored"}
  /\ job' = [job EXCEPT ![j] = IF is_distro THEN "fanning" ELSE "done"]
  /\ todo' = [todo EXCEPT ![j] = registered]
  /\ UNCHANGED <<arrival, held, table_vars, outcome, queue_vars, restarts, scene_vars>>

-----------------------------------------------------------------------------
\* The fan-out

\* distro_fanout at one device: a live push on its rfed.link session or its
\* propagation stream, or else it is handed off at once.
Serve(j, d) ==
  /\ job[j] = "fanning"
  /\ d \in todo[j]
  /\ todo' = [todo EXCEPT ![j] = @ \ {d}]
  /\ job' = [job EXCEPT ![j] = IF todo[j] = {d} THEN "done" ELSE @]
  /\ \E route \in {"link", "stream", "unconfirmed"} :
       outcome' = [outcome EXCEPT ![j][d] = route]
  /\ UNCHANGED <<arrival, held, table_vars, queue_vars, restarts, scene_vars>>

\* The rfed.link response or the stream's proof comes.
Confirmed(j, d) ==
  /\ outcome[j][d] \in {"link", "stream"}
  /\ outcome' = [outcome EXCEPT ![j][d] = "answered"]
  /\ UNCHANGED <<table_vars, ingest_vars, queue_vars, restarts, scene_vars>>

\* What a push that is never confirmed hands the device to: on_failed of the
\* link's push, stream_unproven_hook of the stream's.
Hooked(route) == "unconfirmed"

\* BUG: the stream's push is made without its hook.
LinkHookOnly(route) == IF route = "link" THEN "unconfirmed" ELSE "none"

unproven_hook(route) == Hooked(route)

Unproven(j, d) ==
  /\ outcome[j][d] \in {"link", "stream"}
  /\ outcome' = [outcome EXCEPT ![j][d] = unproven_hook(outcome[j][d])]
  /\ UNCHANGED <<table_vars, ingest_vars, queue_vars, restarts, scene_vars>>

-----------------------------------------------------------------------------
\* The hand-off

total_len == FoldSet(LAMBDA d, n : n + Len(queue[d]) + Len(page[d]), 0, Devices)

\* count_matching: what waits in the bucket; a page a pull holds is out of it.
count_matching(d) == Len(queue[d])

\* The buckets whose oldest entry makes room at the global limit: the fullest.
\* (Of two as full the one with the older entry goes; which is left open.)
Fullest == {d \in Devices : queue[d] # <<>> /\ \A e \in Devices : Len(queue[e]) <= Len(queue[d])}

\* enqueue: what the buckets are after queueing j for d.
Enqueued(j, d) ==
  IF count_matching(d) > 0 /\ count_matching(d) >= DeviceLimit
    THEN {[queue EXCEPT ![d] = Append(Tail(@), j)]}
  ELSE IF total_len < GlobalLimit
    THEN {[queue EXCEPT ![d] = Append(@, j)]}
  ELSE IF Fullest = {}
    THEN {queue}
  ELSE {LET room == [queue EXCEPT ![e] = Tail(@)]
        IN [room EXCEPT ![d] = Append(@, j)] : e \in Fullest}

\* The device's queued blobs of the distro once the hand-off has queued its.
UnPulledAfter(after, d) == Len(after[d])

\* BUG: the blob just queued is not counted.
UnPulledBefore(after, d) == count_matching(d)

un_pulled_after(after, d) == UnPulledAfter(after, d)

\* Whether a sync hand-off pushes after all, with the buckets as `after`.
AtBound(after, d) ==
  \/ un_pulled_after(after, d) >= SyncUnwokenLimit
  \/ total_len >= (GlobalLimit * 3) \div 4

\* distro_hand_off: counting and queueing are one acquisition of the queue.
\* FedSync's blobs carry no proof, so they push.
HandOff(j, d) ==
  /\ outcome[j][d] = "unconfirmed"
  /\ \E after \in Enqueued(j, d) :
       LET push == ~Proved(j) \/ AtBound(after, d)
       IN /\ queue' = after
          /\ outcome' = [outcome EXCEPT ![j][d] = IF push THEN "waking" ELSE "quiet"]
          /\ unwoken' = [e \in Devices |->
               IF e # d THEN unwoken[e] \cap (ToSet(after[e]) \cup ToSet(page[e]))
               ELSE IF push THEN {}
               ELSE (unwoken[d] \cup {j}) \cap (ToSet(after[d]) \cup ToSet(page[d]))]
          /\ returned' = [returned EXCEPT ![d] = IF push THEN 0 ELSE @]
  /\ UNCHANGED <<table_vars, ingest_vars, page, restarts, scene_vars>>

\* wake_after_queueing: the push leaves through the notify registrations, the
\* queue released (WakePath).
Wake(j, d) ==
  /\ outcome[j][d] = "waking"
  /\ outcome' = [outcome EXCEPT ![j][d] = "woken"]
  /\ UNCHANGED <<table_vars, ingest_vars, queue_vars, restarts, scene_vars>>

-----------------------------------------------------------------------------
\* The distro pull

\* pull_distro_cb: a page of the blobs of distros registered here.
PullPage(d) ==
  /\ "pull" \in requests
  /\ is_distro
  /\ page[d] = <<>>
  /\ queue[d] # <<>>
  /\ LET n == IF Len(queue[d]) < PageSize THEN Len(queue[d]) ELSE PageSize
     IN /\ page' = [page EXCEPT ![d] = SubSeq(queue[d], 1, n)]
        /\ queue' = [queue EXCEPT ![d] = SubSeq(@, n + 1, Len(@))]
  /\ UNCHANGED <<table_vars, ingest_vars, outcome, unwoken, returned, restarts, scene_vars>>

\* settle_page, proved: the page's rows go.
PageProved(d) ==
  /\ page[d] # <<>>
  /\ page' = [page EXCEPT ![d] = <<>>]
  /\ unwoken' = [unwoken EXCEPT ![d] = @ \ ToSet(page[d])]
  /\ UNCHANGED <<table_vars, ingest_vars, outcome, queue, returned, restarts, scene_vars>>

\* settle_page, unproved: the page goes back to the front of the bucket.
PageReturned(d) ==
  /\ page[d] # <<>>
  /\ returned[d] < MaxReturned \/ unwoken[d] \cap ToSet(page[d]) = {}
  /\ page' = [page EXCEPT ![d] = <<>>]
  /\ queue' = [queue EXCEPT ![d] = page[d] \o @]
  /\ returned' = [returned EXCEPT ![d] = @ + Cardinality(unwoken[d] \cap ToSet(page[d]))]
  /\ UNCHANGED <<table_vars, ingest_vars, outcome, unwoken, restarts, scene_vars>>

-----------------------------------------------------------------------------
\* The process stops and starts. The registrations, the announce, the blobs
\* and the queue's rows, a held page's included, are on disk; what was in a
\* thread or awaited a verdict is gone.
Restart ==
  /\ restarts < MaxRestarts
  /\ restarts' = restarts + 1
  /\ announcing' = FALSE
  /\ job' = [j \in Arrivals |-> IF job[j] = "waiting" THEN "waiting" ELSE "done"]
  /\ outcome' = [j \in Arrivals |-> [d \in Devices |->
       IF d \in todo[j] \/ outcome[j][d] \in Outcomes \ (Final \cup {"none"})
         THEN "lost" ELSE outcome[j][d]]]
  /\ todo' = [j \in Arrivals |-> {}]
  /\ queue' = [d \in Devices |-> page[d] \o queue[d]]
  /\ page' = [d \in Devices |-> <<>>]
  /\ returned' = [d \in Devices |-> returned[d] + Cardinality(unwoken[d] \cap ToSet(page[d]))]
  /\ UNCHANGED <<registered, announce, raced, unregistered, arrival, held, unwoken, scene_vars>>

-----------------------------------------------------------------------------
Ingest(j) ==
  Intercept(j) \/ IngestDistroBlob(j) \/ FedStored(j) \/ Snapshot(j)

Fan(j, d) == Serve(j, d) \/ HandOff(j, d) \/ Wake(j, d)

Verdict(j, d) == Confirmed(j, d) \/ Unproven(j, d)

Next ==
  \/ \E d \in Devices : Register(d) \/ Unregister(d)
  \/ AnnounceJudged \/ AnnounceStored
  \/ \E j \in Arrivals : Ingest(j) \/ \E d \in Devices : Fan(j, d) \/ Verdict(j, d)
  \/ \E d \in Devices : PullPage(d) \/ PageProved(d) \/ PageReturned(d)
  \/ Restart

Spec == Init /\ [][Next]_vars

\* The threads that serve a fan-out and its hand-offs run on; a push has a
\* verdict, by its timeout at the latest. Nothing is assumed of the clients
\* (registrations, pulls, announces) or of the sync.
Fairness ==
  \A j \in Arrivals, d \in Devices : WF_vars(Fan(j, d)) /\ WF_vars(Verdict(j, d))

FairSpec == Spec /\ Fairness

-----------------------------------------------------------------------------
\* Properties

\* "Only advertise a route we can actually serve" (destinations.rs announce_cb)
\* and "stop advertising a route to this node" with the last device
\* (handle_distro_registration): the node replays a distro's announce only
\* while a device is registered, but for one race: the last device leaves
\* between an announce request's check and its store. Then the announce stays
\* until the next device comes and goes, over restarts too.
AnnounceHasDevice == announce => is_distro \/ raced

\* A device's own syncs are queued without a push only up to a bound: "the
\* hand-off that queues the 64th pushes" (handoff.rs DISTRO_SYNC_UNWOKEN_LIMIT).
\* In the bucket fewer than the limit wait with no push since they were queued,
\* beyond those a pull took and put back unproved: the count does not see a
\* page a pull holds.
SyncBacklogBounded ==
  \A d \in Devices :
    Cardinality(unwoken[d] \cap ToSet(queue[d])) < SyncUnwokenLimit + returned[d]

\* "Every device not confirmed goes to on_unconfirmed" (distro.rs
\* distro_fanout): each device a fan-out set out to serve ends with its
\* confirmation, or queued, and pushed unless its own sync went unpushed; only
\* a stop of the process takes it out of that.
EveryDeviceSettles ==
  \A j \in Arrivals, d \in Devices :
    d \in todo[j] ~> outcome[j][d] \in Final
=============================================================================
