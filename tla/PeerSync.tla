------------------------------ MODULE PeerSync ------------------------------
(***************************************************************************)
(* One propagation peer's outbound sync (rfed/src/lxmf_propagation.rs,     *)
(* "Outbound peer sync"): the session that offers the peer the messages it *)
(* lacks and sends what it wants, the store's marks of what the peer has,  *)
(* the worker that runs every sync event in the order it came, and         *)
(* AppLinks, which holds the link.                                         *)
(*                                                                         *)
(* A handler is one action per stretch it holds the node's lock; between   *)
(* two of them announces, the store, the tick and the network go on.  The  *)
(* clock is abstracted to whether a wait is over; what of an offer the     *)
(* budget and the peer's sync limit leave is left open.                    *)
(***************************************************************************)
EXTENDS Integers, Sequences, FiniteSets

CONSTANTS
  Messages,
  OverLimit,    \* those over the peer's transfer limit or one Resource
  LowValue,     \* those whose stamp the peer would refuse
  MaxLinks,     \* bound on the links tried
  MaxPeerings   \* bound on how often the peer is added

ASSUME ConstantsAssumption ==
  /\ OverLimit \subseteq Messages
  /\ LowValue \subseteq Messages
  /\ MaxLinks \in Nat
  /\ MaxPeerings \in Nat

VARIABLES
  peerings,      \* how often the peer was added
  peered,        \* whether `peers` has it; the peer's record:
  state,
  session,       \* sync_session
  link_id,       \* 0: None
  reidentified,
  last_offer,
  transferring,  \* {}: None
  postponed,     \* now <= next_sync_attempt or throttled_until
  key,           \* its peering key, of its announced cost
  stored,        \* `entries`
  processed,     \* locally_processed
  handled,       \* the stored messages marked for the peer
  unhandled,
  inbox,         \* the worker's channel of sync events
  job,           \* what the worker has left to do of the event it took
  links,         \* AppLinks: the links tried so far,
  attempts,      \* those in flight,
  held,          \* the link held, 0: none,
  closing,       \* how many it held before and will report closed,
  tracked,       \* whether the destination is registered
  requests,      \* the offers, and the Resources, on their way
  resources,
  peer_has       \* the messages the peer has or had

conn == <<state, session, link_id, reidentified, last_offer, transferring>>
peer == <<peerings, peered, conn, postponed, key>>
store == <<stored, processed, handled, unhandled>>
worker == <<inbox, job>>
appLinks == <<links, attempts, held, closing, tracked>>
network == <<requests, resources, peer_has>>
vars == <<peer, store, worker, appLinks, network>>

-----------------------------------------------------------------------------

Refusals == {"no identity", "no access", "throttled", "invalid key", "other"}

SyncEvent ==
       [kind : {"start", "down"}]
  \cup [kind : {"active"}, link : Nat]
  \cup [kind : {"response"}, session : Nat, answer : Refusals]
  \cup [kind : {"response"}, session : Nat, answer : {"wants"}, wants : SUBSET Messages]
  \cup [kind : {"failed"}, session : Nat]
  \cup [kind : {"concluded"}, session : Nat, complete : BOOLEAN]

Job == [step : {"idle", "prepare", "send offer", "send resource", "start resource"},
        session : Nat, link : Nat, ids : SUBSET Messages]

DoNext(step, n, l, ids) == job' = [step |-> step, session |-> n, link |-> l, ids |-> ids]
Idle == DoNext("idle", 0, 0, {})
Resync == DoNext("prepare", 0, 0, {})

\* The worker takes the oldest event, and does all of it before the next.
Takes(kind) ==
  /\ job.step = "idle"
  /\ inbox # <<>>
  /\ Head(inbox).kind = kind
  /\ inbox' = Tail(inbox)

Report(event) == inbox' = Append(inbox, event)
Reported(kind) == \E i \in 1 .. Len(inbox) : inbox[i].kind = kind

\* "none", or no longer strong enough for the announced cost; "again":
\* refused once at this cost and ground again.
Keys == {"none", "ready", "none again", "ready again", "refused"}
sync_ready == key \in {"ready", "ready again"}

-----------------------------------------------------------------------------
(***************************************************************************)
(* What a session does to the peer's record, AppLinks and the marks.       *)
(***************************************************************************)

\* The link held until now closes in its own time.
LetGo(l) ==
  /\ held' = l
  /\ closing' = IF held = 0 THEN closing ELSE closing + 1

\* AppLinks forgets the destination; an attempt in flight may outlive that.
close_link ==
  /\ LetGo(0)
  /\ tracked' = FALSE
  /\ UNCHANGED <<links, attempts>>

\* It closes a link it finds held, which no session opened, before it
\* opens its own.
open_link ==
  /\ links' = links + 1
  /\ attempts' = attempts \cup {links + 1}
  /\ LetGo(0)
  /\ tracked' = TRUE

BeginSession ==
  /\ open_link
  /\ state' = "LINK_ESTABLISHING"
  /\ session' = session + 1
  /\ link_id' = 0
  /\ reidentified' = FALSE
  /\ UNCHANGED <<last_offer, transferring>>

\* BUG: the record starts over, its numbers with it.
EndSessionAnew(n) ==
  /\ close_link
  /\ state' = "IDLE"
  /\ session' = 0
  /\ link_id' = 0
  /\ reidentified' = FALSE
  /\ last_offer' = {}
  /\ transferring' = {}

EndSession(n) ==
  /\ close_link
  /\ state' = "IDLE"
  /\ session' = n
  /\ link_id' = 0
  /\ reidentified' = FALSE
  /\ last_offer' = {}
  /\ transferring' = {}

\* Every callback still on its way for the session is made stale.
end_sync == EndSession(session + 1)

\* The record goes, a later peering starts with a new one; the marks stay.
unpeer ==
  /\ EndSession(0)
  /\ peered' = FALSE
  /\ postponed' = FALSE
  /\ key' = "none"

\* Only a stored message is marked.
mark_handled(ids) ==
  /\ handled' = handled \cup (ids \cap stored)
  /\ unhandled' = unhandled \ ids
  /\ UNCHANGED <<stored, processed>>

remove(ids) ==
  /\ stored' = stored \ ids
  /\ handled' = handled \ ids
  /\ unhandled' = unhandled \ ids
  /\ UNCHANGED processed

Current(s, n) == peered /\ state = s /\ session = n

-----------------------------------------------------------------------------
(***************************************************************************)
(* The session's steps.                                                    *)
(***************************************************************************)

\* The bound on links acts as a backoff that does not end.
Postponed ==
  \/ postponed
  \/ ~sync_ready
  \/ state = "IDLE" /\ links = MaxLinks

Preparing == job.step = "prepare" /\ UNCHANGED inbox

PrepareOtherwise ==
  /\ Preparing
  /\ ~peered \/ state \notin {"IDLE", "LINK_READY"}
  /\ Idle
  /\ UNCHANGED <<peer, store, appLinks, network>>

\* A session never waits in LINK_READY.
PreparePostponed ==
  /\ Preparing
  /\ peered
  /\ Postponed \/ unhandled = {}
  /\ \/ state = "IDLE" /\ UNCHANGED <<conn, appLinks>>
     \/ state = "LINK_READY" /\ end_sync
  /\ Idle
  /\ UNCHANGED <<peerings, peered, postponed, key, store, network>>

PrepareLink ==
  /\ Preparing
  /\ peered
  /\ state = "IDLE"
  /\ ~Postponed
  /\ unhandled # {}
  /\ BeginSession
  /\ postponed' = TRUE
  /\ Idle
  /\ UNCHANGED <<peerings, peered, key, store, network>>

PrepareOffer ==
  /\ Preparing
  /\ peered
  /\ state = "LINK_READY"
  /\ ~Postponed
  /\ unhandled # {}
  /\ unhandled' = unhandled \ LowValue
  /\ DoNext("send offer", session, 0, unhandled \ LowValue)
  /\ UNCHANGED <<peer, stored, processed, handled, appLinks, network>>

prepare_sync == PrepareOtherwise \/ PreparePostponed \/ PrepareLink \/ PrepareOffer

OfferDropped ==
  /\ ~Current("LINK_READY", job.session)
  /\ UNCHANGED <<peer, store, appLinks, requests>>

\* Nothing is left to offer, or the budget for nothing of it, or the link
\* is gone.
OfferEnds ==
  /\ Current("LINK_READY", job.session)
  /\ mark_handled(job.ids \cap OverLimit)
  /\ end_sync
  /\ UNCHANGED <<peerings, peered, postponed, key, requests>>

Offer(offer) ==
  /\ Current("LINK_READY", job.session)
  /\ held = link_id
  /\ mark_handled(job.ids \cap OverLimit)
  /\ state' = "REQUEST_SENT"
  /\ session' = session + 1
  /\ last_offer' = offer
  /\ requests' = requests \cup {[session |-> session + 1, ids |-> offer]}
  /\ UNCHANGED <<peerings, peered, link_id, reidentified, transferring,
                 postponed, key, appLinks>>

\* What may be offered of the candidates: none over a limit, and of the others
\* as many as the peer's limits, the Resource's and the budget's share leave
\* room for.
plan_offer(candidates) == (SUBSET (candidates \ OverLimit)) \ {{}}

send_offer ==
  /\ job.step = "send offer"
  /\ \/ OfferDropped
     \/ OfferEnds
     \/ \E offer \in plan_offer(job.ids \cap unhandled) : Offer(offer)
  /\ Idle
  /\ UNCHANGED <<inbox, resources, peer_has>>

-----------------------------------------------------------------------------
(***************************************************************************)
(* The offer's answer.                                                     *)
(***************************************************************************)

\* An answer of an earlier session.
StaleResponse ==
  /\ ~Current("REQUEST_SENT", Head(inbox).session)
  /\ Idle
  /\ UNCHANGED <<peer, store, appLinks>>

\* It identifies once more, on the link it has.
NoIdentity ==
  /\ Head(inbox).answer = "no identity"
  /\ ~reidentified
  /\ reidentified' = TRUE
  /\ state' = "LINK_READY"
  /\ last_offer' = {}
  /\ Resync
  /\ UNCHANGED <<peerings, peered, session, link_id, transferring, postponed,
                 key, store, appLinks>>

NoAccess ==
  /\ Head(inbox).answer = "no access"
  /\ unpeer
  /\ Idle
  /\ UNCHANGED <<peerings, store>>

Refused ==
  /\ Head(inbox).answer \in {"no identity", "throttled", "invalid key", "other"}
  /\ Head(inbox).answer = "no identity" => reidentified
  /\ postponed' = (postponed \/ Head(inbox).answer = "throttled")
  /\ key' = CASE Head(inbox).answer # "invalid key" -> key
              [] key \in {"ready again", "none again"} -> "refused"
              [] OTHER -> "none again"
  /\ end_sync
  /\ Idle
  /\ UNCHANGED <<peerings, peered, store>>

\* What it does not want it has.  What it wants is handled only once sent.
Wanted ==
  /\ Head(inbox).answer = "wants"
  /\ mark_handled(last_offer \ Head(inbox).wants)
  /\ LET files == Head(inbox).wants \cap last_offer \cap stored
     IN  IF files = {}
           THEN end_sync /\ Idle
           ELSE /\ state' = "RESOURCE_TRANSFERRING"
                /\ last_offer' = {}
                /\ DoNext("send resource", session, 0, files)
                /\ UNCHANGED <<session, link_id, reidentified, transferring, appLinks>>
  /\ UNCHANGED <<peerings, peered, postponed, key>>

on_offer_response ==
  /\ Takes("response")
  /\ \/ StaleResponse
     \/ /\ Current("REQUEST_SENT", Head(inbox).session)
        /\ NoIdentity \/ NoAccess \/ Refused \/ Wanted
  /\ UNCHANGED network

on_offer_failed ==
  /\ Takes("failed")
  /\ IF Current("REQUEST_SENT", Head(inbox).session)
       THEN end_sync ELSE UNCHANGED <<conn, appLinks>>
  /\ Idle
  /\ UNCHANGED <<peerings, peered, postponed, key, store, network>>

-----------------------------------------------------------------------------
(***************************************************************************)
(* The Resource.                                                           *)
(***************************************************************************)

\* Some of the files may be gone, and are then dropped from the store, or
\* may not be readable.
ReadFiles(read, missing) ==
  /\ remove(missing)
  /\ IF Current("RESOURCE_TRANSFERRING", job.session)
       THEN IF read = {}
              THEN end_sync /\ Idle
              ELSE /\ transferring' = read
                   /\ DoNext("start resource", session, link_id, read)
                   /\ UNCHANGED <<state, session, link_id, reidentified, last_offer, appLinks>>
       ELSE Idle /\ UNCHANGED <<conn, appLinks>>

send_sync_resource ==
  /\ job.step = "send resource"
  /\ \E read \in SUBSET job.ids : \E missing \in SUBSET (job.ids \ read) :
       ReadFiles(read, missing)
  /\ UNCHANGED <<peerings, peered, postponed, key, inbox, network>>

\* The node's lock is free while the Resource is built and advertised.
send_resource ==
  /\ job.step = "start resource"
  /\ IF held = job.link
       THEN /\ resources' = resources \cup {[session |-> job.session, ids |-> job.ids]}
            /\ UNCHANGED <<conn, appLinks>>
       ELSE /\ IF Current("RESOURCE_TRANSFERRING", job.session)
                 THEN end_sync ELSE UNCHANGED <<conn, appLinks>>
            /\ UNCHANGED resources
  /\ Idle
  /\ UNCHANGED <<peerings, peered, postponed, key, store, inbox, requests, peer_has>>

StaleConclusion ==
  /\ ~Current("RESOURCE_TRANSFERRING", Head(inbox).session) \/ transferring = {}
  /\ Idle
  /\ UNCHANGED <<conn, store, appLinks>>

\* BUG: the batch is marked before its outcome is looked at.
ResourceFailedMarked ==
  /\ ~Head(inbox).complete
  /\ mark_handled(transferring)
  /\ end_sync
  /\ Idle

ResourceFailed ==
  /\ ~Head(inbox).complete
  /\ end_sync
  /\ Idle
  /\ UNCHANGED store

\* The next batch goes on the held link, or on a new one; the budget may
\* make the session yield to other peers first.
ResourceCompleted ==
  /\ Head(inbox).complete
  /\ mark_handled(transferring)
  /\ \/ end_sync /\ Idle
     \/ /\ unhandled' # {}
        /\ held # link_id
        /\ end_sync
        /\ Resync
     \/ /\ unhandled' # {}
        /\ held = link_id
        /\ state' = "LINK_READY"
        /\ transferring' = {}
        /\ Resync
        /\ UNCHANGED <<session, link_id, reidentified, last_offer, appLinks>>

on_resource_concluded ==
  /\ Takes("concluded")
  /\ \/ StaleConclusion
     \/ /\ Current("RESOURCE_TRANSFERRING", Head(inbox).session)
        /\ transferring # {}
        /\ ResourceFailed \/ ResourceCompleted
  /\ UNCHANGED <<peerings, peered, postponed, key, network>>

-----------------------------------------------------------------------------
(***************************************************************************)
(* The link.                                                               *)
(***************************************************************************)

\* No session is there to use it.
LinkUnused ==
  /\ ~peered \/ state = "IDLE"
  /\ close_link
  /\ Idle
  /\ UNCHANGED <<conn, postponed>>

\* AppLinks no longer holds it, or the session runs on it already.
LinkNotNews ==
  /\ peered
  /\ state # "IDLE"
  /\ held # Head(inbox).link \/ (state # "LINK_ESTABLISHING" /\ link_id = held)
  /\ Idle
  /\ UNCHANGED <<conn, postponed, appLinks>>

LinkReady ==
  /\ peered
  /\ state = "LINK_ESTABLISHING"
  /\ held = Head(inbox).link
  /\ link_id' = held
  /\ reidentified' = FALSE
  /\ postponed' = FALSE
  /\ state' = "LINK_READY"
  /\ Resync
  /\ UNCHANGED <<session, last_offer, transferring, appLinks>>

\* It replaced the session's link.
LinkReplaced ==
  /\ peered
  /\ state \notin {"IDLE", "LINK_ESTABLISHING"}
  /\ held = Head(inbox).link
  /\ link_id # held
  /\ end_sync
  /\ Idle
  /\ UNCHANGED postponed

on_link_active ==
  /\ Takes("active")
  /\ LinkUnused \/ LinkNotNews \/ LinkReady \/ LinkReplaced
  /\ UNCHANGED <<peerings, peered, key, store, network>>

\* BUG: an attempt that failed has no link to lose.
LinkLost ==
  /\ peered
  /\ state \notin {"IDLE", "LINK_ESTABLISHING"}
  /\ held # link_id

\* The report may be of an earlier link.
LinkGone ==
  /\ peered
  /\ \/ state = "LINK_ESTABLISHING" /\ attempts = {} /\ held = 0
     \/ state \notin {"IDLE", "LINK_ESTABLISHING"} /\ held # link_id

on_link_down ==
  /\ Takes("down")
  /\ IF LinkGone THEN end_sync ELSE UNCHANGED <<conn, appLinks>>
  /\ Idle
  /\ UNCHANGED <<peerings, peered, postponed, key, store, network>>

start_sync ==
  /\ Takes("start")
  /\ Resync
  /\ UNCHANGED <<peer, store, appLinks, network>>

-----------------------------------------------------------------------------
(***************************************************************************)
(* The rest of the node: the tick, announces, the store, key grinding.     *)
(***************************************************************************)

NodeOnly == UNCHANGED <<job, links, attempts, network>>

\* At most one start is left waiting for the worker.
tick_sync ==
  /\ peered
  /\ state = "IDLE"
  /\ unhandled # {}
  /\ ~Postponed
  /\ ~Reported("start")
  /\ Report([kind |-> "start"])
  /\ UNCHANGED <<peer, store, held, closing, tracked>>
  /\ NodeOnly

\* Unheard for two weeks, by a clock that may be set: nothing sent to it
\* is still on its way.
cull ==
  /\ peered
  /\ requests = {} /\ resources = {}
  /\ unpeer
  /\ UNCHANGED <<peerings, store, inbox, job, network>>

\* A record of its own, with nothing of what is stored queued for it.
announce_new_peer ==
  /\ ~peered
  /\ peerings < MaxPeerings
  /\ peerings' = peerings + 1
  /\ peered' = TRUE
  /\ UNCHANGED <<conn, postponed, key, store, inbox, held, closing, tracked>>
  /\ NodeOnly

\* A key refused, or ground again, at the old cost may do for the new one;
\* a weak one that now does is as good as ground.
announce_new_cost ==
  /\ peered
  /\ \/ key' = "none"
     \/ key \in {"ready", "ready again", "refused"} /\ key' = "ready"
  /\ UNCHANGED <<peerings, peered, conn, postponed, store, inbox, held, closing, tracked>>
  /\ NodeOnly

peering_key_ground ==
  /\ peered
  /\ \/ key = "none" /\ key' = "ready"
     \/ key = "none again" /\ key' = "ready again"
  /\ UNCHANGED <<peerings, peered, conn, postponed, store, inbox, held, closing, tracked>>
  /\ NodeOnly

wait_over ==
  /\ postponed
  /\ postponed' = FALSE
  /\ UNCHANGED <<peerings, peered, conn, key, store, inbox, held, closing, tracked>>
  /\ NodeOnly

StoreOnly == UNCHANGED <<peer, worker, appLinks, requests, resources>>

\* From a client, or from another peer.
store_message(m) ==
  /\ m \notin processed
  /\ stored' = stored \cup {m}
  /\ processed' = processed \cup {m}
  /\ unhandled' = IF peered THEN unhandled \cup {m} ELSE unhandled
  /\ UNCHANGED <<handled, peer_has>>
  /\ StoreOnly

\* The peer sent it, so it has it.
ingest_from_peer(m) ==
  /\ peered
  /\ peer_has' = peer_has \cup {m}
  /\ stored' = IF m \in processed THEN stored ELSE stored \cup {m}
  /\ processed' = processed \cup {m}
  /\ handled' = handled \cup ({m} \cap stored')
  /\ unhandled' = unhandled \ {m}
  /\ StoreOnly

\* It expired, the store was over its limit, or its recipient has it.
message_leaves(m) ==
  /\ m \in stored
  /\ remove({m})
  /\ UNCHANGED peer_has
  /\ StoreOnly

-----------------------------------------------------------------------------
(***************************************************************************)
(* AppLinks and the peer (external).                                       *)
(***************************************************************************)

LinksOnly == UNCHANGED <<peer, store, job, network>>

\* An attempt outlives the session that made it; the newest link is held.
LinkUp(l) ==
  /\ l \in attempts
  /\ attempts' = attempts \ {l}
  /\ LetGo(l)
  /\ Report([kind |-> "active", link |-> l])
  /\ UNCHANGED <<links, tracked>>
  /\ LinksOnly

ReportsDown ==
  inbox' = IF tracked THEN Append(inbox, [kind |-> "down"]) ELSE inbox

AttemptFails(l) ==
  /\ l \in attempts
  /\ attempts' = attempts \ {l}
  /\ ReportsDown
  /\ UNCHANGED <<links, held, closing, tracked>>
  /\ LinksOnly

LinkCloses ==
  /\ held # 0
  /\ held' = 0
  /\ ReportsDown
  /\ UNCHANGED <<links, attempts, closing, tracked>>
  /\ LinksOnly

\* AppLinks opens again, on its own, a link the peer closed.
LinkReopens ==
  /\ links \in 1 .. MaxLinks - 1
  /\ attempts = {} /\ held = 0
  /\ links' = links + 1
  /\ attempts' = {links + 1}
  /\ UNCHANGED <<inbox, held, closing, tracked>>
  /\ LinksOnly

\* The closing of a link held before is reported as the held one's is.
EarlierLinkCloses ==
  /\ closing > 0
  /\ closing' = closing - 1
  /\ ReportsDown
  /\ UNCHANGED <<links, attempts, held, tracked>>
  /\ LinksOnly

PeerOnly == UNCHANGED <<peer, store, job, appLinks>>

\* The peer wants what it does not have; some it had from elsewhere.
PeerAnswers(r) ==
  /\ r \in requests
  /\ requests' = requests \ {r}
  /\ \/ /\ \E answer \in Refusals :
             Report([kind |-> "response", session |-> r.session, answer |-> answer])
        /\ UNCHANGED peer_has
     \/ \E had \in SUBSET r.ids :
          /\ Report([kind |-> "response", session |-> r.session, answer |-> "wants",
                     wants |-> r.ids \ (peer_has \cup had)])
          /\ peer_has' = peer_has \cup had
  /\ UNCHANGED resources
  /\ PeerOnly

RequestFails(r) ==
  /\ r \in requests
  /\ requests' = requests \ {r}
  /\ Report([kind |-> "failed", session |-> r.session])
  /\ UNCHANGED <<resources, peer_has>>
  /\ PeerOnly

\* A Resource that failed may have arrived.
ResourceConcludes(r, complete, arrived) ==
  /\ r \in resources
  /\ complete => arrived
  /\ resources' = resources \ {r}
  /\ peer_has' = IF arrived THEN peer_has \cup r.ids ELSE peer_has
  /\ Report([kind |-> "concluded", session |-> r.session, complete |-> complete])
  /\ UNCHANGED requests
  /\ PeerOnly

-----------------------------------------------------------------------------

Init ==
  /\ peerings = 0 /\ peered = FALSE
  /\ state = "IDLE" /\ session = 0 /\ link_id = 0 /\ reidentified = FALSE
  /\ last_offer = {} /\ transferring = {}
  /\ postponed = FALSE /\ key = "none"
  /\ stored = {} /\ processed = {} /\ handled = {} /\ unhandled = {}
  /\ inbox = <<>> /\ job = [step |-> "idle", session |-> 0, link |-> 0, ids |-> {}]
  /\ links = 0 /\ attempts = {} /\ held = 0 /\ closing = 0 /\ tracked = FALSE
  /\ requests = {} /\ resources = {} /\ peer_has = {}

Worker ==
  \/ start_sync \/ prepare_sync \/ send_offer
  \/ on_offer_response \/ on_offer_failed
  \/ send_sync_resource \/ send_resource \/ on_resource_concluded
  \/ on_link_active \/ on_link_down

Node ==
  \/ tick_sync \/ cull
  \/ announce_new_peer \/ announce_new_cost \/ peering_key_ground \/ wait_over
  \/ \E m \in Messages : store_message(m) \/ ingest_from_peer(m) \/ message_leaves(m)

AppLinks ==
  \/ \E l \in attempts : LinkUp(l) \/ AttemptFails(l)
  \/ LinkCloses \/ LinkReopens \/ EarlierLinkCloses

Peer ==
  \/ \E r \in requests : PeerAnswers(r) \/ RequestFails(r)
  \/ \E r \in resources : \E complete, arrived \in BOOLEAN : ResourceConcludes(r, complete, arrived)

Next == Worker \/ Node \/ AppLinks \/ Peer

Spec == Init /\ [][Next]_vars

\* The worker runs on; a link attempt, a request and a Resource each come
\* to an end of their own.
Fairness ==
  /\ WF_vars(Worker)
  /\ WF_vars(\E l \in attempts : LinkUp(l) \/ AttemptFails(l))
  /\ WF_vars(\E r \in requests : PeerAnswers(r) \/ RequestFails(r))
  /\ WF_vars(\E r \in resources : \E complete, arrived \in BOOLEAN : ResourceConcludes(r, complete, arrived))

FairSpec == Spec /\ Fairness

-----------------------------------------------------------------------------

SentOffer == [session : Nat, ids : SUBSET Messages]
Sessions == {"LINK_READY", "REQUEST_SENT", "RESOURCE_TRANSFERRING"}

\* Every variable has its type, and the record its session's shape: only a
\* transferring session has a batch, only one past its link has a link.
TypeOK ==
  /\ peerings \in 0 .. MaxPeerings /\ peered \in BOOLEAN
  /\ state \in {"IDLE", "LINK_ESTABLISHING"} \cup Sessions
  /\ session \in Nat /\ link_id \in 0 .. MaxLinks /\ reidentified \in BOOLEAN
  /\ last_offer \subseteq Messages /\ transferring \subseteq Messages
  /\ postponed \in BOOLEAN /\ key \in Keys
  /\ stored \subseteq processed /\ processed \subseteq Messages
  /\ handled \subseteq stored /\ unhandled \subseteq stored \ handled
  /\ inbox \in Seq(SyncEvent) /\ job \in Job
  /\ links \in 0 .. MaxLinks /\ attempts \subseteq 1 .. links
  /\ held \in 0 .. links /\ closing \in Nat /\ tracked \in BOOLEAN
  /\ requests \subseteq SentOffer /\ resources \subseteq SentOffer
  /\ peer_has \subseteq Messages
  /\ link_id # 0 <=> state \in Sessions
  /\ last_offer # {} <=> state = "REQUEST_SENT"
  /\ transferring # {} => state = "RESOURCE_TRANSFERRING"

\* A message is marked handled for the peer only if the peer has it, or can
\* never take it: whatever answers and Resources of ended sessions still
\* come in, whatever failed, and whatever left the store meanwhile.
HandledIsSettled == handled \subseteq peer_has \cup OverLimit

\* The session a number names is the one whose callbacks bear it: an answer
\* or an outcome still to come under the record's number is that of the
\* offer, or of the batch, the record holds.
NumberNamesTheSession ==
  /\ \A r \in requests : Current("REQUEST_SENT", r.session) => r.ids = last_offer
  /\ \A r \in resources : Current("RESOURCE_TRANSFERRING", r.session) => r.ids = transferring

\* What the code says of unpeering, "its callbacks find no peer and are
\* dropped": none is out whose number the record has yet to reach.
CallbacksFindNoPeer ==
  peered => \A r \in requests \cup resources : r.session <= session

\* No session waits for an event that will not come.
EveryWaitIsAnswered ==
  CASE state = "LINK_ESTABLISHING" ->
         \/ attempts # {}
         \/ Reported("active") \/ Reported("down")
    [] state = "LINK_READY" -> job.step \in {"prepare", "send offer"}
    [] state = "REQUEST_SENT" ->
         \/ \E r \in requests : r.session = session
         \/ \E i \in 1 .. Len(inbox) :
              inbox[i].kind \in {"response", "failed"} /\ inbox[i].session = session
    [] state = "RESOURCE_TRANSFERRING" ->
         \/ job.step \in {"send resource", "start resource"} /\ job.session = session
         \/ \E r \in resources : r.session = session
         \/ \E i \in 1 .. Len(inbox) :
              inbox[i].kind = "concluded" /\ inbox[i].session = session
    [] OTHER -> TRUE

\* A session never runs on a link whose loss it is not told of.
LossIsReported ==
  state \in Sessions /\ held # link_id => Reported("down") \/ Reported("active")

\* A link no session uses is about to be closed.
NoUnusedLink ==
  held # 0 /\ state = "IDLE" =>
    \E i \in 1 .. Len(inbox) : inbox[i].kind = "active"

\* Every session ends: one that hangs would keep the peer from being synced
\* for good, as the tick starts a session only from IDLE.
SessionEnds == state # "IDLE" ~> state = "IDLE"
=============================================================================
