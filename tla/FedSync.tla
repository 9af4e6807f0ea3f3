------------------------------- MODULE FedSync -------------------------------
(***************************************************************************)
(* Federation sync of channel and distro blobs between rfed nodes: the     *)
(* peers and their next attempt (rfed/src/sync.rs), the sync tick, the     *)
(* OFFER / MESSAGE_GET session and its teardown (rfed/src/destinations.rs) *)
(* and the blob store (rfed/src/blob_store.rs).                            *)
(*                                                                         *)
(* A session's callbacks each take the node's lock for themselves; between *)
(* two of them the tick, other sessions, publishes and the network go on.  *)
(* A request's way out, its handling and the answer's way back are one     *)
(* step.  Blobs are of one size, limits count blobs.                       *)
(***************************************************************************)
EXTENDS Integers, Sequences, FiniteSets, SequencesExt

CONSTANTS
  Nodes,
  Blobs,          \* message ids, each of one channel or distro
  Wanted,         \* per node, the blobs of its subscribed channels and distros
  Published,      \* per node, the blobs published there
  Announced,      \* per node, the peers whose announces reach it
  Static,         \* per node, its static_peers
  Capacity,       \* storage_limit_bytes, per node
  TransferLimit,  \* transfer_limit_bytes
  SyncLimit,      \* sync_limit_bytes, in an hour
  MaxLinks        \* bound on the links a node has open or not yet forgotten

ASSUME FedAssumption ==
  /\ {Wanted, Published} \subseteq [Nodes -> SUBSET Blobs]
  /\ {Announced, Static} \subseteq [Nodes -> SUBSET Nodes]
  /\ \A n \in Nodes : n \notin Announced[n] \cup Static[n]
  /\ Capacity \in [Nodes -> Nat \ {0}]
  /\ TransferLimit \in Nat \ {0}
  /\ SyncLimit \in Nat \ {0}
  /\ MaxLinks \in Nat

VARIABLES
  store,       \* per node, the index of its BlobStore, oldest first
  made,        \* the blobs published so far
  unsent,      \* per node and blob, how often it was stored and has yet to go out
  sending,     \* per node, the blobs published there and on their way out
  known,       \* per node, its peers
  due,         \* per node, the peers whose next_sync_attempt has come
  sync_links,  \* per node and peer, the link entered for it; 0: none
  sessions,    \* the links opened, until nothing is left of them
  sent         \* per node, sync_bytes_sent

fed_vars == <<store, made, unsent, sending, known, due, sync_links, sessions, sent>>

publishing == <<made, sending>>
peers == <<known, due>>

-----------------------------------------------------------------------------

\* `up` until the link is torn down or lost; `watched` until its closed
\* callback has run.  `want` is the gap asked for, or what was ingested and
\* waits for its fan-out.
Session == [node : Nodes, peer : Nodes, id : 1 .. MaxLinks,
            step : {"linking", "offer", "get", "fan-out", "over"},
            want : SUBSET Blobs, up : BOOLEAN, watched : BOOLEAN]

Held(n) == ToSet(store[n])

FedInit ==
  /\ store = [n \in Nodes |-> <<>>]
  /\ made = {}
  /\ unsent = [n \in Nodes |-> [b \in Blobs |-> 0]]
  /\ sending = [n \in Nodes |-> {}]
  /\ known = Static
  /\ due = Static
  /\ sync_links = [n \in Nodes |-> [p \in Nodes |-> 0]]
  /\ sessions = {}
  /\ sent = [n \in Nodes |-> 0]

-----------------------------------------------------------------------------
(***************************************************************************)
(* BlobStore.                                                              *)
(***************************************************************************)

\* evict_to_fit: the oldest go until the rest fits.
evict_to_fit(s, capacity) ==
  SubSeq(s, IF Len(s) > capacity THEN Len(s) - capacity + 1 ELSE 1, Len(s))

\* store_with_id of one blob after another, none of them held: each evicts what
\* is in its way, at last an earlier one of them.  The first may find `expired`
\* blobs past the TTL, which are looked for at most once in a minute.
store_with_id(s, capacity, expired, order) ==
  IF order = <<>> THEN s
  ELSE evict_to_fit(SubSeq(s, expired + 1, Len(s)) \o order, capacity)

\* Stores the blobs in some order; one that is held is left as it is.
Stored(n, blobs) ==
  /\ \E expired \in 0 .. Len(store[n]), order \in SetToSeqs(blobs \ Held(n)) :
       store' = [store EXCEPT ![n] = store_with_id(@, Capacity[n], expired, order)]
  /\ unsent' = [unsent EXCEPT ![n] =
       [b \in Blobs |-> IF b \in blobs \ Held(n) THEN @[b] + 1 ELSE @[b]]]

\* The blobs are handed to the fan-out.
WentOut(n, blobs) ==
  unsent' = [unsent EXCEPT ![n] = [b \in Blobs |-> IF b \in blobs THEN @[b] - 1 ELSE @[b]]]

\* ingest_channel_send: the store under its own lock, the fan-out after it.
Publish(n, b) ==
  /\ b \in Published[n] \ made
  /\ Stored(n, {b})
  /\ made' = made \cup {b}
  /\ sending' = [sending EXCEPT ![n] = @ \cup {b}]
  /\ UNCHANGED <<peers, sync_links, sessions, sent>>

PublishedGoesOut(n, b) ==
  /\ b \in sending[n]
  /\ WentOut(n, {b})
  /\ sending' = [sending EXCEPT ![n] = @ \ {b}]
  /\ UNCHANGED <<store, made, peers, sync_links, sessions, sent>>

-----------------------------------------------------------------------------
(***************************************************************************)
(* Peers.                                                                  *)
(***************************************************************************)

\* peer_heard: a new peer is due at once.
Heard(n, p) ==
  /\ p \in Announced[n] \ known[n]
  /\ known' = [known EXCEPT ![n] = @ \cup {p}]
  /\ due' = [due EXCEPT ![n] = @ \cup {p}]
  /\ UNCHANGED <<store, unsent, publishing, sync_links, sessions, sent>>

\* tick, for a peer not heard for two hours.
ForgetPeer(n, p) ==
  /\ p \in known[n] \ Static[n]
  /\ known' = [known EXCEPT ![n] = @ \ {p}]
  /\ due' = [due EXCEPT ![n] = @ \ {p}]
  /\ UNCHANGED <<store, unsent, publishing, sync_links, sessions, sent>>

\* The backoff has run out.
DueAgain(n, p) ==
  /\ p \in known[n] \ due[n]
  /\ due' = [due EXCEPT ![n] = @ \cup {p}]
  /\ UNCHANGED <<store, unsent, publishing, known, sync_links, sessions, sent>>

\* A next attempt set for later.
Later(n, p) == due' = [due EXCEPT ![n] = @ \ {p}]

-----------------------------------------------------------------------------
(***************************************************************************)
(* The sync tick.                                                          *)
(***************************************************************************)

SessionsWith(n, p) == {s \in sessions : s.node = n /\ s.peer = p}

\* sync_links.retain: an entry counts while its link lives.
live(n, p) == \E s \in SessionsWith(n, p) : s.id = sync_links[n][p] /\ s.up

FreeIds(n) == (1 .. MaxLinks) \ {s.id : s \in {t \in sessions : t.node = n}}

\* The peer's app link is not up, or its identity unknown: in five seconds.
Unready(n, p) ==
  /\ p \in due[n] /\ ~live(n, p)
  /\ Later(n, p)
  /\ UNCHANGED <<store, unsent, publishing, known, sync_links, sessions, sent>>

Opened(n, p, id) ==
  [node |-> n, peer |-> p, id |-> id, step |-> "linking", want |-> {},
   up |-> TRUE, watched |-> TRUE]

\* tick_sync opens a link; the peer stays due until an outcome is recorded.
TickPeer(n, p) ==
  /\ p \in due[n] /\ ~live(n, p)
  /\ \E id \in FreeIds(n) :
       /\ \A other \in FreeIds(n) : id <= other
       /\ sync_links' = [sync_links EXCEPT ![n][p] = id]
       /\ sessions' = sessions \cup {Opened(n, p, id)}
  /\ UNCHANGED <<store, unsent, publishing, peers, sent>>

-----------------------------------------------------------------------------
(***************************************************************************)
(* A session.                                                              *)
(***************************************************************************)

Finished(s) == s.step = "over" /\ ~s.up /\ ~s.watched

\* s becomes t, and is forgotten when nothing is left of it.
Becomes(s, t) == sessions' = (sessions \ {s}) \cup {r \in {t} : ~Finished(r)}

\* BUG: the link is left to the peer.
left_up(s) == [s EXCEPT !.step = "over", !.want = {}]

\* teardown_sync: whatever the outcome, the next attempt is later.
torn_down(s) == [s EXCEPT !.step = "over", !.want = {}, !.up = FALSE]

teardown_sync(s) == Becomes(s, torn_down(s)) /\ Later(s.node, s.peer)

\* link_established: run_sync_session sends the OFFER.
LinkUp(s) ==
  /\ s.step = "linking" /\ s.up
  /\ Becomes(s, [s EXCEPT !.step = "offer"])
  /\ UNCHANGED <<store, unsent, publishing, peers, sync_links, sent>>

\* It finds the link gone.
OfferNotSent(s) ==
  /\ s.step = "linking" /\ s.up
  /\ teardown_sync(s)
  /\ UNCHANGED <<store, unsent, publishing, known, sync_links, sent>>

\* handle_offer answers with everything held, gap_from_peer keeps what is
\* wanted and not held.
gap_from_peer(n, p) == (Held(p) \cap Wanted[n]) \ Held(n)

\* offer_response: asks for the gap, unless there is none.
OfferAnswered(s) ==
  LET want == gap_from_peer(s.node, s.peer) IN
  /\ s.step = "offer" /\ s.up
  /\ \/ want = {} /\ teardown_sync(s)
     \/ want # {} /\ Becomes(s, [s EXCEPT !.step = "get", !.want = want]) /\ UNCHANGED due
  /\ UNCHANGED <<store, unsent, publishing, known, sync_links, sent>>

\* The link went down meanwhile: MESSAGE_GET cannot be sent, and the error is
\* dropped with no outcome recorded.
GetNotSent(s) ==
  /\ s.step = "offer" /\ s.up /\ gap_from_peer(s.node, s.peer) # {}
  /\ Becomes(s, torn_down(s))
  /\ UNCHANGED <<store, unsent, publishing, peers, sync_links, sent>>

\* handle_message_get: what is still held, up to both limits, counted from
\* where the hour stands or, with the hour over, from 0.
Answers(p, want, before) ==
  LET there == Held(p) \cap want
      limit == IF TransferLimit < SyncLimit - before THEN TransferLimit
               ELSE SyncLimit - before
  IN  {a \in SUBSET there :
         Cardinality(a) = IF Cardinality(there) < limit THEN Cardinality(there) ELSE limit}

\* BUG: a blob held already counts as new, as store_with_id answers Ok.
IngestAll(n, blobs) == blobs

\* ingest_message_get_response: the blobs not held.
Ingested(n, blobs) == blobs \ Held(n)

\* get_response: ingested under the sync lock; the fan-out comes after it.
GetAnswered(s) ==
  /\ s.step = "get" /\ s.up
  /\ \E before \in {0, sent[s.peer]} : \E answer \in Answers(s.peer, s.want, before) :
       /\ sent' = [sent EXCEPT ![s.peer] = before + Cardinality(answer)]
       /\ Stored(s.node, Ingested(s.node, answer))
       /\ Becomes(s, [s EXCEPT !.step = "fan-out", !.want = Ingested(s.node, answer)])
  /\ UNCHANGED <<publishing, peers, sync_links>>

\* run_sync_dispatch of each blob ingested, with no lock held.
FanOut(s) ==
  /\ s.step = "fan-out"
  /\ WentOut(s.node, s.want)
  /\ teardown_sync(s)
  /\ UNCHANGED <<store, publishing, known, sync_links, sent>>

\* offer_failed, get_failed: no answer came, though the peer may have served
\* the request.
RequestFailed(s) ==
  /\ s.step \in {"offer", "get"}
  /\ \/ UNCHANGED sent
     \/ s.step = "get" /\ \E before \in {0, sent[s.peer]} :
          \E answer \in Answers(s.peer, s.want, before) :
            sent' = [sent EXCEPT ![s.peer] = before + Cardinality(answer)]
  /\ teardown_sync(s)
  /\ UNCHANGED <<store, unsent, publishing, known, sync_links>>

\* The link is lost, or was never established.
LinkDies(s) ==
  /\ s.up
  /\ Becomes(s, [s EXCEPT !.up = FALSE, !.step = IF @ = "linking" THEN "over" ELSE @])
  /\ UNCHANGED <<store, unsent, publishing, peers, sync_links, sent>>

\* link_closed removes the peer's entry, whichever link it holds by now.
ClosedCallback(s) ==
  /\ ~s.up /\ s.watched
  /\ sync_links' = [sync_links EXCEPT ![s.node][s.peer] = 0]
  /\ Becomes(s, [s EXCEPT !.watched = FALSE])
  /\ UNCHANGED <<store, unsent, publishing, peers, sent>>

-----------------------------------------------------------------------------

\* rebuild_index finds what was stored, load_peers what was last saved, and
\* seed_static_peers makes the static ones due.
FedRestart(n) ==
  /\ sessions' = {s \in sessions : s.node # n}
  /\ sync_links' = [sync_links EXCEPT ![n] = [p \in Nodes |-> 0]]
  /\ sending' = [sending EXCEPT ![n] = {}]
  /\ unsent' = [unsent EXCEPT ![n] = [b \in Blobs |-> 0]]
  /\ sent' = [sent EXCEPT ![n] = 0]
  /\ \E saved \in SUBSET known[n] :
       /\ known' = [known EXCEPT ![n] = saved \cup Static[n]]
       /\ \E later \in SUBSET (saved \ Static[n]) :
            due' = [due EXCEPT ![n] = (saved \cup Static[n]) \ later]
  /\ UNCHANGED <<store, made>>

FedNext ==
  \/ \E n \in Nodes, b \in Blobs : Publish(n, b) \/ PublishedGoesOut(n, b)
  \/ \E n, p \in Nodes :
       Heard(n, p) \/ ForgetPeer(n, p) \/ DueAgain(n, p) \/ Unready(n, p) \/ TickPeer(n, p)
  \/ \E s \in sessions :
       \/ LinkUp(s) \/ OfferNotSent(s) \/ OfferAnswered(s) \/ GetNotSent(s) \/ GetAnswered(s) \/ FanOut(s)
       \/ RequestFailed(s) \/ LinkDies(s) \/ ClosedCallback(s)
  \/ \E n \in Nodes : FedRestart(n)

FedSpec == FedInit /\ [][FedNext]_fed_vars

With(n, p, Step(_)) == \E s \in SessionsWith(n, p) : Step(s)

\* The main loop ticks on, callbacks run, a request is answered or times out;
\* a peer tried again and again is reached at last, and asked for a gap hour
\* after hour it gets blobs through.
FairFedSpec ==
  /\ FedSpec
  /\ \A n \in Nodes : \A p \in Announced[n] \cup Static[n] :
       /\ WF_fed_vars(DueAgain(n, p)) /\ SF_fed_vars(TickPeer(n, p))
       /\ SF_fed_vars(With(n, p, LinkUp))
       /\ SF_fed_vars(With(n, p, OfferAnswered)) /\ SF_fed_vars(With(n, p, GetAnswered) /\ store' # store)
       /\ WF_fed_vars(With(n, p, FanOut)) /\ WF_fed_vars(With(n, p, RequestFailed))
       /\ WF_fed_vars(With(n, p, ClosedCallback))

-----------------------------------------------------------------------------
(***************************************************************************)
(* Properties.                                                             *)
(***************************************************************************)

\* Types; a store never outgrows its limit and holds no blob twice, and the
\* hour's total keeps to its limit.
FedTypeOK ==
  /\ \A n \in Nodes :
       /\ store[n] \in Seq(Blobs) /\ Len(store[n]) <= Capacity[n]
       /\ Cardinality(Held(n)) = Len(store[n])
       /\ sent[n] \in 0 .. SyncLimit
  /\ made \subseteq Blobs
  /\ unsent \in [Nodes -> [Blobs -> Int]]
  /\ sending \in [Nodes -> SUBSET Blobs]
  /\ known \in [Nodes -> SUBSET Nodes]
  /\ due \in [Nodes -> SUBSET Nodes]
  /\ sync_links \in [Nodes -> [Nodes -> 0 .. MaxLinks]]
  /\ sessions \subseteq Session

\* Each time a node stores a blob (its own publish or a peer's) it goes out to
\* the subscribers once: none is forgotten but by a restart, and none goes out
\* twice although two sessions pulled it (sync.rs:543-577, destinations.rs:1789).
OncePerStay ==
  \A n \in Nodes, b \in Blobs :
    unsent[n][b] = Cardinality({s \in sessions : s.node = n /\ s.step = "fan-out" /\ b \in s.want})
                   + IF b \in sending[n] THEN 1 ELSE 0

\* A blob a peer keeps is pulled, through lost links, unanswered requests,
\* truncated answers and restarts: sync starts over with the gap there is
\* (destinations.rs:1385-1499, 1690-1892).
GapCloses ==
  \A n \in Nodes : \A p \in Announced[n] \cup Static[n], b \in Wanted[n] :
    <>[](p \in known[n] /\ b \in Held(p)) => []<>(b \in Held(n))

\* "Skip if we already have a live link to this peer" (destinations.rs:1401).
OneLinkPerPeer ==
  \A n, p \in Nodes : Cardinality({s \in SessionsWith(n, p) : s.up}) <= 1
=============================================================================
