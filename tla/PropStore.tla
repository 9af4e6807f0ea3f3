------------------------------ MODULE PropStore ------------------------------
(***************************************************************************)
(* The store of the LXMF propagation node (rfed/src/lxmf_propagation.rs):  *)
(* PropagationEntries with the marks of its peers, the locally processed   *)
(* ids, the loop of ingest_propagation_batch over a batch's messages,      *)
(* eviction, collection by the recipient, peering, and what survives a     *)
(* clean exit and a crash.  How a batch arrives is InboundSync's; how a    *)
(* peer comes to have a message is PeerSync's.                             *)
(*                                                                         *)
(* The node's lock is taken once for each message of a batch, and not held *)
(* while its recipient is pushed or woken: every other use of the node     *)
(* comes between any two of these steps.                                   *)
(***************************************************************************)
EXTENDS Integers, FiniteSets

CONSTANTS
  Msgs, Peers, StaticPeers,
  NoMsg,
  Nobody,       \* the sender of a batch that is no peer's
  Uploads,      \* the threads that ingest a batch: its sender, its messages
  StorageLimit, \* storage_limit_bytes, in messages of one size
  Scenes        \* bounds: the uploads that come, the messages whose age passes
                \* the two limits, and how many exits and crashes there are

NoSlot == -1
NoTime == -1

\* PropPeer.slot: as many as there are peers suffice.
Slots == 0..Cardinality(Peers) - 1

\* How long ago a message was received: 1, more than MESSAGE_EXPIRY_SECS;
\* 2, more than LOCALLY_PROCESSED_EXPIRY_SECS.
Expired == 1
Forgettable == 2

ASSUME ConstantsAssumption ==
  /\ NoMsg \notin Msgs /\ IsFiniteSet(Peers) /\ StaticPeers \subseteq Peers /\ Nobody \notin Peers
  /\ \A u \in Uploads : u.sender \in Peers \cup {Nobody} /\ u.messages \subseteq Msgs
  /\ StorageLimit \in Nat
  /\ Scenes \subseteq [uploads : SUBSET Uploads, ageing : SUBSET Msgs, restarts : Nat]

VARIABLES
  entries,      \* the rows and the files
  before,       \* <<m, n>>: m was received before n, of those in entries
  received,     \* when, for those in entries
  handled, unhandled,   \* handled_peers and unhandled_peers of a message
  processed,    \* locally_processed: the received time recorded
  slot,         \* peers
  departed,     \* departed_slots
  batch,        \* per upload: from_peer, the messages to come, the one being delivered
  file,         \* locally_processed and peers on disk
  scene,
  woken,        \* the messages whose recipient was pushed or woken
  restarts

stored == <<entries, before, received>>
marks == <<handled, unhandled>>
peering == <<slot, departed>>
vars == <<stored, marks, processed, peering, batch, file, scene, woken, restarts>>

-----------------------------------------------------------------------------

peers == {p \in Peers : slot[p] # NoSlot}

\* handled_message_count + unhandled_message_count
Marked(s) == {m \in Msgs : s \in handled[m] \cup unhandled[m]}

NoBatch == [on |-> FALSE, from |-> Nobody, todo |-> {}, deliver |-> NoMsg]

Init ==
  /\ entries = {} /\ before = {}
  /\ received = [m \in Msgs |-> NoTime]
  /\ handled = [m \in Msgs |-> {}] /\ unhandled = [m \in Msgs |-> {}]
  /\ processed = [m \in Msgs |-> NoTime]
  /\ slot \in [Peers -> Slots \cup {NoSlot}]
  /\ \A p \in Peers : slot[p] # NoSlot <=> p \in StaticPeers
  /\ {slot[p] : p \in StaticPeers} = 0..Cardinality(StaticPeers) - 1
  /\ departed = [p \in Peers |-> NoSlot]
  /\ batch = [u \in Uploads |-> NoBatch]
  /\ file = [ids |-> processed, peers |-> [p \in {} |-> [m \in Msgs |-> "none"]]]
  /\ woken = {}
  /\ scene \in Scenes
  /\ restarts = 0

-----------------------------------------------------------------------------
(***************************************************************************)
(* A batch.                                                                *)
(***************************************************************************)

\* ingest (setup): who sent it is judged once, before its stamps are.
Setup(u) ==
  /\ ~batch[u].on
  /\ batch' = [batch EXCEPT ![u] = [on |-> TRUE, todo |-> u.messages, deliver |-> NoMsg,
                                    from |-> IF u.sender \in peers THEN u.sender ELSE Nobody]]
  /\ UNCHANGED <<stored, marks, processed, peering, file, scene, woken, restarts>>

\* The rest of the batch, once m is dealt with.
Rest(b, m, deliver) ==
  [b EXCEPT !.todo = @ \ {m}, !.deliver = deliver, !.on = b.todo # {m} \/ deliver # NoMsg]

KnownHere(m) == m \in entries \/ processed[m] # NoTime

\* mark_handled_for, of a message that is in the store.
mark_handled_for(from, m, queued) ==
  LET own == {slot[p] : p \in peers \cap {from}}
  IN /\ handled' = [handled EXCEPT ![m] = @ \cup own]
     /\ unhandled' = [unhandled EXCEPT ![m] = (@ \cup queued) \ own]

\* store_message: held, recorded, and queued for every peer but its sender.
store_message(u, m) ==
  LET b == batch[u]
  IN /\ m \in b.todo /\ b.deliver = NoMsg /\ ~KnownHere(m)
     /\ entries' = entries \cup {m}
     /\ before' = before \cup (entries \X {m})
     /\ received' = [received EXCEPT ![m] = 0]
     /\ processed' = [processed EXCEPT ![m] = 0]
     /\ mark_handled_for(b.from, m, {slot[p] : p \in peers \ {b.from}})
     /\ batch' = [batch EXCEPT ![u] = Rest(b, m, m)]
     /\ UNCHANGED <<peering, file, scene, woken, restarts>>

\* A message that is held or was: its sender has it.
Duplicate(u, m) ==
  LET b == batch[u]
  IN /\ m \in b.todo /\ b.deliver = NoMsg /\ KnownHere(m)
     /\ IF m \in entries THEN mark_handled_for(b.from, m, {}) ELSE UNCHANGED marks
     /\ batch' = [batch EXCEPT ![u] = Rest(b, m, NoMsg)]
     /\ UNCHANGED <<stored, processed, peering, file, scene, woken, restarts>>

\* The file could not be written: nothing is recorded, a later copy is stored.
NotWritten(u, m) ==
  LET b == batch[u]
  IN /\ m \in b.todo /\ b.deliver = NoMsg /\ ~KnownHere(m)
     /\ batch' = [batch EXCEPT ![u] = Rest(b, m, NoMsg)]
     /\ UNCHANGED <<stored, marks, processed, peering, file, scene, woken, restarts>>

\* dispatch_live_or_notify, which does not take the node.
Deliver(u) ==
  LET b == batch[u]
  IN /\ b.deliver # NoMsg
     /\ woken' = woken \cup {b.deliver}
     /\ batch' = [batch EXCEPT ![u] = [b EXCEPT !.deliver = NoMsg, !.on = b.todo # {}]]
     /\ UNCHANGED <<stored, marks, processed, peering, file, scene, restarts>>

-----------------------------------------------------------------------------
(***************************************************************************)
(* What leaves the store.                                                  *)
(***************************************************************************)

remove(gone) ==
  /\ entries' = entries \ gone
  /\ before' = {o \in before : o[1] \notin gone /\ o[2] \notin gone}
  /\ received' = [m \in Msgs |-> IF m \in gone THEN NoTime ELSE received[m]]
  /\ handled' = [m \in Msgs |-> IF m \in gone THEN {} ELSE handled[m]]
  /\ unhandled' = [m \in Msgs |-> IF m \in gone THEN {} ELSE unhandled[m]]

\* Collected by its recipient (the haves of /get), or found without its file
\* when it was to be sent (forget_missing_messages).
Collected(m) ==
  /\ m \in entries
  /\ remove({m})
  /\ UNCHANGED <<processed, peering, batch, file, scene, woken, restarts>>

\* evict_expired, then enforce_storage_limit: the oldest, until they fit.
Evict ==
  LET old == {m \in entries : received[m] >= Expired}
      rest == entries \ old
      newer(m) == {n \in rest : <<m, n>> \in before}
      gone == old \cup {m \in rest : Cardinality(newer(m)) >= StorageLimit}
  IN /\ gone # {}
     /\ remove(gone)
     /\ UNCHANGED <<processed, peering, batch, file, scene, woken, restarts>>

\* clean_transient_id_caches
Clean ==
  LET gone == {m \in Msgs : processed[m] >= Forgettable}
  IN /\ gone # {}
     /\ processed' = [m \in Msgs |-> IF m \in gone THEN NoTime ELSE processed[m]]
     /\ woken' = woken \ gone
     /\ UNCHANGED <<stored, marks, peering, batch, file, scene, restarts>>

\* Of messages held, the first received is the first to be old; no push lasts
\* for a month.
GrowsOld(m) ==
  LET older(t) == IF t \in {NoTime, Forgettable} THEN t ELSE t + 1
  IN /\ \A u \in Uploads : batch[u].deliver # m
     /\ older(processed[m]) # processed[m] \/ older(received[m]) # received[m]
     /\ \A n \in entries : <<n, m>> \in before => received[n] = Forgettable \/ received[n] > received[m]
     /\ received' = [received EXCEPT ![m] = older(@)]
     /\ processed' = [processed EXCEPT ![m] = older(@)]
     /\ file' = [file EXCEPT !.ids[m] = older(@)]
     /\ UNCHANGED <<entries, before, marks, peering, batch, woken, scene, restarts>>

-----------------------------------------------------------------------------
(***************************************************************************)
(* Peers.                                                                  *)
(***************************************************************************)

\* BUG: a departed peer's marks do not hold its slot.
lowest_free_slot(slots, departed_slots) ==
  LET held == {slots[p] : p \in Peers}
  IN CHOOSE s \in Slots \ held : \A t \in Slots \ held : s <= t

\* The lowest slot no peer has, and no departed peer whose marks remain.
free_peer_slot(slots, departed_slots) ==
  LET held == {slots[p] : p \in Peers} \cup {departed_slots[p] : p \in Peers}
  IN CHOOSE s \in Slots \ held : \A t \in Slots \ held : s <= t

\* The departed whose marked messages have all gone hold nothing any more.
still_marked(departed_slots) ==
  [p \in Peers |-> IF departed_slots[p] # NoSlot /\ Marked(departed_slots[p]) = {} THEN NoSlot ELSE departed_slots[p]]

\* peer (an announce was heard), insert_peer: the slot it left, or a free one.
Peered(p) ==
  /\ p \notin peers
  /\ IF departed[p] # NoSlot
       THEN /\ slot' = [slot EXCEPT ![p] = departed[p]]
            /\ departed' = [departed EXCEPT ![p] = NoSlot]
       ELSE /\ departed' = still_marked(departed)
            /\ slot' = [slot EXCEPT ![p] = free_peer_slot(slot, departed')]
  /\ UNCHANGED <<stored, marks, processed, batch, file, scene, woken, restarts>>

\* unpeer: culled by tick_sync, which spares static peers, or access denied.
Unpeered(p) ==
  /\ p \in peers
  /\ slot' = [slot EXCEPT ![p] = NoSlot]
  /\ departed' = [departed EXCEPT ![p] = IF Marked(slot[p]) # {} THEN slot[p] ELSE @]
  /\ UNCHANGED <<stored, marks, processed, batch, file, scene, woken, restarts>>

\* A session of PeerSync's found that p has m, or sent it.
SyncedTo(m, p) ==
  /\ p \in peers /\ m \in entries /\ slot[p] \in unhandled[m]
  /\ mark_handled_for(p, m, {})
  /\ UNCHANGED <<stored, processed, peering, batch, file, scene, woken, restarts>>

-----------------------------------------------------------------------------
(***************************************************************************)
(* The end of the process, and the next start.                             *)
(***************************************************************************)

\* write_peer_record
MarksOf(s) == [m \in Msgs |-> IF s \in handled[m] THEN "handled" ELSE IF s \in unhandled[m] THEN "unhandled" ELSE "none"]

\* save_all: of the peers, not of those departed; no ids, and the file stays.
save_all == [ids |-> IF \E m \in Msgs : processed[m] # NoTime THEN processed ELSE file.ids,
             peers |-> [p \in peers |-> MarksOf(slot[p])]]

\* BUG: what was stored since the file was written is not recorded.
read_from_file(saved) == [m \in Msgs |-> IF saved.ids[m] >= Forgettable THEN NoTime ELSE saved.ids[m]]

\* load_locally_processed: what the file names and what is held, cleaned.
load_locally_processed(saved) ==
  LET read(m) == IF saved.ids[m] = NoTime /\ m \in entries THEN received[m] ELSE saved.ids[m]
  IN [m \in Msgs |-> IF read(m) >= Forgettable THEN NoTime ELSE read(m)]

\* The files are the store; their names give the order received.
index_messagestore == UNCHANGED stored

\* The messages still held that a peer's record names so.
read_peer_record(record, mark) == {m \in entries : record[m] = mark}

\* In the order of the file, from the first slot on; nobody has departed.
load_peers(saved) ==
  LET known == DOMAIN saved.peers
      named(m, mark) == {slot'[p] : p \in {q \in known : m \in read_peer_record(saved.peers[q], mark)}}
  IN /\ slot' \in [Peers -> Slots \cup {NoSlot}]
     /\ {slot'[p] : p \in known} = 0..Cardinality(known) - 1
     /\ departed' = [p \in Peers |-> NoSlot]
     /\ handled' = [m \in Msgs |-> named(m, "handled")]
     /\ unhandled' = [m \in Msgs |-> named(m, "unhandled")]

\* new, enable: the store, the peers, the ids, then the static peers.  The ids
\* and the marks are those saved last.
Start(saved) ==
  LET now == DOMAIN saved.peers \cup StaticPeers
  IN /\ index_messagestore
     /\ load_peers(saved)
     /\ \A p \in Peers : slot'[p] # NoSlot <=> p \in now
     /\ {slot'[p] : p \in now} = 0..Cardinality(now) - 1
     /\ processed' = load_locally_processed(saved)
     /\ file' = saved
     /\ batch' = [u \in Uploads |-> NoBatch]
     /\ restarts' = restarts + 1
     /\ UNCHANGED scene

CleanExit ==
  /\ restarts < scene.restarts
  /\ Start(save_all)
  /\ woken' = {m \in woken : processed[m] < Forgettable}

\* Killed: what was recorded since the last clean exit is known no more,
\* unless the message is still held, and the file does not name it with a time
\* of 180 days ago, which then counts and is dropped.
Crash ==
  /\ restarts < scene.restarts
  /\ Start(file)
  /\ woken' = {m \in woken : (IF file.ids[m] = NoTime THEN received[m] ELSE file.ids[m]) \in 0..Forgettable - 1}

Next ==
  \/ \E u \in scene.uploads : Setup(u) \/ Deliver(u)
  \/ \E u \in scene.uploads, m \in Msgs : store_message(u, m) \/ Duplicate(u, m) \/ NotWritten(u, m)
  \/ \E m \in Msgs : Collected(m)
  \/ \E m \in scene.ageing : GrowsOld(m)
  \/ Evict \/ Clean
  \/ \E p \in Peers : Peered(p) \/ Unpeered(p)
  \/ \E m \in Msgs, p \in Peers : SyncedTo(m, p)
  \/ CleanExit \/ Crash

Spec == Init /\ [][Next]_vars

-----------------------------------------------------------------------------
(***************************************************************************)
(* Properties.                                                             *)
(***************************************************************************)

\* Marks are of held messages only, and for one peer a message is handled or
\* unhandled, not both; two peers never share a slot, nor does a peer use one
\* that a departed peer's marks still hold.
TypeOK ==
  /\ entries \subseteq Msgs /\ before \subseteq entries \X entries
  /\ \A m, n \in entries : m # n => (<<m, n>> \in before <=> <<n, m>> \notin before)
  /\ received \in [Msgs -> NoTime..Forgettable] /\ processed \in [Msgs -> NoTime..Forgettable]
  /\ \A m \in Msgs :
       /\ received[m] # NoTime <=> m \in entries
       /\ handled[m] \cup unhandled[m] \subseteq (IF m \in entries THEN Slots ELSE {})
       /\ handled[m] \cap unhandled[m] = {}
  /\ slot \in [Peers -> Slots \cup {NoSlot}] /\ departed \in [Peers -> Slots \cup {NoSlot}]
  /\ \A p, q \in Peers :
       /\ p # q /\ slot[p] # NoSlot => slot[p] # slot[q]
       /\ p \in peers => departed[p] = NoSlot
       /\ slot[p] # NoSlot /\ slot[p] = departed[q] => Marked(slot[p]) = {}
  /\ woken \subseteq Msgs /\ restarts \in 0..scene.restarts

\* What a peer's slot says of a message.
MarkOf(m, p) ==
  LET s == IF slot[p] # NoSlot THEN slot[p] ELSE departed[p]
  IN IF s = NoSlot THEN "none" ELSE MarksOf(s)[m]

ByHash == INSTANCE PeerMarks WITH
  held <- entries,
  marks <- [m \in Msgs |-> [p \in Peers |-> MarkOf(m, p)]],
  file <- file.peers

\* Slots are given up and taken again, marks outlive their peer, and the
\* files are read in any order; yet every step is one of LXMF's, where each
\* hash has its marks: no peer takes over another's, and one that peers again
\* has its own.
MarksByHash == ByHash!Spec

\* However many uploads and peers bring a message, and whatever becomes of it
\* in the store, its recipient is pushed or woken for it once, until its id is
\* forgotten after 180 days or lost in a crash.
WokenOnce ==
  [][\A u \in Uploads : batch[u].deliver # NoMsg /\ batch'[u].deliver # batch[u].deliver /\ restarts' = restarts
       => batch[u].deliver \notin woken]_vars

=============================================================================
