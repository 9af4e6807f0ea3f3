----------------------------- MODULE BackupChain -----------------------------
(***************************************************************************)
(* The backup chain of custody (SPEC §11): a node pushes the subscriptions *)
(* it takes to its backup node, which delivers for a silent owner and      *)
(* pushes what it adopts to a backup of its own.  The subscription tables  *)
(* (rfed/src/subscription.rs), the backup tick, the push and the handler   *)
(* of /rfed/backup/push (rfed/src/destinations.rs) of every node.          *)
(*                                                                         *)
(* Time counts owner_offline_secs divided by Offline; a row's age and a    *)
(* peer's silence stop counting where no guard tells more apart.  What the *)
(* store and the deferred queue hold when the tick asks is left open: the  *)
(* queue is DeferredQueue's.                                               *)
(***************************************************************************)
EXTENDS Integers, Sequences, FiniteSets

CONSTANTS
  Nodes,
  Subscribers,
  Channels,
  Designated,   \* per node, primary_node and secondary_nodes; <<>>: auto-select
  Hears,        \* <<n, p>>: node n can hear p's announces
  Asks,         \* <<n, pair>>: the requests of devices considered
  Distros,      \* per node, the hashes registered there as distros
  Offline,      \* the silence that makes an owner offline
  Ttl,          \* the age at which a backup row is pruned
  PendingCap,   \* PENDING_BACKUP_CAP
  MostPushes    \* bound: as many are out when no tick finds a path

ASSUME ChainAssumption ==
  /\ Designated \in [Nodes -> Seq(Nodes)]
  /\ Hears \subseteq Nodes \X Nodes
  /\ Asks \subseteq Nodes \X (Subscribers \X Channels)
  /\ Distros \in [Nodes -> SUBSET (Subscribers \cup Channels)]
  /\ Offline \in Nat \ {0}
  /\ Ttl \in Nat
  /\ Ttl >= 2 * Offline
  /\ PendingCap \in Nat
  /\ MostPushes \in Nat \ {0}

Pairs == Subscribers \X Channels

VARIABLES
  own,       \* per node, the pairs of its rows without an owner
  backup,    \* per node, its backup rows, by pair and owner
  pending,   \* pending_backup_pushes, per node
  pushes,    \* the pushes out, each with its requeue callbacks
  silence,   \* per node and peer, since `last_heard`
  selected   \* selected_backups, per node

chain_vars == <<own, backup, pending, pushes, silence, selected>>

Unknown == Offline + 1  \* not in `peers`

\* A row is its pair, its owner and its age since `last_refreshed`.
Row == [pair : Pairs, owner : Nodes, age : 0 .. Ttl + 1]

\* A push whose link is being established or, once it is up, whose answer is
\* awaited.
Push == [from : Nodes, to : Nodes, pairs : SUBSET Pairs, up : BOOLEAN]

alive(n) == {p \in Nodes : silence[n][p] <= Offline}
heard_recently(n, p) == silence[n][p] < Offline

holds(n, pair) == pair \in own[n] \/ \E r \in backup[n] : r.pair = pair
is_distro_pair(n, pair) == pair[1] \in Distros[n] \/ pair[2] \in Distros[n]

\* The pairs a node is answerable for towards its backup.
InHand(n) == pending[n] \cup UNION {p.pairs : p \in {q \in pushes : q.from = n}}

ChainInit ==
  /\ own = [n \in Nodes |-> {}]
  /\ backup = [n \in Nodes |-> {}]
  /\ pending = [n \in Nodes |-> {}]
  /\ pushes = {}
  /\ silence = [n \in Nodes |-> [p \in Nodes |-> Unknown]]
  /\ selected = [n \in Nodes |-> {}]

-----------------------------------------------------------------------------
(***************************************************************************)
(* The subscriber's requests.                                              *)
(***************************************************************************)

\* SubscriptionTable::subscribe: a pair held in any row is renewed, and a
\* backup row is its owner's to refresh.
subscribe(n, pair) ==
  own' = IF holds(n, pair) THEN own ELSE [own EXCEPT ![n] = @ \cup {pair}]

\* The queue keeps a pair as often as it was pushed, and its cap counts them
\* all: while it holds anything it may be full.
queue_push(n, pair) ==
  \/ /\ Cardinality(pending[n]) < PendingCap
     /\ pending' = [pending EXCEPT ![n] = @ \cup {pair}]
  \/ /\ pending[n] # {} \/ PendingCap = 0
     /\ UNCHANGED pending

\* A pair under or by a distro registered here is refused, as is what the
\* policy does not allow, which changes nothing.
Subscribe(n, pair) ==
  /\ <<n, pair>> \in Asks
  /\ ~ is_distro_pair(n, pair)
  /\ subscribe(n, pair)
  /\ queue_push(n, pair)
  /\ UNCHANGED <<backup, pushes, silence, selected>>

\* SubscriptionTable::unsubscribe takes every row of the pair, a backup row
\* too.
unsubscribe(n, pair) ==
  /\ own' = [own EXCEPT ![n] = @ \ {pair}]
  /\ backup' = [backup EXCEPT ![n] = {r \in @ : r.pair # pair}]

Unsubscribe(n, pair) ==
  /\ holds(n, pair)
  /\ unsubscribe(n, pair)
  /\ UNCHANGED <<pending, pushes, silence, selected>>

\* The fan-out finds the own row not renewed for its lifetime.
ExpireStale(n, pair) ==
  /\ pair \in own[n]
  /\ own' = [own EXCEPT ![n] = @ \ {pair}]
  /\ UNCHANGED <<backup, pending, pushes, silence, selected>>

-----------------------------------------------------------------------------
(***************************************************************************)
(* tick_backup_delivery, under the node's mutex to its end.                *)
(***************************************************************************)

\* resolve_backup: the first designated node alive, else the first; without
\* one the node selected while it is alive, else one heard last.
resolve_backup(n) ==
  IF Designated[n] # <<>>
  THEN LET up == {i \in DOMAIN Designated[n] : Designated[n][i] \in alive(n)}
       IN  {Designated[n][i] : i \in IF up = {} THEN {1} ELSE {j \in up : \A k \in up : j <= k}}
  ELSE IF selected[n] # {} /\ selected[n] \subseteq alive(n) THEN selected[n]
  ELSE {p \in alive(n) : \A q \in alive(n) : silence[n][p] <= silence[n][q]}

\* push_subscriptions_to_backup: without an active path, the backup's
\* identity and a link the pairs are queued again.
Sent(n, to, pairs, path) ==
  IF path /\ pairs # {} THEN {[from |-> n, to |-> to, pairs |-> pairs, up |-> FALSE]} ELSE {}
Requeued(pairs, path) == IF path THEN {} ELSE pairs

prune_stale_backups(n) == {r \in backup[n] : r.age <= Ttl}

\* BUG: an owner heard recently is delivered for as well.
all_rows(n) == {r \in prune_stale_backups(n) : r.pair[2] \notin Distros[n]}

\* backup_delivery_tick: the rows delivered for, their owner silent.
offline_rows(n) ==
  {r \in prune_stale_backups(n) : r.pair[2] \notin Distros[n] /\ ~ heard_recently(n, r.owner)}

\* adopted_pairs_for_chain_extension: never back to the owner.
ChainExtension(adopted, to) == {r.pair : r \in {a \in adopted : a.owner # to}}

Backups(n) == IF resolve_backup(n) = {} THEN {{}} ELSE {{t} : t \in resolve_backup(n)}

\* The pairs taken off the queue go back where there is no backup node.
\* Adopted is a row whose subscriber has something queued, or for which the
\* store has blobs to queue; either may be so.
Tick(n) ==
  \E to \in Backups(n), adopted \in SUBSET offline_rows(n), path \in BOOLEAN :
    LET more == UNION {ChainExtension(adopted, t) : t \in to} IN
    /\ path => Cardinality(pushes) < MostPushes
    /\ selected' = IF Designated[n] = <<>> THEN [selected EXCEPT ![n] = to] ELSE selected
    /\ backup' = [backup EXCEPT ![n] = prune_stale_backups(n)]
    /\ pending' = [pending EXCEPT ![n] =
         IF to = {} THEN @ ELSE Requeued(@, path) \cup Requeued(more, path)]
    /\ pushes' = pushes \cup UNION {Sent(n, t, pending[n], path) \cup Sent(n, t, more, path) : t \in to}
    /\ UNCHANGED <<own, silence>>

-----------------------------------------------------------------------------
(***************************************************************************)
(* A push: a link, the request on it, and its answer.                      *)
(***************************************************************************)

\* The established callback sends the request, with the two callbacks that
\* queue the pairs again.
Established(p) ==
  /\ ~ p.up
  /\ pushes' = (pushes \ {p}) \cup {[p EXCEPT !.up = TRUE]}
  /\ UNCHANGED <<own, backup, pending, silence, selected>>

\* A link that never comes up takes the pairs with it.
PushLost(p) ==
  /\ ~ p.up
  /\ pushes' = pushes \ {p}
  /\ UNCHANGED <<own, backup, pending, silence, selected>>

\* SubscriptionTable::subscribe_backup, of every pair it may hold.
Refreshed(n, owner, pairs) ==
  {r \in backup[n] : ~ (r.owner = owner /\ r.pair \in pairs)}
  \cup {[pair |-> p, owner |-> owner, age |-> 0] : p \in pairs}

\* BUG: the callbacks only tear the link down.
AgainNever(p) == UNCHANGED pending

Again(p) == pending' = [pending EXCEPT ![p.from] = @ \cup p.pairs]

\* backup_push_response stores what of the batch it may and answers true;
\* the owner queues the batch again when the answer does not reach it.
BackupPush(p, answered) ==
  /\ p.up
  /\ backup' = [backup EXCEPT ![p.to] =
       Refreshed(p.to, p.from, {q \in p.pairs : ~ is_distro_pair(p.to, q)})]
  /\ pushes' = pushes \ {p}
  /\ IF answered THEN UNCHANGED pending ELSE Again(p)
  /\ UNCHANGED <<own, silence, selected>>

\* Refused (an untrusted owner, a poisoned table), unanswered, or never sent.
PushFailed(p) ==
  /\ p.up
  /\ pushes' = pushes \ {p}
  /\ Again(p)
  /\ UNCHANGED <<own, backup, silence, selected>>

-----------------------------------------------------------------------------
(***************************************************************************)
(* Announces, time and restarts.                                           *)
(***************************************************************************)

\* FedSync::peer_heard
Hear(n, p) ==
  /\ <<n, p>> \in Hears
  /\ silence[n][p] # 0
  /\ silence' = [silence EXCEPT ![n][p] = 0]
  /\ UNCHANGED <<own, backup, pending, pushes, selected>>

\* FedSync::tick: a peer not heard for two hours is pruned.
ForgetPeer(n, p) ==
  /\ silence[n][p] = Offline
  /\ silence' = [silence EXCEPT ![n][p] = Unknown]
  /\ UNCHANGED <<own, backup, pending, pushes, selected>>

Older(age, most) == IF age < most THEN age + 1 ELSE age

Elapse ==
  /\ silence' = [n \in Nodes |-> [p \in Nodes |->
       IF silence[n][p] = Unknown THEN Unknown ELSE Older(silence[n][p], Offline)]]
  /\ backup' = [n \in Nodes |-> {[r EXCEPT !.age = Older(r.age, Ttl + 1)] : r \in backup[n]}]
  /\ UNCHANGED <<own, pending, pushes, selected>>

\* The rows are on disk, the queue of pushes and its callbacks are not; the
\* peers are when the node was stopped in order.
Restart(n) ==
  /\ pending' = [pending EXCEPT ![n] = {}]
  /\ pushes' = {p \in pushes : p.from # n}
  /\ selected' = [selected EXCEPT ![n] = {}]
  /\ \/ UNCHANGED silence
     \/ silence' = [silence EXCEPT ![n] = [p \in Nodes |-> Unknown]]
  /\ UNCHANGED <<own, backup>>

-----------------------------------------------------------------------------

ChainNext ==
  \/ \E n \in Nodes, pair \in Pairs :
       \/ Subscribe(n, pair)
       \/ Unsubscribe(n, pair)
       \/ ExpireStale(n, pair)
  \/ \E n \in Nodes : Tick(n) \/ Restart(n)
  \/ \E p \in pushes :
       \/ Established(p)
       \/ PushLost(p)
       \/ PushFailed(p)
       \/ \E answered \in BOOLEAN : BackupPush(p, answered)
  \/ \E n, p \in Nodes : Hear(n, p) \/ ForgetPeer(n, p)
  \/ Elapse

ChainSpec == ChainInit /\ [][ChainNext]_chain_vars

\* The main loop ticks every 30 s and time passes.
ChainFairness == WF_chain_vars(Elapse) /\ \A n \in Nodes : WF_chain_vars(Tick(n))

FairChainSpec == ChainSpec /\ ChainFairness

-----------------------------------------------------------------------------
(***************************************************************************)
(* Properties.                                                             *)
(***************************************************************************)

\* The sorts of the variables; a node selects one backup, and only where
\* the configuration names none; its table holds one row of a pair and owner,
\* as the database's UNIQUE has it.
ChainTypeOK ==
  /\ own \in [Nodes -> SUBSET Pairs]
  /\ backup \in [Nodes -> SUBSET Row]
  /\ \A n \in Nodes : \A r, q \in backup[n] : r.pair = q.pair /\ r.owner = q.owner => r = q
  /\ pending \in [Nodes -> SUBSET Pairs]
  /\ pushes \subseteq Push
  /\ silence \in [Nodes -> [Nodes -> 0 .. Unknown]]
  /\ selected \in [Nodes -> SUBSET Nodes]
  /\ \A n \in Nodes : Cardinality(selected[n]) <= 1 /\ (Designated[n] # <<>> => selected[n] = {})

\* A row of the pair under its owner, just refreshed, or a pair the backup
\* may not hold.
TakenOver(p, pair) ==
  \/ is_distro_pair(p.to, pair)
  \/ [pair |-> pair, owner |-> p.from, age |-> 0] \in backup[p.to]

\* A pair a node has to push leaves its hands only with a push of it that
\* ends, and of those only when its link never came up or the backup holds
\* the pair and has said so; or when the node stops.  No failed request, no
\* refusal, no answer that is lost and no backup lost between two ticks drops
\* it once the link was up.
KeptUntilTaken ==
  [][\A n \in Nodes : \A pair \in InHand(n) \ InHand(n)' :
       \/ Restart(n)
       \/ \E p \in pushes \ pushes' :
            /\ p.from = n /\ pair \in p.pairs
            /\ p.up => BackupPush(p, TRUE) /\ TakenOver(p, pair)']_chain_vars

CustodyBroken(n) == \A r \in backup[n] : heard_recently(n, r.owner)

\* The chain retracts: once no pair waits to be pushed, every backup row is
\* pruned in the end, though the nodes hold the pair for one another in a
\* circle, if one of them keeps hearing the owners it holds rows for.
ChainRetracts ==
  \A n \in Nodes :
    <>[](CustodyBroken(n) /\ \A m \in Nodes : pending[m] = {})
      => <>[](\A m \in Nodes : backup[m] = {})

\* SPEC.md §6: "Primary (owner_node_hash = None): Created via
\* /rfed/subscribe. Fanout always delivers to these."
SubscribedIsPrimary ==
  [][\A n \in Nodes, pair \in Pairs : Subscribe(n, pair) => pair \in own'[n]]_chain_vars

=============================================================================
