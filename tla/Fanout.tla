------------------------------- MODULE Fanout -------------------------------
(***************************************************************************)
(* One channel post's way to each subscriber (rfed/src/fanout.rs and       *)
(* handoff.rs): the fan-out's tiers, the verdicts on its live pushes, the  *)
(* hand-off of what nobody confirmed to the deferred queue and the wake,   *)
(* the announce flush of what is queued, and the pulls; composed with the  *)
(* queue itself (DeferredQueue), whose operations these are.               *)
(*                                                                         *)
(* Which subscriber has which link or stream bound is left open: a tier    *)
(* takes a push or does not.  Fan-outs, verdicts, flushes and pulls run on *)
(* threads of their own; a step is what one does under one lock.           *)
(***************************************************************************)
EXTENDS Integers, Sequences, FiniteSets

CONSTANTS Subscribers, Channels, Blobs, Limit, GlobalLimit, WriteOutcomes,
          OpenPages, MaxPosts, MaxPages, MaxUnsaved

VARIABLES
  queue, held, next_page, next_ticket, in_flight, rows, flown,
  posts, delivered, dropped, unsaved,
  subscribed,   \* <<subscriber, channel>>: this node's own rows
  stale,        \* those of them that nothing renewed in 30 days
  fresh,        \* the blobs not published yet
  todo,         \* FanoutPlan::subscribers still to serve, with their tier
  expired,      \* FanoutPlan::expired still to drop
  pushes,       \* live pushes that await their verdict
  flushing,     \* the copies of announce flushes, and how far each is
  wakes,        \* hand-offs whose blob is queued and whose wake is next
  content,      \* <<subscriber, blob>> of each post to the queue
  owed,         \* <<subscriber, blob>> some fan-out planned
  received,     \* <<subscriber, blob>> the device has
  lost          \* owed, and in memory only when the process stopped

Q == INSTANCE DeferredQueue WITH Routings <- Channels

ASSUME ConstantsAssumption ==
  /\ Limit \in [Subscribers -> Nat]
  /\ GlobalLimit \in Nat
  /\ WriteOutcomes \subseteq Q!Outcomes
  /\ {OpenPages, MaxPosts, MaxPages, MaxUnsaved} \subseteq Nat

queueVars == <<queue, held, next_page, next_ticket, in_flight, rows, flown,
               posts, delivered, dropped, unsaved>>
table == <<subscribed, stale>>
fanouts == <<fresh, todo, expired, pushes, owed>>
vars == <<queueVars, table, fanouts, flushing, wakes, content, received, lost>>

-----------------------------------------------------------------------------

Tiers == {"link", "stream", "packet"}

NextTier(tier) == IF tier = "link" THEN "stream" ELSE "packet"

Pair(x) == <<x.subscriber, x.blob>>
ContentOf(E) == {content[e.at] : e \in E}

\* The pairs some entry in a bucket, or in a bucket or a page, is for.
Waiting == ContentOf(queue)
Queued == ContentOf(Q!Stored)
Dropped == {content[p] : p \in dropped}

\* The one hand-off of a recipient nobody confirmed (queue_then_wake): the
\* blob is queued first, then the wake is due.
HandOff(s, c, b) ==
  /\ \/ \E w \in WriteOutcomes : Q!Enqueue(s, c, w)
     \/ Q!EnqueueRefused(s)
  /\ content' = Append(content, <<s, b>>)
  /\ wakes' = wakes \cup {<<s, b>>}

NoQueueStep == UNCHANGED <<queueVars, content, wakes>>

-----------------------------------------------------------------------------
(***************************************************************************)
(* Subscriptions, as far as the plan reads them.                           *)
(***************************************************************************)

\* A new row, or the renewal of one (`renew` also from pulls and bindings).
subscribe(s, c) ==
  /\ subscribed' = subscribed \cup {<<s, c>>}
  /\ stale' = stale \ {<<s, c>>}
  /\ subscribed' # subscribed \/ stale' # stale
  /\ UNCHANGED <<queueVars, fanouts, flushing, wakes, content, received, lost>>

unsubscribe(s, c) ==
  /\ <<s, c>> \in subscribed
  /\ subscribed' = subscribed \ {<<s, c>>}
  /\ stale' = stale \ {<<s, c>>}
  /\ UNCHANGED <<queueVars, fanouts, flushing, wakes, content, received, lost>>

ThirtyDaysPass(s, c) ==
  /\ <<s, c>> \in subscribed \ stale
  /\ stale' = stale \cup {<<s, c>>}
  /\ UNCHANGED <<queueVars, subscribed, fanouts, flushing, wakes, content, received, lost>>

-----------------------------------------------------------------------------
(***************************************************************************)
(* The fan-out of a post, published here or brought by peer sync.          *)
(***************************************************************************)

\* channel_rows_plan: stale rows expire, the others are the plan.
plan_channel_fanout(b, c) ==
  LET late == {s \in Subscribers : <<s, c>> \in stale}
      plan == {s \in Subscribers : <<s, c>> \in subscribed \ stale}
      item(s) == [subscriber |-> s, channel |-> c, blob |-> b]
      first(s) == [subscriber |-> s, channel |-> c, blob |-> b, tier |-> "link"]
  IN  /\ b \in fresh
      /\ fresh' = fresh \ {b}
      /\ subscribed' = subscribed \ {<<s, c>> : s \in late}
      /\ stale' = stale \ {<<s, c>> : s \in late}
      /\ expired' = expired \cup {item(s) : s \in late}
      /\ todo' = todo \cup {first(s) : s \in plan}
      /\ owed' = owed \cup {<<s, b>> : s \in plan}
      /\ NoQueueStep
      /\ UNCHANGED <<pushes, flushing, received, lost>>

drop_expired(x) ==
  /\ expired' = expired \ {x}
  /\ \/ \E w \in WriteOutcomes : Q!drain_channel(x.subscriber, x.channel, w)
     \/ Q!Matching(x.subscriber, {x.channel}) = {} /\ UNCHANGED queueVars
  /\ UNCHANGED <<table, fresh, todo, pushes, owed, flushing, wakes, content, received, lost>>

\* The plan's expired subscribers come before its subscribers.
Served(t) == \A x \in expired : x.blob # t.blob

PushOut(t) ==
  /\ Served(t)
  /\ todo' = todo \ {t}
  /\ pushes' = pushes \cup {t}
  /\ NoQueueStep
  /\ UNCHANGED <<table, fresh, expired, owed, flushing, received, lost>>

\* A bound link or stream took the push, or the packet left with a receipt.
push_taken(t) == PushOut(t)

\* No session, or none whose link could carry it.
fall_through(t) ==
  /\ Served(t)
  /\ t.tier # "packet"
  /\ todo' = (todo \ {t}) \cup {[t EXCEPT !.tier = NextTier(t.tier)]}
  /\ NoQueueStep
  /\ UNCHANGED <<table, fresh, expired, pushes, owed, flushing, received, lost>>

\* No identity, no destination, no path, no interface, or the send failed.
no_route(t) ==
  /\ Served(t)
  /\ t.tier = "packet"
  /\ todo' = todo \ {t}
  /\ HandOff(t.subscriber, t.channel, t.blob)
  /\ UNCHANGED <<table, fresh, expired, pushes, owed, flushing, received, lost>>

-----------------------------------------------------------------------------
(***************************************************************************)
(* The verdict on a live push: the answer to a link request, the proof of  *)
(* a stream's or a delivery packet (PushOutcome tells how a verdict comes  *)
(* about).  A proof after the timeout changes nothing here: it is logged.  *)
(***************************************************************************)

push_arrives(t) ==
  /\ received' = received \cup {Pair(t)}
  /\ received' # received
  /\ NoQueueStep
  /\ UNCHANGED <<table, fanouts, flushing, lost>>

push_confirmed(t) ==
  /\ Pair(t) \in received
  /\ pushes' = pushes \ {t}
  /\ NoQueueStep
  /\ UNCHANGED <<table, fresh, todo, expired, owed, flushing, received, lost>>

\* BUG: a refused push is logged and nothing else, as it was until 2026-10-30.
push_unconfirmed_logged(t) ==
  /\ pushes' = pushes \ {t}
  /\ NoQueueStep
  /\ UNCHANGED <<table, fresh, todo, expired, owed, flushing, received, lost>>

\* BUG: only an answer can fail a push; one that never comes does not.
push_unconfirmed_if_answered(t) ==
  /\ Pair(t) \in received
  /\ pushes' = pushes \ {t}
  /\ HandOff(t.subscriber, t.channel, t.blob)
  /\ UNCHANGED <<table, fresh, todo, expired, owed, flushing, received, lost>>

\* Refused, unanswered in time, its link gone, or its receipt timed out: the
\* answer or the proof may be all that was lost.
push_unconfirmed(t) ==
  /\ pushes' = pushes \ {t}
  /\ HandOff(t.subscriber, t.channel, t.blob)
  /\ UNCHANGED <<table, fresh, todo, expired, owed, flushing, received, lost>>

\* The wake itself, once the queue's lock is released.
wake_after_queueing(p) ==
  /\ wakes' = wakes \ {p}
  /\ UNCHANGED <<queueVars, table, fanouts, flushing, content, received, lost>>

-----------------------------------------------------------------------------
(***************************************************************************)
(* The announce flush (flush_queued).  The copies of one flush are sent    *)
(* one after the other; those not sent are released when all were tried.   *)
(***************************************************************************)

CopyOf(e) == [subscriber |-> e.subscriber, ticket |-> e.ticket, at |-> e.at]
FlushPair(f) == content[f.copy.at]
InBucket(copy) == \E e \in Q!Bucket(copy.subscriber) : e.ticket = copy.ticket

flush_queued(s) ==
  LET copied == {e \in Q!Bucket(s) : e.ticket \notin in_flight}
      batch == {e.ticket : e \in copied}
  IN  /\ Q!flush_copies(s, Channels)
      /\ flushing' = flushing
           \cup {[copy |-> CopyOf(e), batch |-> batch, state |-> "to send"] : e \in copied}
      /\ UNCHANGED <<table, fanouts, wakes, content, received, lost>>

\* BUG: a packet counts as delivered once it left, as it did until 2026-09-26.
flush_send_counts_sent(f, state) ==
  /\ f.state = "to send"
  /\ flushing' = (flushing \ {f}) \cup {[f EXCEPT !.state = state]}
  /\ \/ state = "packet" /\ \E w \in WriteOutcomes : Q!confirm(f.copy, w)
     \/ state # "packet" /\ UNCHANGED queueVars
  /\ UNCHANGED <<table, fanouts, wakes, content, received, lost>>

\* Down the bound link, or as a packet, or neither.
flush_send(f, state) ==
  /\ f.state = "to send"
  /\ flushing' = (flushing \ {f}) \cup {[f EXCEPT !.state = state]}
  /\ NoQueueStep
  /\ UNCHANGED <<table, fanouts, received, lost>>

\* A confirmed copy's ticket may have ended its flight before.
Release(copy) ==
  \/ Q!release(copy)
  \/ copy.ticket \notin in_flight /\ UNCHANGED queueVars

Tried(f) == \A g \in flushing : g.batch = f.batch => g.state # "to send"

release_unsent(f) ==
  /\ f.state = "unsent"
  /\ Tried(f)
  /\ Release(f.copy)
  /\ flushing' = flushing \ {f}
  /\ UNCHANGED <<table, fanouts, wakes, content, received, lost>>

flush_arrives(f) ==
  /\ f.state \in {"link", "packet", "late"}
  /\ received' = received \cup {FlushPair(f)}
  /\ received' # received
  /\ NoQueueStep
  /\ UNCHANGED <<table, fanouts, flushing, lost>>

\* The answer, or the packet's proof, on time or late.
flush_confirmed(f) ==
  /\ f.state \in {"link", "packet", "late"}
  /\ FlushPair(f) \in received
  /\ \E w \in WriteOutcomes : Q!confirm(f.copy, w)
  /\ flushing' = flushing \ {f}
  /\ UNCHANGED <<table, fanouts, wakes, content, received, lost>>

Unconfirmed(f) ==
  IF f.state = "packet" THEN {[f EXCEPT !.state = "late"]} ELSE {}

\* BUG: wakes the subscriber for an entry that a pull holds, or that is gone.
flush_unconfirmed_wakes_always(f) ==
  /\ f.state \in {"link", "packet"}
  /\ Release(f.copy)
  /\ wakes' = wakes \cup {FlushPair(f)}
  /\ flushing' = (flushing \ {f}) \cup Unconfirmed(f)
  /\ UNCHANGED <<table, fanouts, content, received, lost>>

flush_unconfirmed(f) ==
  /\ f.state \in {"link", "packet"}
  /\ Release(f.copy)
  /\ wakes' = wakes \cup {FlushPair(g) : g \in {h \in {f} : InBucket(h.copy)}}
  /\ flushing' = (flushing \ {f}) \cup Unconfirmed(f)
  /\ UNCHANGED <<table, fanouts, content, received, lost>>

-----------------------------------------------------------------------------
(***************************************************************************)
(* Pulls (pull_answer), the hourly expiry, and a crash.                    *)
(***************************************************************************)

\* A pull of one channel renews its subscription.
channel_pull(s, c) ==
  /\ Q!take_page(s, {c})
  /\ stale' = stale \ {<<s, c>>}
  /\ UNCHANGED <<subscribed, fanouts, flushing, wakes, content, received, lost>>

page_arrives(p) ==
  /\ received' = received \cup ContentOf(Q!Page(p))
  /\ received' # received
  /\ NoQueueStep
  /\ UNCHANGED <<table, fanouts, flushing, lost>>

\* The requester proves a page that arrived; or its proof never comes.
pull_concluded(p) ==
  /\ \/ /\ ContentOf(Q!Page(p)) \subseteq received
        /\ \E w \in WriteOutcomes : Q!SettleProved(p, w)
     \/ Q!SettleUnproved(p)
  /\ UNCHANGED <<table, fanouts, flushing, wakes, content, received, lost>>

evict_expired(threshold) ==
  /\ \E w \in WriteOutcomes : Q!evict_expired(threshold, w)
  /\ UNCHANGED <<table, fanouts, flushing, wakes, content, received, lost>>

Restart ==
  /\ Q!Restart
  /\ lost' = lost \cup {Pair(t) : t \in todo \cup pushes}
  /\ todo' = {}
  /\ expired' = {}
  /\ pushes' = {}
  /\ flushing' = {}
  /\ wakes' = {}
  /\ UNCHANGED <<table, fresh, owed, content, received>>

-----------------------------------------------------------------------------

Init ==
  /\ Q!Init
  /\ subscribed \in SUBSET (Subscribers \X Channels)
  /\ stale = {}
  /\ fresh = Blobs
  /\ todo = {}
  /\ expired = {}
  /\ pushes = {}
  /\ flushing = {}
  /\ wakes = {}
  /\ content = <<>>
  /\ owed = {}
  /\ received = {}
  /\ lost = {}

Subscription ==
  \E s \in Subscribers, c \in Channels :
    subscribe(s, c) \/ unsubscribe(s, c) \/ ThirtyDaysPass(s, c)

Serve(t) == push_taken(t) \/ fall_through(t) \/ no_route(t)
Verdict(t) == push_confirmed(t) \/ push_unconfirmed(t)
FlushSend(f) == \E state \in {"link", "packet", "unsent"} : flush_send(f, state)
FlushVerdict(f) == flush_confirmed(f) \/ flush_unconfirmed(f)

Next ==
  \/ Subscription
  \/ \E b \in Blobs, c \in Channels : plan_channel_fanout(b, c)
  \/ \E x \in expired : drop_expired(x)
  \/ \E t \in todo : Serve(t)
  \/ \E t \in pushes : push_arrives(t) \/ Verdict(t)
  \/ \E p \in wakes : wake_after_queueing(p)
  \/ \E s \in Subscribers : flush_queued(s)
  \/ \E f \in flushing :
       FlushSend(f) \/ release_unsent(f) \/ flush_arrives(f) \/ FlushVerdict(f)
  \/ \E s \in Subscribers, c \in Channels : channel_pull(s, c)
  \/ \E h \in held : page_arrives(h.page) \/ pull_concluded(h.page)
  \/ \E threshold \in 2 .. posts + 1 : evict_expired(threshold)
  \/ Restart

Spec == Init /\ [][Next]_vars

Items == [subscriber : Subscribers, channel : Channels, blob : Blobs]
Pushes == [subscriber : Subscribers, channel : Channels, blob : Blobs, tier : Tiers]

\* A fan-out's thread goes on, and every live push comes to a verdict: a
\* request and a receipt both time out.
Fairness ==
  /\ \A x \in Items : WF_vars(x \in expired /\ drop_expired(x))
  /\ \A t \in Pushes : WF_vars(t \in todo /\ Serve(t)) /\ WF_vars(t \in pushes /\ Verdict(t))

FairSpec == Spec /\ Fairness

-----------------------------------------------------------------------------

FlushStates == {"to send", "link", "packet", "late", "unsent"}
Pairs == Subscribers \X Blobs

\* Every variable the composition adds keeps its type; a push is only ever
\* tried on the three tiers.
TypeOK ==
  /\ subscribed \subseteq Subscribers \X Channels
  /\ stale \subseteq subscribed
  /\ fresh \subseteq Blobs
  /\ todo \subseteq Pushes
  /\ expired \subseteq Items
  /\ pushes \subseteq Pushes
  /\ \A f \in flushing :
       f.copy \in Q!Copy /\ f.batch \subseteq Nat /\ f.state \in FlushStates
  /\ content \in Seq(Pairs) /\ Len(content) = posts
  /\ wakes \subseteq Pairs /\ owed \subseteq Pairs /\ received \subseteq Pairs /\ lost \subseteq Pairs

\* What has become of each pair, as DeliveryPromise tells it.
Fate ==
  [p \in Pairs |->
     CASE p \in received -> "received"
       [] p \notin received /\ p \in Queued -> "waiting"
       [] p \notin received \cup Queued /\ (\E t \in todo \cup pushes : Pair(t) = p) -> "owed"
       [] p \notin received \cup Queued /\ p \in Dropped -> "dropped"
       [] p \notin received \cup Queued /\ p \in lost -> "lost"
       [] OTHER -> "none"]

Promise == INSTANCE DeliveryPromise WITH fate <- Fate

\* The fan-out keeps the promise: a planned post waits in the queue, is with
\* the device or was dropped with a line, and only a crash can lose one, and
\* only before it was queued ("is not lost and is not re-sent", SPEC section 7).
PromiseKept == Promise!Spec

\* The pairs one of whose writes the table did not take.
Doubtful == {content[i] : i \in unsaved}

\* A write that is refused costs the promise to the posts it was of and to no
\* other: each other one waits until the device has it or a line tells of its
\* drop, and does not come back from that ("[store] {what} not saved", write_all).
PromiseKeptIfSaved ==
  [][ \A p \in Pairs \ Doubtful' :
        <<Fate[p], Fate'[p]>> \in Promise!Becomes \cup {<<"owed", "lost">>} ]_vars

\* Whatever becomes of the writes, a running node keeps the promise to every
\* post: only a stop of the process makes a failed write cost one ("A failure is
\* logged, never dropped; the in-memory state keeps the change either way", write).
PromiseKeptRunning ==
  [][ Restart \/ \A p \in Pairs : <<Fate[p], Fate'[p]>> \in Promise!Becomes ]_vars

\* A subscriber's copy of a post is in one place: one tier, or the queue, and
\* there once ("stop at the first one that takes the push"; the hand-off runs
\* at most once per push).
OneRouteAtATime ==
  /\ todo \cap pushes = {}
  /\ \A t, u \in todo \cup pushes : Pair(t) = Pair(u) => t = u
  /\ \A t \in todo \cup pushes : Pair(t) \notin Queued
  /\ \A e, f \in Q!Stored : content[e.at] = content[f.at] => e = f

\* The queue gives up a post as delivered only if the device has it, by
\* whichever of pull, flush and live push it came.
ConfirmedIsReceived == \A p \in delivered : content[p] \in received

\* A copy marked in flight belongs to a flush that will still end its flight:
\* else no later announce would send it.
FlightsEnd ==
  \A t \in in_flight : \E f \in flushing : f.copy.ticket = t /\ f.state # "late"

\* A wake is due only for a post that then waits in a bucket for the pull it
\* causes, or that the limit just refused: never for one a pull holds already.
WokenToCollect ==
  [][ wakes' \ wakes \subseteq ContentOf(queue)' \cup (Dropped' \ Dropped) ]_vars

\* A planned post comes to the device, to the queue or to a line in the log;
\* it is not in the air for ever.
EveryPushSettles ==
  \A p \in Pairs : p \in owed ~> p \in received \cup Queued \cup Dropped \cup lost

\* Nobody is left to pull what an expired subscription had queued
\* (drop_expired).
ExpiredHasNoPuller ==
  [][ \A x \in expired \ expired' :
        dropped' # dropped => <<x.subscriber, x.channel>> \notin subscribed ]_vars

\* A push that is never confirmed is not lost.
NeverLost == lost = {}
=============================================================================
