---------------------------- MODULE Fanout_proofs ----------------------------
(***************************************************************************)
(* For any subscribers, channels, blobs and limits: what the fan-out does  *)
(* is done to the queue by operations of DeferredQueue's, whose invariants *)
(* it has; the queue gives up as delivered only what a device has; a wake  *)
(* is due only for what its pull will find; the fan-out implements         *)
(* DeliveryPromise, or keeps it for each post whose writes were saved, or, *)
(* whatever the writes come to, until the process stops; a post is on one  *)
(* way at a time; and every copy in flight has a flush that will end that. *)
(***************************************************************************)
EXTENDS Fanout, FiniteSetTheorems, TLAPS

\* The queue with what is proved of it.
QP == INSTANCE DeferredQueue_proofs WITH Routings <- Channels

LEMMA QueueConstants == QP!ConstantsAssumption
BY ConstantsAssumption DEF QP!ConstantsAssumption, Q!Outcomes, QP!Outcomes

-----------------------------------------------------------------------------
(***************************************************************************)
(* The fan-out's queue operations are the queue's.                         *)
(***************************************************************************)

LEMMA SameSets ==
  /\ Q!Held = QP!Held /\ Q!Stored = QP!Stored
  /\ \A s : Q!Bucket(s) = QP!Bucket(s)
  /\ \A s, cs : Q!Matching(s, cs) = QP!Matching(s, cs)
  /\ \A p : Q!Page(p) = QP!Page(p)
BY DEF Q!Held, QP!Held, Q!Stored, QP!Stored, Q!Bucket, QP!Bucket, Q!Matching, QP!Matching,
   Q!Page, QP!Page

LEMMA SameEnqueue ==
  ASSUME NEW s, NEW c, NEW w, Q!Enqueue(s, c, w)
  PROVE  QP!Enqueue(s, c, w)
BY DEF Q!Enqueue, Q!EnqueueQueued, Q!EnqueueEvictingOldest, Q!EnqueueEvictingFullest, Q!Admit,
   Q!BucketFull, Q!QueueFull, Q!Cardinality, Q!total_len, Q!IsFullest, Q!IsFront, Q!Bucket, Q!IdAfter,
   Q!NewIds, Q!delete_rows, Q!Write, Q!Row, Q!Ats,
   QP!Enqueue, QP!EnqueueQueued, QP!EnqueueEvictingOldest, QP!EnqueueEvictingFullest, QP!Admit,
   QP!BucketFull, QP!QueueFull, QP!Cardinality, QP!total_len, QP!IsFullest, QP!IsFront,
   QP!Bucket, QP!IdAfter, QP!NewIds, QP!delete_rows, QP!Write, QP!Row, QP!Ats

LEMMA SameRefused ==
  ASSUME NEW s, Q!EnqueueRefused(s)
  PROVE  QP!EnqueueRefused(s)
BY DEF Q!EnqueueRefused, Q!BucketFull, Q!QueueFull, Q!Cardinality, Q!total_len, Q!Bucket, Q!store,
   QP!EnqueueRefused, QP!BucketFull, QP!QueueFull, QP!Cardinality, QP!total_len, QP!Bucket, QP!store

LEMMA SameTake ==
  ASSUME NEW s, NEW cs, Q!take_page(s, cs)
  PROVE  QP!take_page(s, cs)
BY DEF Q!take_page, Q!Matching, Q!Bucket, Q!IsFrontPart, Q!history, Q!Cardinality,
   QP!take_page, QP!Matching, QP!Bucket, QP!IsFrontPart, QP!history, QP!Cardinality

LEMMA SameSettleProved ==
  ASSUME NEW p, NEW w, Q!SettleProved(p, w)
  PROVE  QP!SettleProved(p, w)
BY DEF Q!SettleProved, Q!Page, Q!Write, Q!Cardinality, Q!delete_rows, Q!Ats,
   QP!SettleProved, QP!Page, QP!Write, QP!Cardinality, QP!delete_rows, QP!Ats

LEMMA SameSettleUnproved ==
  ASSUME NEW p, Q!SettleUnproved(p)
  PROVE  QP!SettleUnproved(p)
<1>1. /\ Q!Page(p) = QP!Page(p)
      /\ \A s : Q!Bucket(s) = QP!Bucket(s)
      /\ UNCHANGED Q!history <=> UNCHANGED QP!history
  BY DEF Q!Page, QP!Page, Q!Bucket, QP!Bucket, Q!history, QP!history
<1>2. ASSUME NEW page, NEW B PROVE Q!Shifts(page, B) = QP!Shifts(page, B)
  <2>1. \A x : x \in Q!Shifts(page, B) <=> x = 0 \/ \E e \in page, f \in B : x = e.place - f.place + 1
    BY DEF Q!Shifts
  <2>2. \A x : x \in QP!Shifts(page, B) <=> x = 0 \/ \E e \in page, f \in B : x = e.place - f.place + 1
    BY DEF QP!Shifts
  <2> QED BY <2>1, <2>2
<1>3. ASSUME NEW page, NEW d PROVE Q!MovedBack(page, d) = QP!MovedBack(page, d)
  BY Zenon DEF Q!MovedBack, QP!MovedBack
<1> QED BY <1>1, <1>2, <1>3 DEF Q!SettleUnproved, QP!SettleUnproved

LEMMA SameFlush ==
  ASSUME NEW s, NEW cs, Q!flush_copies(s, cs)
  PROVE  QP!flush_copies(s, cs)
BY DEF Q!flush_copies, Q!Matching, Q!Bucket, Q!store, Q!history,
   QP!flush_copies, QP!Matching, QP!Bucket, QP!store, QP!history

LEMMA SameVerdict ==
  ASSUME NEW copy, NEW w
  PROVE  /\ Q!confirm(copy, w) => QP!confirm(copy, w)
         /\ Q!release(copy) => QP!release(copy)
BY DEF Q!confirm, Q!release, Q!Bucket, Q!Write, Q!Cardinality, Q!delete_rows, Q!Ats, Q!store, Q!history,
   QP!confirm, QP!release, QP!Bucket, QP!Write, QP!Cardinality, QP!delete_rows, QP!Ats, QP!store, QP!history

LEMMA SameDiscard ==
  ASSUME NEW s, NEW c, NEW w, NEW threshold
  PROVE  /\ Q!drain_channel(s, c, w) => QP!drain_channel(s, c, w)
         /\ Q!evict_expired(threshold, w) => QP!evict_expired(threshold, w)
BY DEF Q!drain_channel, Q!evict_expired, Q!Discard, Q!Matching, Q!Bucket, Q!Write, Q!Cardinality,
   Q!delete_rows, Q!Ats, QP!drain_channel, QP!evict_expired, QP!Discard, QP!Matching, QP!Bucket, QP!Write, QP!Cardinality,
   QP!delete_rows, QP!Ats

LEMMA SameEnds ==
  /\ Q!Init => QP!Init
  /\ Q!Restart => QP!Restart
BY DEF Q!Init, QP!Init, Q!Restart, Q!Loaded, Q!history, Q!Cardinality,
   QP!Restart, QP!Loaded, QP!history, QP!Cardinality

-----------------------------------------------------------------------------
(***************************************************************************)
(* The invariant.  A pair is on one way only: some tier has it, or it was  *)
(* handed off, once; and of a blob not published yet there is none.        *)
(***************************************************************************)

\* The pairs a fan-out has still to serve or awaits a verdict of, and those
\* handed to the queue, whatever came of them there.
OwedNow == {Pair(t) : t \in todo \cup pushes}
Handed == {content[i] : i \in 1 .. posts}

RouteTypes ==
  /\ fresh \subseteq Blobs
  /\ todo \subseteq Pushes /\ pushes \subseteq Pushes
  /\ posts \in Nat /\ content \in Seq(Pairs) /\ Len(content) = posts
  /\ lost \subseteq Pairs

OneTier ==
  /\ todo \cap pushes = {}
  /\ \A t, u \in todo \cup pushes : Pair(t) = Pair(u) => t = u

HandedOnce == \A i, j \in 1 .. posts : content[i] = content[j] => i = j

Apart ==
  /\ OwedNow \cap Handed = {}
  /\ lost \cap (OwedNow \cup Handed) = {}
  /\ \A p \in OwedNow \cup Handed \cup lost : p[2] \notin fresh

RouteInv == RouteTypes /\ OneTier /\ HandedOnce /\ Apart

\* What the actions read besides: the copies of a flush are the queue's.
ReadTypes ==
  /\ expired \subseteq Items
  /\ \A f \in flushing :
       f.copy \in flown /\ f = [copy |-> f.copy, batch |-> f.batch, state |-> f.state]

LEMMA StepIsQueueStep ==
  ASSUME QP!TypeInv, RouteTypes, ReadTypes, [Next]_vars
  PROVE  [QP!Next]_(QP!vars)
<1>0. (UNCHANGED queueVars) => [QP!Next]_(QP!vars)
  BY DEF queueVars, QP!vars
<1>1. CASE Subscription
  BY <1>0, <1>1 DEF Subscription, subscribe, unsubscribe, ThirtyDaysPass
<1>2. ASSUME NEW b \in Blobs, NEW c \in Channels, plan_channel_fanout(b, c) PROVE [QP!Next]_(QP!vars)
  BY <1>0, <1>2 DEF plan_channel_fanout, NoQueueStep
<1>3. ASSUME NEW x \in expired, drop_expired(x) PROVE [QP!Next]_(QP!vars)
  <2>1. CASE UNCHANGED queueVars
    BY <1>0, <2>1
  <2>2. ASSUME NEW w \in WriteOutcomes, Q!drain_channel(x.subscriber, x.channel, w) PROVE [QP!Next]_(QP!vars)
    <3>1. x.subscriber \in Subscribers /\ x.channel \in Channels
      BY DEF ReadTypes, Items
    <3> QED BY <2>2, <3>1, SameDiscard DEF QP!Next
  <2> QED BY <1>3, <2>1, <2>2 DEF drop_expired
<1>4. ASSUME NEW s \in Subscribers, NEW c \in Channels, NEW b, HandOff(s, c, b) PROVE [QP!Next]_(QP!vars)
  <2>1. CASE \E w \in WriteOutcomes : Q!Enqueue(s, c, w)
    BY <2>1, SameEnqueue DEF QP!Next
  <2>2. CASE Q!EnqueueRefused(s)
    BY <2>2, SameRefused DEF QP!Next
  <2> QED BY <1>4, <2>1, <2>2 DEF HandOff
<1>5. ASSUME NEW t \in todo \cup pushes, HandOff(t.subscriber, t.channel, t.blob) PROVE [QP!Next]_(QP!vars)
  <2>1. t.subscriber \in Subscribers /\ t.channel \in Channels
    BY DEF RouteTypes, Pushes
  <2> QED BY <1>4, <1>5, <2>1
<1>6. ASSUME NEW t \in todo, Serve(t) PROVE [QP!Next]_(QP!vars)
  BY <1>0, <1>5, <1>6 DEF Serve, push_taken, PushOut, fall_through, no_route, NoQueueStep
<1>7. ASSUME NEW t \in pushes, push_arrives(t) \/ Verdict(t) PROVE [QP!Next]_(QP!vars)
  BY <1>0, <1>5, <1>7 DEF push_arrives, Verdict, push_confirmed, push_unconfirmed, NoQueueStep
<1>8. ASSUME NEW p \in wakes, wake_after_queueing(p) PROVE [QP!Next]_(QP!vars)
  BY <1>0, <1>8 DEF wake_after_queueing
<1>9. ASSUME NEW s \in Subscribers, flush_queued(s) PROVE [QP!Next]_(QP!vars)
  <2>1. Q!flush_copies(s, Channels) /\ QP!flush_copies(s, Channels)
    BY <1>9, SameFlush DEF flush_queued
  <2>2. Channels # {}
    BY <2>1 DEF Q!flush_copies, Q!Matching
  <2>3. Channels \in QP!Kinds
    <3>1. Channels \in (SUBSET Channels) \ {{}}
      BY <2>2
    <3> QED BY <3>1 DEF QP!Kinds
  <2> QED BY <2>1, <2>3 DEF QP!Next
<1>10. ASSUME NEW f \in flushing, Release(f.copy) PROVE [QP!Next]_(QP!vars)
  <2>1. f.copy \in flown
    BY DEF ReadTypes
  <2> QED BY <1>0, <1>10, <2>1, SameVerdict DEF Release, QP!Next
<1>11. ASSUME NEW f \in flushing, FlushSend(f) \/ release_unsent(f) \/ flush_arrives(f) \/ FlushVerdict(f)
       PROVE  [QP!Next]_(QP!vars)
  <2>1. CASE flush_confirmed(f)
    <3>1. PICK w \in WriteOutcomes : Q!confirm(f.copy, w)
      BY <2>1 DEF flush_confirmed
    <3>2. f.copy \in flown
      BY DEF ReadTypes
    <3> QED BY <3>1, <3>2, SameVerdict DEF QP!Next
  <2>2. CASE release_unsent(f) \/ flush_unconfirmed(f)
    BY <1>10, <2>2 DEF release_unsent, flush_unconfirmed
  <2>3. CASE FlushSend(f) \/ flush_arrives(f)
    BY <1>0, <2>3 DEF FlushSend, flush_send, flush_arrives, NoQueueStep
  <2> QED BY <1>11, <2>1, <2>2, <2>3 DEF FlushVerdict
<1>12. ASSUME NEW s \in Subscribers, NEW c \in Channels, channel_pull(s, c) PROVE [QP!Next]_(QP!vars)
  <2>1. QP!take_page(s, {c})
    BY <1>12, SameTake DEF channel_pull
  <2>2. {c} \in (SUBSET Channels) \ {{}}
    OBVIOUS
  <2>3. {c} \in QP!Kinds
    BY <2>2 DEF QP!Kinds
  <2> QED BY <2>1, <2>3 DEF QP!Next
<1>13. ASSUME NEW h \in held, page_arrives(h.page) \/ pull_concluded(h.page) PROVE [QP!Next]_(QP!vars)
  <2>1. CASE pull_concluded(h.page)
    <3>1. QP!settle_page(h.page)
      BY <2>1, SameSettleProved, SameSettleUnproved DEF pull_concluded, QP!settle_page
    <3> QED BY <3>1 DEF QP!Next
  <2>2. CASE page_arrives(h.page)
    BY <1>0, <2>2 DEF page_arrives, NoQueueStep
  <2> QED BY <1>13, <2>1, <2>2
<1>14. ASSUME NEW threshold \in 2 .. posts + 1, evict_expired(threshold) PROVE [QP!Next]_(QP!vars)
  BY <1>14, SameDiscard DEF evict_expired, QP!Next
<1>15. CASE Restart
  BY <1>15, SameEnds DEF Restart, QP!Next
<1>16. CASE UNCHANGED vars
  BY <1>0, <1>16 DEF vars
<1> QED BY <1>1, <1>2, <1>3, <1>6, <1>7, <1>8, <1>9, <1>11, <1>12, <1>13, <1>14, <1>15, <1>16 DEF Next

-----------------------------------------------------------------------------
(***************************************************************************)
(* Every step keeps a pair on one way.                                     *)
(***************************************************************************)

\* What the queue's operations do to what the invariant reads of it.
LEMMA HandOffEffect ==
  ASSUME NEW s, NEW c, NEW b, HandOff(s, c, b)
  PROVE  /\ content' = Append(content, <<s, b>>) /\ wakes' = wakes \cup {<<s, b>>}
         /\ posts' = posts + 1
         /\ dropped \subseteq dropped' /\ delivered' = delivered /\ flown' = flown
BY DEF HandOff, Q!Enqueue, Q!EnqueueQueued, Q!EnqueueEvictingOldest, Q!EnqueueEvictingFullest, Q!Admit,
   Q!EnqueueRefused

LEMMA DiscardEffect ==
  ASSUME NEW s, NEW c, NEW threshold, NEW w, Q!drain_channel(s, c, w) \/ Q!evict_expired(threshold, w)
  PROVE  posts' = posts /\ dropped \subseteq dropped' /\ delivered' = delivered /\ flown' = flown
BY DEF Q!drain_channel, Q!evict_expired, Q!Discard

LEMMA PullEffect ==
  ASSUME NEW s, NEW cs, NEW p, Q!take_page(s, cs) \/ Q!SettleUnproved(p)
  PROVE  posts' = posts /\ dropped' = dropped /\ delivered' = delivered /\ flown' = flown
BY DEF Q!take_page, Q!SettleUnproved, Q!history

LEMMA ProvedEffect ==
  ASSUME NEW p, NEW w, Q!SettleProved(p, w)
  PROVE  /\ posts' = posts /\ dropped' = dropped /\ flown' = flown
         /\ delivered' = delivered \cup {e.at : e \in Q!Page(p)}
BY DEF Q!SettleProved, Q!Ats

LEMMA ConfirmEffect ==
  ASSUME NEW copy, NEW w, Q!confirm(copy, w)
  PROVE  posts' = posts /\ dropped' = dropped /\ flown' = flown /\ delivered' = delivered \cup {copy.at}
BY DEF Q!confirm

LEMMA ReleaseEffect ==
  ASSUME NEW copy, Release(copy)
  PROVE  UNCHANGED <<queue, held, posts, dropped, delivered, flown>>
BY DEF Release, Q!release, Q!store, Q!history, queueVars

LEMMA FlushEffect ==
  ASSUME NEW s, NEW cs, Q!flush_copies(s, cs)
  PROVE  UNCHANGED <<queue, held, posts, dropped, delivered>> /\ flown \subseteq flown'
BY DEF Q!flush_copies, Q!store, Q!history

LEMMA InitRouteInv == Init => RouteInv /\ ReadTypes
BY DEF Init, Q!Init, RouteInv, RouteTypes, OneTier, HandedOnce, Apart, OwedNow, Handed, ReadTypes

\* A post to the queue is the last of its content, and the others stay.
LEMMA ContentGrows ==
  ASSUME RouteTypes, NEW p \in Pairs, content' = Append(content, p), posts' = posts + 1
  PROVE  /\ content' \in Seq(Pairs) /\ Len(content') = posts' /\ posts' \in Nat
         /\ \A i \in 1 .. posts : content'[i] = content[i]
         /\ content'[posts + 1] = p
         /\ Handed' = Handed \cup {p}
<1>1. /\ content' \in Seq(Pairs) /\ Len(content') = posts' /\ posts' \in Nat
      /\ \A i \in 1 .. posts : content'[i] = content[i]
      /\ content'[posts + 1] = p
  BY DEF RouteTypes
<1>2. 1 .. posts' = (1 .. posts) \cup {posts + 1}
  BY DEF RouteTypes
<1> QED BY <1>1, <1>2 DEF Handed

LEMMA PairTypes ==
  ASSUME NEW t \in Pushes
  PROVE  Pair(t) \in Pairs /\ Pair(t)[2] = t.blob
BY DEF Pushes, Pair, Pairs

LEMMA HandOffKeepsRoute ==
  ASSUME RouteInv, NEW t \in todo \cup pushes, HandOff(t.subscriber, t.channel, t.blob),
         todo' = todo \ {t}, pushes' = pushes \ {t}, UNCHANGED <<fresh, lost>>
  PROVE  RouteInv'
<1>1. content' = Append(content, Pair(t)) /\ posts' = posts + 1
  BY HandOffEffect DEF Pair
<1>2. Pair(t) \in Pairs
  BY PairTypes DEF RouteInv, RouteTypes
<1>3. /\ content' \in Seq(Pairs) /\ Len(content') = posts' /\ posts' \in Nat
      /\ \A i \in 1 .. posts : content'[i] = content[i]
      /\ content'[posts + 1] = Pair(t)
      /\ Handed' = Handed \cup {Pair(t)}
  BY <1>1, <1>2, ContentGrows DEF RouteInv
<1>4. Pair(t) \in OwedNow /\ OwedNow' = OwedNow \ {Pair(t)}
  BY DEF OwedNow, RouteInv, OneTier, Pair
<1>5. RouteTypes'
  BY <1>3 DEF RouteInv, RouteTypes
<1>6. OneTier'
  BY DEF RouteInv, OneTier, Pair
<1>7. HandedOnce'
  <2>1. \A i \in 1 .. posts : content[i] # Pair(t)
    BY <1>4 DEF RouteInv, Apart, Handed
  <2>2. \A i \in 1 .. posts' : i \in 1 .. posts \/ i = posts + 1
    BY <1>1 DEF RouteInv, RouteTypes
  <2> QED BY <2>1, <2>2, <1>3 DEF RouteInv, HandedOnce
<1>8. Apart'
  BY <1>3, <1>4 DEF RouteInv, Apart
<1> QED BY <1>5, <1>6, <1>7, <1>8 DEF RouteInv

\* The tier changes, or a verdict takes the push away.
LEMMA TierKeepsRoute ==
  ASSUME RouteInv, UNCHANGED <<fresh, lost, content, posts>>,
         todo' \subseteq Pushes, pushes' \subseteq Pushes, OwedNow' \subseteq OwedNow, OneTier'
  PROVE  RouteInv'
<1>1. Handed' = Handed
  BY DEF Handed
<1> QED BY <1>1 DEF RouteInv, RouteTypes, HandedOnce, Apart

LEMMA PlanKeepsRoute ==
  ASSUME RouteInv, NEW b \in Blobs, NEW c \in Channels, plan_channel_fanout(b, c), UNCHANGED posts
  PROVE  RouteInv'
<1> DEFINE first(s) == [subscriber |-> s, channel |-> c, blob |-> b, tier |-> "link"]
<1>1. PICK plan \in SUBSET Subscribers : todo' = todo \cup {first(s) : s \in plan}
  BY DEF plan_channel_fanout
<1>2. /\ b \in fresh /\ fresh' = fresh \ {b}
      /\ UNCHANGED <<pushes, lost, content>>
  BY DEF plan_channel_fanout, NoQueueStep
<1>3. \A s \in Subscribers : first(s) \in Pushes /\ Pair(first(s)) = <<s, b>>
  BY DEF Pushes, Tiers, Pair
<1>4. OwedNow' = OwedNow \cup {<<s, b>> : s \in plan}
  <2> HIDE DEF first
  <2>1. todo' \cup pushes' = (todo \cup pushes) \cup {first(s) : s \in plan}
    BY <1>1, <1>2
  <2> QED BY <2>1, <1>3 DEF OwedNow
<1>5. \A t \in todo \cup pushes : Pair(t)[2] # b
  BY <1>2 DEF RouteInv, Apart, OwedNow
<1>6. \A t \in todo \cup pushes, s \in plan : Pair(t) # <<s, b>> /\ t # first(s)
  BY <1>3, <1>5
<1>7. Handed' = Handed
  BY <1>2 DEF Handed
<1>8. RouteTypes'
  BY <1>1, <1>2, <1>3 DEF RouteInv, RouteTypes
<1>9. OneTier'
  <2>1. todo' \cap pushes' = {}
    BY <1>1, <1>2, <1>6 DEF RouteInv, OneTier
  <2>2. ASSUME NEW t \in todo' \cup pushes', NEW u \in todo' \cup pushes', Pair(t) = Pair(u) PROVE t = u
    <3> HIDE DEF first
    <3>1. CASE t \in todo \cup pushes /\ u \in todo \cup pushes
      BY <2>2, <3>1 DEF RouteInv, OneTier
    <3>2. CASE t \in todo \cup pushes /\ u \notin todo \cup pushes
      BY <2>2, <3>2, <1>1, <1>2, <1>3, <1>6
    <3>3. CASE t \notin todo \cup pushes /\ u \in todo \cup pushes
      BY <2>2, <3>3, <1>1, <1>2, <1>3, <1>6
    <3>4. CASE t \notin todo \cup pushes /\ u \notin todo \cup pushes
      <4>1. PICK s \in plan : t = first(s)
        BY <3>4, <1>1, <1>2
      <4>2. PICK v \in plan : u = first(v)
        BY <3>4, <1>1, <1>2
      <4> QED BY <2>2, <4>1, <4>2, <1>3
    <3> QED BY <3>1, <3>2, <3>3, <3>4
  <2> QED BY <2>1, <2>2 DEF OneTier, Pair
<1>10. HandedOnce'
  BY <1>2 DEF RouteInv, HandedOnce
<1>11. Apart'
  <2>1. \A p \in Handed \cup lost : p[2] # b
    BY <1>2 DEF RouteInv, Apart
  <2>2. \A s \in plan : <<s, b>> \notin Handed \cup lost /\ <<s, b>>[2] \notin fresh'
    BY <1>2, <2>1
  <2> QED BY <1>2, <1>4, <1>7, <2>2 DEF RouteInv, Apart
<1> QED BY <1>8, <1>9, <1>10, <1>11 DEF RouteInv

LEMMA RestartKeepsRoute ==
  ASSUME RouteInv, Restart
  PROVE  RouteInv' /\ lost' = lost \cup OwedNow /\ OwedNow' = {} /\ Handed' = Handed
<1>1. /\ todo' = {} /\ pushes' = {} /\ UNCHANGED <<fresh, content, posts>>
      /\ lost' = lost \cup {Pair(t) : t \in todo \cup pushes}
  BY DEF Restart, Q!Restart, Q!history
<1>2. lost' = lost \cup OwedNow /\ OwedNow' = {} /\ Handed' = Handed
  BY <1>1 DEF OwedNow, Handed
<1>3. OwedNow \subseteq Pairs
  BY PairTypes DEF OwedNow, RouteInv, RouteTypes
<1> QED BY <1>1, <1>2, <1>3 DEF RouteInv, RouteTypes, OneTier, HandedOnce, Apart

-----------------------------------------------------------------------------
(***************************************************************************)
(* What a step of the running node may do to a pair.                       *)
(***************************************************************************)

\* The arrivals of a step, and what it lets the queue count as delivered.
Arrives == received \subseteq received' /\ received' \ received \subseteq OwedNow \cup Handed
Counts == \A p \in delivered' \ delivered : p \in 1 .. posts /\ content[p] \in received

\* A pair owed stays so, or is handed off, or has come; none is handed off
\* that was not owed; nothing dropped is forgotten.
Progress ==
  /\ lost' = lost
  /\ dropped \subseteq dropped'
  /\ \A i \in 1 .. posts : i \in 1 .. posts' /\ content'[i] = content[i]
  /\ Arrives /\ Counts
  /\ OwedNow \subseteq OwedNow' \cup Handed' \cup received'
  /\ Handed' \subseteq Handed \cup OwedNow

\* The steps that leave the fan-outs and the content as they are.
Quiet ==
  /\ UNCHANGED <<fresh, todo, pushes, content, posts, lost>>
  /\ dropped \subseteq dropped'
  /\ Arrives /\ Counts

ReadsOn ==
  /\ expired' \subseteq Items
  /\ flown \subseteq flown'
  /\ \A f \in flushing' :
       \/ f \in flushing
       \/ f.copy \in flown' /\ f = [copy |-> f.copy, batch |-> f.batch, state |-> f.state]

LEMMA QuietSteps ==
  ASSUME RouteInv, Quiet
  PROVE  RouteInv' /\ Progress
<1>1. OwedNow' = OwedNow /\ Handed' = Handed
  BY DEF Quiet, OwedNow, Handed
<1> QED BY <1>1 DEF Quiet, Progress, RouteInv, RouteTypes, OneTier, HandedOnce, Apart

LEMMA ReadsKept ==
  ASSUME ReadTypes, ReadsOn
  PROVE  ReadTypes'
BY DEF ReadTypes, ReadsOn

\* The records of a flush's copies are told on by their state only.
LEMMA CopyTried ==
  ASSUME ReadTypes, NEW f \in flushing, NEW state
  PROVE  LET g == [f EXCEPT !.state = state]
         IN  g.copy \in flown /\ g = [copy |-> g.copy, batch |-> g.batch, state |-> g.state]
<1>1. [f EXCEPT !.state = state] = [copy |-> f.copy, batch |-> f.batch, state |-> state]
  BY DEF ReadTypes
<1> QED BY <1>1 DEF ReadTypes

LEMMA StoredIsPast ==
  ASSUME QP!TypeInv
  PROVE  /\ \A e \in Q!Stored : e.at \in 1 .. posts
         /\ \A p : Q!Page(p) \subseteq Q!Stored
         /\ \A c \in flown : c.at \in 1 .. posts
         /\ delivered \subseteq 1 .. posts /\ dropped \subseteq 1 .. posts
<1>1. \A p : Q!Page(p) \subseteq Q!Stored
  BY DEF Q!Page, Q!Stored, Q!Held
<1> QED BY <1>1, SameSets DEF QP!TypeInv, QP!PostsPast, QP!TypeOK

LEMMA HandedOffSteps ==
  ASSUME RouteInv, NEW t \in todo \cup pushes, HandOff(t.subscriber, t.channel, t.blob),
         todo' = todo \ {t}, pushes' = pushes \ {t}, UNCHANGED <<fresh, lost, received>>
  PROVE  RouteInv' /\ Progress
<1>1. RouteInv'
  BY HandOffKeepsRoute
<1>2. content' = Append(content, Pair(t)) /\ posts' = posts + 1 /\ dropped \subseteq dropped' /\ delivered' = delivered
  BY HandOffEffect DEF Pair
<1>3. Pair(t) \in Pairs
  BY PairTypes DEF RouteInv, RouteTypes
<1>4. /\ \A i \in 1 .. posts : content'[i] = content[i]
      /\ Handed' = Handed \cup {Pair(t)}
  BY <1>2, <1>3, ContentGrows DEF RouteInv
<1>5. Pair(t) \in OwedNow /\ OwedNow' = OwedNow \ {Pair(t)}
  BY DEF OwedNow, RouteInv, OneTier, Pair
<1>6. \A i \in 1 .. posts : i \in 1 .. posts'
  BY <1>2 DEF RouteInv, RouteTypes
<1> QED BY <1>1, <1>2, <1>4, <1>5, <1>6 DEF Progress, Arrives, Counts

LEMMA ServeSteps ==
  ASSUME RouteInv, NEW t \in todo, Serve(t)
  PROVE  RouteInv' /\ Progress
<1>0. t \in todo \cup pushes /\ t \notin pushes
  BY DEF RouteInv, OneTier
<1>1. CASE push_taken(t)
  <2>1. /\ todo' = todo \ {t} /\ pushes' = pushes \cup {t} /\ todo' \cup pushes' = todo \cup pushes
        /\ UNCHANGED <<fresh, lost, content, posts, received, dropped, delivered>>
    BY <1>1 DEF push_taken, PushOut, NoQueueStep, queueVars
  <2>2. OwedNow' = OwedNow /\ Handed' = Handed
    BY <2>1 DEF OwedNow, Handed, Pair
  <2>3. OneTier'
    BY <2>1 DEF OneTier, RouteInv, Pair
  <2>4. RouteInv'
    BY <2>1, <2>2, <2>3, TierKeepsRoute DEF RouteInv, RouteTypes
  <2>5. Progress
    BY <2>1, <2>2 DEF Progress, Arrives, Counts
  <2> QED BY <2>4, <2>5
<1>2. CASE fall_through(t)
  <2> DEFINE u == [t EXCEPT !.tier = NextTier(t.tier)]
  <2>1. /\ todo' = (todo \ {t}) \cup {u} /\ pushes' = pushes
        /\ UNCHANGED <<fresh, lost, content, posts, received, dropped, delivered>>
    BY <1>2 DEF fall_through, NoQueueStep, queueVars
  <2>2. u \in Pushes /\ Pair(u) = Pair(t)
    BY DEF RouteInv, RouteTypes, Pushes, Pair, NextTier, Tiers
  <2>3. \A v \in todo \cup pushes : Pair(v) = Pair(u) => v = t
    BY <1>0, <2>2 DEF RouteInv, OneTier
  <2> HIDE DEF u
  <2>4. OwedNow' = OwedNow /\ Handed' = Handed
    <3>1. OwedNow' = {Pair(v) : v \in ((todo \cup pushes) \ {t}) \cup {u}}
      BY <1>0, <2>1 DEF OwedNow, Pair
    <3> QED BY <3>1, <2>1, <2>2 DEF OwedNow, Handed
  <2>5. OneTier'
    <3>1. u \notin pushes
      BY <1>0, <2>2, <2>3
    <3>2. todo' \cap pushes' = {}
      BY <2>1, <3>1 DEF RouteInv, OneTier
    <3>3. ASSUME NEW v \in todo' \cup pushes', NEW w \in todo' \cup pushes', Pair(v) = Pair(w) PROVE v = w
      <4>1. v = u \/ (v \in todo \cup pushes /\ v # t)
        BY <1>0, <2>1
      <4>2. w = u \/ (w \in todo \cup pushes /\ w # t)
        BY <1>0, <2>1
      <4> QED BY <3>3, <4>1, <4>2, <2>3 DEF RouteInv, OneTier
    <3> QED BY <3>2, <3>3 DEF OneTier, Pair
  <2>6. RouteInv'
    BY <2>1, <2>2, <2>4, <2>5, TierKeepsRoute DEF RouteInv, RouteTypes
  <2>7. Progress
    BY <2>1, <2>4 DEF Progress, Arrives, Counts
  <2> QED BY <2>6, <2>7
<1>3. CASE no_route(t)
  <2>1. /\ pushes' = pushes \ {t} /\ todo' = todo \ {t} /\ UNCHANGED <<fresh, lost, received>>
        /\ HandOff(t.subscriber, t.channel, t.blob)
    BY <1>0, <1>3 DEF no_route
  <2> QED BY <2>1, HandedOffSteps
<1> QED BY <1>1, <1>2, <1>3 DEF Serve

LEMMA PlanSteps ==
  ASSUME RouteInv, NEW b \in Blobs, NEW c \in Channels, plan_channel_fanout(b, c)
  PROVE  RouteInv' /\ Progress
<1>1. /\ UNCHANGED <<pushes, lost, content, posts, received, dropped, delivered>>
      /\ todo \subseteq todo'
  BY DEF plan_channel_fanout, NoQueueStep, queueVars
<1>2. OwedNow \subseteq OwedNow' /\ Handed' = Handed
  BY <1>1 DEF OwedNow, Handed, Pair
<1>3. RouteInv'
  BY <1>1, PlanKeepsRoute
<1> QED BY <1>1, <1>2, <1>3 DEF Progress, Arrives, Counts

LEMMA VerdictSteps ==
  ASSUME RouteInv, NEW t \in pushes, push_arrives(t) \/ Verdict(t)
  PROVE  RouteInv' /\ Progress
<1>0. t \in todo \cup pushes /\ t \notin todo /\ Pair(t) \in OwedNow
  BY DEF RouteInv, OneTier, OwedNow
<1>1. CASE push_arrives(t)
  <2>1. Quiet
    BY <1>0, <1>1 DEF push_arrives, fanouts, NoQueueStep, queueVars, Quiet, Arrives, Counts
  <2> QED BY <2>1, QuietSteps
<1>2. CASE push_confirmed(t)
  <2>1. /\ pushes' = pushes \ {t} /\ todo' = todo /\ Pair(t) \in received
        /\ UNCHANGED <<fresh, lost, content, posts, received, dropped, delivered>>
    BY <1>2 DEF push_confirmed, NoQueueStep, queueVars
  <2>2. OwedNow' = OwedNow \ {Pair(t)} /\ Handed' = Handed
    BY <2>1, <1>0 DEF OwedNow, Handed, Pair, RouteInv, OneTier
  <2>3. OneTier'
    BY <2>1 DEF OneTier, RouteInv, Pair
  <2>4. RouteInv'
    BY <2>1, <2>2, <2>3, TierKeepsRoute DEF RouteInv, RouteTypes
  <2>5. Progress
    BY <2>1, <2>2 DEF Progress, Arrives, Counts
  <2> QED BY <2>4, <2>5
<1>3. CASE push_unconfirmed(t)
  <2>1. /\ pushes' = pushes \ {t} /\ todo' = todo \ {t} /\ UNCHANGED <<fresh, lost, received>>
        /\ HandOff(t.subscriber, t.channel, t.blob)
    BY <1>0, <1>3 DEF push_unconfirmed
  <2> QED BY <2>1, HandedOffSteps
<1> QED BY <1>1, <1>2, <1>3 DEF Verdict

\* A step that touches neither the fan-outs nor what arrived.
LEMMA StillSteps ==
  ASSUME RouteInv, ReadTypes, UNCHANGED <<fresh, todo, pushes, content, lost>>,
         posts' = posts, dropped \subseteq dropped', flown \subseteq flown',
         delivered' = delivered, received' = received,
         expired' \subseteq expired,
         \A f \in flushing' : f \in flushing
  PROVE  RouteInv' /\ ReadTypes' /\ Progress
<1>1. Quiet
  BY DEF Quiet, Arrives, Counts
<1>2. ReadsOn
  BY DEF ReadsOn, ReadTypes
<1> QED BY <1>1, <1>2, QuietSteps, ReadsKept

LEMMA FlushQueuedSteps ==
  ASSUME RouteInv, ReadTypes, QP!TypeInv, NEW s \in Subscribers, flush_queued(s)
  PROVE  RouteInv' /\ ReadTypes' /\ Progress
<1> DEFINE copied == {e \in Q!Bucket(s) : e.ticket \notin in_flight}
           batch == {e.ticket : e \in copied}
<1>1. /\ flushing' = flushing \cup {[copy |-> CopyOf(e), batch |-> batch, state |-> "to send"] : e \in copied}
      /\ Q!flush_copies(s, Channels)
      /\ UNCHANGED <<fresh, todo, pushes, content, lost, expired, received>>
  BY DEF flush_queued, fanouts
<1>2. posts' = posts /\ dropped' = dropped /\ delivered' = delivered /\ flown \subseteq flown'
  BY <1>1, FlushEffect
<1>3. copied = {e \in Q!Matching(s, Channels) : e.ticket \notin in_flight}
  BY DEF Q!Matching, Q!Bucket, QP!TypeInv, QP!TypeOK, QP!Entry
<1>4. flown' = flown \cup {[subscriber |-> s, ticket |-> e.ticket, at |-> e.at] : e \in copied}
  <2> HIDE DEF copied
  <2> QED BY <1>1, <1>3 DEF Q!flush_copies
<1>5. \A e \in copied : CopyOf(e) \in flown'
  <2>1. \A e \in copied : CopyOf(e) = [subscriber |-> s, ticket |-> e.ticket, at |-> e.at]
    BY DEF CopyOf, Q!Bucket
  <2> HIDE DEF copied
  <2> QED BY <1>4, <2>1
<1>6. ReadsOn
  <2>1. \A f \in flushing' : f \in flushing \/ \E e \in copied : f = [copy |-> CopyOf(e), batch |-> batch, state |-> "to send"]
    BY <1>1
  <2> HIDE DEF copied, batch
  <2>2. ASSUME NEW f \in flushing', f \notin flushing
        PROVE  f.copy \in flown' /\ f = [copy |-> f.copy, batch |-> f.batch, state |-> f.state]
    <3>1. PICK e \in copied : f = [copy |-> CopyOf(e), batch |-> batch, state |-> "to send"]
      BY <2>1, <2>2
    <3> QED BY <3>1, <1>5
  <2> QED BY <2>2, <1>1, <1>2 DEF ReadsOn, ReadTypes
<1>7. Quiet
  BY <1>1, <1>2 DEF Quiet, Arrives, Counts
<1> QED BY <1>6, <1>7, QuietSteps, ReadsKept

LEMMA FlushCopySteps ==
  ASSUME RouteInv, ReadTypes, QP!TypeInv, NEW f \in flushing,
         FlushSend(f) \/ release_unsent(f) \/ flush_arrives(f) \/ FlushVerdict(f)
  PROVE  RouteInv' /\ ReadTypes' /\ Progress
<1>1. UNCHANGED <<fresh, todo, pushes, content, lost, expired>>
  BY DEF FlushSend, flush_send, release_unsent, flush_arrives, FlushVerdict, flush_confirmed,
     flush_unconfirmed, fanouts, NoQueueStep
<1>2. ASSUME NEW state PROVE [f EXCEPT !.state = state].copy \in flown
  BY CopyTried
<1>3. ASSUME posts' = posts, dropped' = dropped, flown' = flown, Arrives, Counts,
             \A g \in flushing' : g \in flushing \/ \E state : g = [f EXCEPT !.state = state]
      PROVE  RouteInv' /\ ReadTypes' /\ Progress
  <2>1. Quiet
    BY <1>1, <1>3 DEF Quiet
  <2>2. ReadsOn
    BY <1>1, <1>3, CopyTried DEF ReadsOn, ReadTypes
  <2> QED BY <2>1, <2>2, QuietSteps, ReadsKept
<1>4. CASE FlushSend(f)
  <2>1. PICK state \in {"link", "packet", "unsent"} : flush_send(f, state)
    BY <1>4 DEF FlushSend
  <2>2. UNCHANGED <<posts, dropped, flown, received, delivered>>
        /\ flushing' = (flushing \ {f}) \cup {[f EXCEPT !.state = state]}
    BY <2>1 DEF flush_send, NoQueueStep, queueVars
  <2> QED BY <1>3, <2>2 DEF Arrives, Counts
<1>5. CASE release_unsent(f)
  <2>1. Release(f.copy) /\ received' = received /\ flushing' = flushing \ {f}
    BY <1>5 DEF release_unsent
  <2> QED BY <1>3, <2>1, ReleaseEffect DEF Arrives, Counts
<1>6. CASE flush_arrives(f)
  <2>1. UNCHANGED <<posts, dropped, flown, delivered, flushing>> /\ received' = received \cup {FlushPair(f)}
    BY <1>6 DEF flush_arrives, NoQueueStep, queueVars
  <2>2. FlushPair(f) \in Handed
    BY StoredIsPast DEF FlushPair, Handed, ReadTypes
  <2> QED BY <1>3, <2>1, <2>2 DEF Arrives, Counts
<1>7. CASE flush_confirmed(f)
  <2>1. PICK w \in WriteOutcomes : Q!confirm(f.copy, w)
    BY <1>7 DEF flush_confirmed
  <2>2. posts' = posts /\ dropped' = dropped /\ flown' = flown /\ delivered' = delivered \cup {f.copy.at}
    BY <2>1, ConfirmEffect
  <2>3. FlushPair(f) \in received /\ received' = received /\ flushing' = flushing \ {f}
    BY <1>7 DEF flush_confirmed
  <2>4. f.copy.at \in 1 .. posts /\ content[f.copy.at] \in received
    BY <2>3, StoredIsPast DEF ReadTypes, FlushPair
  <2> QED BY <1>3, <2>2, <2>3, <2>4 DEF Arrives, Counts
<1>8. CASE flush_unconfirmed(f)
  <2>1. Release(f.copy) /\ received' = received /\ flushing' = (flushing \ {f}) \cup Unconfirmed(f)
    BY <1>8 DEF flush_unconfirmed
  <2>2. \A g \in Unconfirmed(f) : g = [f EXCEPT !.state = "late"]
    BY DEF Unconfirmed
  <2> QED BY <1>3, <2>1, <2>2, ReleaseEffect DEF Arrives, Counts
<1> QED BY <1>4, <1>5, <1>6, <1>7, <1>8 DEF FlushVerdict

LEMMA PageSteps ==
  ASSUME RouteInv, ReadTypes, QP!TypeInv, NEW p, page_arrives(p) \/ pull_concluded(p)
  PROVE  RouteInv' /\ ReadTypes' /\ Progress
<1>1. UNCHANGED <<fresh, todo, pushes, content, lost, expired, flushing>>
  BY DEF page_arrives, pull_concluded, fanouts, NoQueueStep
<1>2. ASSUME posts' = posts, dropped' = dropped, flown' = flown, Arrives, Counts
      PROVE  RouteInv' /\ ReadTypes' /\ Progress
  <2>1. Quiet
    BY <1>1, <1>2 DEF Quiet
  <2>2. ReadsOn
    BY <1>1, <1>2 DEF ReadsOn, ReadTypes
  <2> QED BY <2>1, <2>2, QuietSteps, ReadsKept
<1>3. \A e \in Q!Page(p) : e.at \in 1 .. posts
  BY StoredIsPast
<1>4. CASE page_arrives(p)
  <2>1. UNCHANGED <<posts, dropped, flown, delivered>> /\ received' = received \cup ContentOf(Q!Page(p))
    BY <1>4 DEF page_arrives, NoQueueStep, queueVars
  <2>2. ContentOf(Q!Page(p)) \subseteq Handed
    BY <1>3 DEF ContentOf, Handed
  <2> QED BY <1>2, <2>1, <2>2 DEF Arrives, Counts
<1>5. CASE pull_concluded(p)
  <2>1. received' = received
    BY <1>5 DEF pull_concluded
  <2>2. ASSUME NEW w \in WriteOutcomes, Q!SettleProved(p, w), ContentOf(Q!Page(p)) \subseteq received
        PROVE  RouteInv' /\ ReadTypes' /\ Progress
    <3>1. posts' = posts /\ dropped' = dropped /\ flown' = flown /\ delivered' = delivered \cup {e.at : e \in Q!Page(p)}
      BY <2>2, ProvedEffect
    <3>2. Counts
      BY <3>1, <1>3, <2>2 DEF Counts, ContentOf
    <3> QED BY <1>2, <2>1, <3>1, <3>2 DEF Arrives
  <2>3. CASE Q!SettleUnproved(p)
    <3>1. posts' = posts /\ dropped' = dropped /\ delivered' = delivered /\ flown' = flown
      BY <2>3, PullEffect
    <3> QED BY <1>2, <2>1, <3>1 DEF Arrives, Counts
  <2> QED BY <1>5, <2>2, <2>3 DEF pull_concluded
<1> QED BY <1>4, <1>5

LEMMA OtherSteps ==
  ASSUME RouteInv, ReadTypes,
         \/ Subscription
         \/ \E x \in expired : drop_expired(x)
         \/ \E p \in wakes : wake_after_queueing(p)
         \/ \E s \in Subscribers, c \in Channels : channel_pull(s, c)
         \/ \E threshold \in 2 .. posts + 1 : evict_expired(threshold)
         \/ UNCHANGED vars
  PROVE  RouteInv' /\ ReadTypes' /\ Progress
<1>1. UNCHANGED <<fresh, todo, pushes, content, lost, received, flushing>> /\ expired' \subseteq expired
  BY DEF Subscription, subscribe, unsubscribe, ThirtyDaysPass, drop_expired, wake_after_queueing,
     channel_pull, evict_expired, fanouts, vars
<1>2. posts' = posts /\ dropped \subseteq dropped' /\ delivered' = delivered /\ flown' = flown
  <2>0. CASE UNCHANGED queueVars
    BY <2>0 DEF queueVars
  <2>1. CASE Subscription \/ (\E p \in wakes : wake_after_queueing(p)) \/ UNCHANGED vars
    BY <2>0, <2>1 DEF Subscription, subscribe, unsubscribe, ThirtyDaysPass, wake_after_queueing, vars
  <2> DEFINE Kept == posts' = posts /\ dropped \subseteq dropped' /\ delivered' = delivered /\ flown' = flown
  <2>2. ASSUME NEW x \in expired, drop_expired(x) PROVE Kept
    BY <2>0, <2>2, DiscardEffect DEF drop_expired
  <2>3. ASSUME NEW s \in Subscribers, NEW c \in Channels, channel_pull(s, c) PROVE Kept
    BY <2>3, PullEffect DEF channel_pull
  <2>4. ASSUME NEW threshold \in 2 .. posts + 1, evict_expired(threshold) PROVE Kept
    BY <2>4, DiscardEffect DEF evict_expired
  <2> QED BY <2>1, <2>2, <2>3, <2>4
<1> QED BY <1>1, <1>2, StillSteps

-----------------------------------------------------------------------------

FanoutInv == QP!TypeInv /\ RouteInv /\ ReadTypes

LEMMA InitFanoutInv == Init => FanoutInv
<1>1. Init => QP!Init
  BY SameEnds DEF Init
<1> QED BY <1>1, InitRouteInv, QueueConstants, QP!InitTypeInv DEF FanoutInv

LEMMA StepEffects ==
  ASSUME FanoutInv, [Next]_vars
  PROVE  FanoutInv' /\ (Progress \/ Restart)
<1>0. QP!TypeInv /\ RouteInv /\ ReadTypes /\ RouteTypes
  BY DEF FanoutInv, RouteInv
<1>1. QP!TypeInv'
  <2>1. [QP!Next]_(QP!vars)
    BY <1>0, StepIsQueueStep
  <2> QED BY <1>0, <2>1, QueueConstants, QP!NextTypeInv
<1>2. ASSUME RouteInv' /\ Progress, UNCHANGED <<expired, flushing, flown>> PROVE ReadTypes'
  BY <1>0, <1>2, ReadsKept DEF ReadsOn, ReadTypes
<1>3. ASSUME NEW b \in Blobs, NEW c \in Channels, plan_channel_fanout(b, c)
      PROVE  RouteInv' /\ ReadTypes' /\ Progress
  <2>1. RouteInv' /\ Progress
    BY <1>0, <1>3, PlanSteps
  <2>2. flown' = flown /\ flushing' = flushing /\ expired' \subseteq Items
    <3>1. flown' = flown /\ flushing' = flushing
      BY <1>3 DEF plan_channel_fanout, NoQueueStep, queueVars
    <3>2. \A x \in expired' : x \in expired \/ \E s \in Subscribers : x = [subscriber |-> s, channel |-> c, blob |-> b]
      BY <1>3 DEF plan_channel_fanout
    <3>3. expired' \subseteq Items
      BY <1>0, <3>2 DEF ReadTypes, Items
    <3> QED BY <3>1, <3>3
  <2>3. ReadTypes'
    BY <1>0, <2>2, ReadsKept DEF ReadsOn
  <2> QED BY <2>1, <2>3
<1>4. ASSUME NEW t \in todo, Serve(t) PROVE RouteInv' /\ ReadTypes' /\ Progress
  <2>1. RouteInv' /\ Progress
    BY <1>0, <1>4, ServeSteps
  <2>2. UNCHANGED <<expired, flushing, flown>>
    BY <1>4, HandOffEffect DEF Serve, push_taken, PushOut, fall_through, no_route, NoQueueStep, queueVars
  <2> QED BY <1>2, <2>1, <2>2
<1>5. ASSUME NEW t \in pushes, push_arrives(t) \/ Verdict(t) PROVE RouteInv' /\ ReadTypes' /\ Progress
  <2>1. RouteInv' /\ Progress
    BY <1>0, <1>5, VerdictSteps
  <2>2. UNCHANGED <<expired, flushing, flown>>
    BY <1>5, HandOffEffect DEF push_arrives, Verdict, push_confirmed, push_unconfirmed, NoQueueStep,
       queueVars, fanouts
  <2> QED BY <1>2, <2>1, <2>2
<1>6. ASSUME NEW s \in Subscribers, flush_queued(s) PROVE RouteInv' /\ ReadTypes' /\ Progress
  BY <1>0, <1>6, FlushQueuedSteps
<1>7. ASSUME NEW f \in flushing, FlushSend(f) \/ release_unsent(f) \/ flush_arrives(f) \/ FlushVerdict(f)
      PROVE  RouteInv' /\ ReadTypes' /\ Progress
  BY <1>0, <1>7, FlushCopySteps
<1>8. ASSUME NEW h \in held, page_arrives(h.page) \/ pull_concluded(h.page)
      PROVE  RouteInv' /\ ReadTypes' /\ Progress
  BY <1>0, <1>8, PageSteps
<1>9. ASSUME \/ Subscription
             \/ \E x \in expired : drop_expired(x)
             \/ \E p \in wakes : wake_after_queueing(p)
             \/ \E s \in Subscribers, c \in Channels : channel_pull(s, c)
             \/ \E threshold \in 2 .. posts + 1 : evict_expired(threshold)
             \/ UNCHANGED vars
      PROVE  RouteInv' /\ ReadTypes' /\ Progress
  BY <1>0, <1>9, OtherSteps
<1>10. CASE Restart
  <2>1. RouteInv'
    BY <1>0, <1>10, RestartKeepsRoute
  <2>2. ReadTypes'
    BY <1>10 DEF Restart, ReadTypes
  <2> QED BY <1>1, <1>10, <2>1, <2>2 DEF FanoutInv
<1>11. RouteInv' /\ ReadTypes' /\ (Progress \/ Restart)
  BY <1>3, <1>4, <1>5, <1>6, <1>7, <1>8, <1>9, <1>10 DEF Next, FanoutInv
<1> QED BY <1>1, <1>11 DEF FanoutInv

\* What the queue counts as delivered stays so, and the device keeps it.
LEMMA ConfirmedKept ==
  ASSUME FanoutInv, ConfirmedIsReceived, [Next]_vars
  PROVE  ConfirmedIsReceived'
<1>1. delivered \subseteq 1 .. posts
  BY StoredIsPast DEF FanoutInv
<1>2. CASE Progress
  BY <1>1, <1>2 DEF Progress, Arrives, Counts, ConfirmedIsReceived
<1>3. CASE Restart
  BY <1>3 DEF Restart, Q!Restart, Q!history, ConfirmedIsReceived
<1> QED BY <1>2, <1>3, StepEffects

\* The queue gives up a post as delivered only if the device has it, whatever
\* the writes come to: a pull settles as proved what its requester proved, a
\* flush confirms a copy by its own ticket and post, and a live push that was
\* confirmed never reached the queue (settle_page, confirm, push_confirmed).
THEOREM DeliveredMeansReceived == Spec => []ConfirmedIsReceived
<1>1. Init => ConfirmedIsReceived
  BY DEF Init, Q!Init, ConfirmedIsReceived
<1>2. FanoutInv /\ ConfirmedIsReceived /\ [Next]_vars => (FanoutInv /\ ConfirmedIsReceived)'
  BY StepEffects, ConfirmedKept
<1> QED BY <1>1, <1>2, InitFanoutInv, PTL DEF Spec

-----------------------------------------------------------------------------
(***************************************************************************)
(* What a wake finds.                                                      *)
(***************************************************************************)

WakesFind == wakes' \ wakes \subseteq ContentOf(queue)' \cup (Dropped' \ Dropped)

LEMMA NamesKept ==
  ASSUME FanoutInv, QP!NamesInv, [Next]_vars
  PROVE  QP!NamesInv'
<1>1. [QP!Next]_(QP!vars)
  BY StepIsQueueStep DEF FanoutInv, RouteInv
<1> QED BY <1>1, QueueConstants, QP!NextNamesInv

\* The hand-off queues the blob before the wake, or drops it there and then.
LEMMA HandOffWakes ==
  ASSUME FanoutInv, NEW t \in todo \cup pushes, HandOff(t.subscriber, t.channel, t.blob)
  PROVE  WakesFind
<1>1. content' = Append(content, Pair(t)) /\ wakes' = wakes \cup {Pair(t)} /\ posts' = posts + 1
  BY HandOffEffect DEF Pair
<1>2. Pair(t) \in OwedNow /\ Pair(t) \in Pairs
  BY PairTypes DEF OwedNow, FanoutInv, RouteInv, RouteTypes
<1>3. content'[posts + 1] = Pair(t)
  BY <1>1, <1>2, ContentGrows DEF FanoutInv, RouteInv
<1>4. Pair(t) \notin Dropped
  BY <1>2, StoredIsPast DEF FanoutInv, RouteInv, Apart, Handed, Dropped
<1>5. CASE \E w \in WriteOutcomes : Q!Enqueue(t.subscriber, t.channel, w)
  <2>1. \E e \in queue' : e.at = posts + 1
    <3>1. PICK evicted, w : Q!Admit(t.subscriber, t.channel, evicted, w)
      BY <1>5 DEF Q!Enqueue, Q!EnqueueQueued, Q!EnqueueEvictingOldest, Q!EnqueueEvictingFullest
    <3>2. PICK id \in Q!IdAfter(w, Q!delete_rows(rows, evicted)) :
            queue' = (queue \ evicted) \cup
              {[subscriber |-> t.subscriber, routing |-> t.channel, at |-> posts + 1, id |-> id,
                ticket |-> next_ticket, place |-> next_ticket]}
      BY <3>1 DEF Q!Admit
    <3> DEFINE entry == [subscriber |-> t.subscriber, routing |-> t.channel, at |-> posts + 1, id |-> id,
                         ticket |-> next_ticket, place |-> next_ticket]
    <3>3. entry \in queue' /\ entry.at = posts + 1
      BY <3>2
    <3> HIDE DEF entry
    <3> QED BY <3>3
  <2>2. Pair(t) \in ContentOf(queue)'
    BY <1>3, <2>1 DEF ContentOf
  <2> QED BY <1>1, <2>2 DEF WakesFind
<1>6. CASE Q!EnqueueRefused(t.subscriber)
  <2>1. posts + 1 \in dropped'
    BY <1>6 DEF Q!EnqueueRefused
  <2>2. Pair(t) \in Dropped'
    BY <1>3, <2>1 DEF Dropped
  <2> QED BY <1>1, <1>4, <2>2 DEF WakesFind
<1> QED BY <1>5, <1>6 DEF HandOff

\* A flush wakes for a copy whose entry is in the bucket, of the copy's post.
LEMMA FlushWakes ==
  ASSUME FanoutInv, QP!NamesInv, NEW f \in flushing, flush_unconfirmed(f)
  PROVE  WakesFind
<1>1. /\ wakes' = wakes \cup {FlushPair(g) : g \in {h \in {f} : InBucket(h.copy)}}
      /\ Release(f.copy) /\ content' = content
  BY DEF flush_unconfirmed
<1>2. queue' = queue
  BY <1>1, ReleaseEffect
<1>3. CASE ~InBucket(f.copy)
  BY <1>1, <1>3 DEF WakesFind
<1>4. CASE InBucket(f.copy)
  <2>1. PICK e \in queue : e.subscriber = f.copy.subscriber /\ e.ticket = f.copy.ticket
    BY <1>4 DEF InBucket, Q!Bucket
  <2>2. f.copy \in flown /\ e \in QP!Stored
    BY DEF FanoutInv, ReadTypes, QP!Stored
  <2>3. e.at = f.copy.at
    BY <2>1, <2>2 DEF QP!NamesInv, QP!CopiesNameEntries
  <2>4. FlushPair(f) \in ContentOf(queue)'
    BY <1>1, <1>2, <2>3 DEF FlushPair, ContentOf
  <2> QED BY <1>1, <2>4 DEF WakesFind
<1> QED BY <1>3, <1>4

LEMMA StepWakes ==
  ASSUME FanoutInv, QP!NamesInv, [Next]_vars
  PROVE  WakesFind
<1>0. CASE wakes' \subseteq wakes
  BY <1>0 DEF WakesFind
<1>1. ASSUME NEW t \in todo, Serve(t) PROVE WakesFind
  BY <1>0, <1>1, HandOffWakes DEF Serve, push_taken, PushOut, fall_through, no_route, NoQueueStep
<1>2. ASSUME NEW t \in pushes, push_arrives(t) \/ Verdict(t) PROVE WakesFind
  BY <1>0, <1>2, HandOffWakes DEF push_arrives, Verdict, push_confirmed, push_unconfirmed, NoQueueStep
<1>3. ASSUME NEW f \in flushing, FlushSend(f) \/ release_unsent(f) \/ flush_arrives(f) \/ FlushVerdict(f)
      PROVE  WakesFind
  BY <1>0, <1>3, FlushWakes DEF FlushSend, flush_send, release_unsent, flush_arrives, FlushVerdict,
     flush_confirmed, NoQueueStep
<1>4. ASSUME \/ Subscription
             \/ \E b \in Blobs, c \in Channels : plan_channel_fanout(b, c)
             \/ \E x \in expired : drop_expired(x)
             \/ \E p \in wakes : wake_after_queueing(p)
             \/ \E s \in Subscribers : flush_queued(s)
             \/ \E s \in Subscribers, c \in Channels : channel_pull(s, c)
             \/ \E h \in held : page_arrives(h.page) \/ pull_concluded(h.page)
             \/ \E threshold \in 2 .. posts + 1 : evict_expired(threshold)
             \/ Restart
             \/ UNCHANGED vars
      PROVE  wakes' \subseteq wakes
  BY <1>4 DEF Subscription, subscribe, unsubscribe, ThirtyDaysPass, plan_channel_fanout, drop_expired,
     wake_after_queueing, flush_queued, channel_pull, page_arrives, pull_concluded, evict_expired,
     Restart, vars, NoQueueStep
<1> QED BY <1>0, <1>1, <1>2, <1>3, <1>4 DEF Next

\* A wake is due only for a post that waits in a bucket, or that the limit
\* refused at that moment, whatever the writes come to: the queue comes before
\* the wake, and a flush asks the bucket for the copy's ticket before it wakes
\* (queue_then_wake, flush_unconfirmed).
THEOREM WakesAreForWaiting == Spec => WokenToCollect
<1>1. Init => QP!NamesInv
  BY QueueConstants, SameEnds, QP!InitStoreInv DEF Init, QP!StoreInv
<1>2. FanoutInv /\ QP!NamesInv /\ [Next]_vars => (FanoutInv /\ QP!NamesInv)' /\ WakesFind
  BY StepEffects, NamesKept, StepWakes
<1>3. WakesFind => wakes' \ wakes \subseteq ContentOf(queue)' \cup (Dropped' \ Dropped)
  BY DEF WakesFind
<1> QED BY <1>1, <1>2, <1>3, InitFanoutInv, PTL DEF Spec, WokenToCollect

-----------------------------------------------------------------------------
(***************************************************************************)
(* The promise, for the pairs whose writes the table took.                 *)
(***************************************************************************)

PromiseInv == FanoutInv /\ QP!StoreInv /\ ConfirmedIsReceived

\* The fate of a pair is read off disjoint sets.
Fates ==
  /\ Queued \ Doubtful = {content[i] : i \in (1 .. posts) \ (delivered \cup dropped \cup unsaved)}
  /\ Queued \subseteq Handed /\ Dropped \subseteq Handed
  /\ Handed \subseteq Queued \cup received \cup Dropped \cup Doubtful
  /\ Queued \cap Dropped \subseteq Doubtful

LEMMA FatesApart == PromiseInv => Fates
<1> SUFFICES ASSUME PromiseInv PROVE Fates
  OBVIOUS
<1> DEFINE stored == {e.at : e \in Q!Stored}
<1>1. /\ \A p \in (1 .. posts) \ unsaved : p \in stored \cup delivered \cup dropped
      /\ \A p \in (dropped \cup delivered) \ unsaved : p \notin stored
      /\ stored \subseteq 1 .. posts
      /\ delivered \subseteq 1 .. posts /\ dropped \subseteq 1 .. posts /\ unsaved \subseteq 1 .. posts
  <2>1. QP!Ats(QP!Stored) = stored
    BY SameSets DEF QP!Ats
  <2>2. QP!EveryPostAccounted /\ QP!DeliveredStaysGone /\ QP!TypeOK
    BY DEF PromiseInv, FanoutInv, QP!TypeInv, QP!StoreInv
  <2> HIDE DEF stored
  <2>3. /\ \A p \in (1 .. posts) \ unsaved : p \in stored \cup delivered \cup dropped
        /\ \A p \in (dropped \cup delivered) \ unsaved : p \notin stored
    BY <2>1, <2>2 DEF QP!EveryPostAccounted, QP!DeliveredStaysGone, QP!TypeOK
  <2>4. stored \subseteq 1 .. posts
    BY StoredIsPast DEF PromiseInv, FanoutInv, stored
  <2> QED BY <2>2, <2>3, <2>4 DEF QP!TypeOK
<1>2. Queued = {content[i] : i \in stored}
  BY DEF Queued, ContentOf
<1> HIDE DEF stored
<1>3. \A i, k \in 1 .. posts : content[i] = content[k] => i = k
  BY DEF PromiseInv, FanoutInv, RouteInv, HandedOnce
<1>4. \A i \in 1 .. posts : content[i] \in Doubtful <=> i \in unsaved
  BY <1>1, <1>3 DEF Doubtful
<1>5. Queued \ Doubtful = {content[i] : i \in stored \ unsaved}
  BY <1>1, <1>2, <1>4
<1>6. stored \ unsaved = (1 .. posts) \ (delivered \cup dropped \cup unsaved)
  BY <1>1
<1>7. Dropped = {content[i] : i \in dropped}
  BY DEF Dropped
<1>8. Queued \subseteq Handed /\ Dropped \subseteq Handed
  BY <1>1, <1>2, <1>7 DEF Handed
<1>9. Handed \subseteq Queued \cup received \cup Dropped \cup Doubtful
  BY <1>1, <1>2, <1>7 DEF Handed, Doubtful, PromiseInv, ConfirmedIsReceived
<1>10. Queued \cap Dropped \subseteq Doubtful
  BY <1>1, <1>2, <1>3, <1>7 DEF Doubtful
<1> QED BY <1>5, <1>6, <1>8, <1>9, <1>10 DEF Fates

\* What Fate says of a pair.
FateRead ==
  \A p \in Pairs :
    /\ p \in received => Fate[p] = "received"
    /\ p \notin received /\ p \in Queued => Fate[p] = "waiting"
    /\ p \notin received \cup Queued /\ p \in OwedNow => Fate[p] = "owed"
    /\ p \notin received \cup Queued \cup OwedNow /\ p \in Dropped => Fate[p] = "dropped"
    /\ p \notin received \cup Queued \cup OwedNow \cup Dropped /\ p \in lost => Fate[p] = "lost"
    /\ p \notin received \cup Queued \cup OwedNow \cup Dropped \cup lost => Fate[p] = "none"

LEMMA FateIsRead == FanoutInv => FateRead
<1> SUFFICES ASSUME FanoutInv, NEW p \in Pairs PROVE FateRead!(p)
  BY DEF FateRead
<1>0. ~(p \in OwedNow /\ p \in Dropped) /\ ~(p \in OwedNow /\ p \in lost) /\ ~(p \in Dropped /\ p \in lost)
  <2>1. Dropped \subseteq Handed
    BY StoredIsPast DEF FanoutInv, Dropped, Handed
  <2> QED BY <2>1 DEF FanoutInv, RouteInv, Apart
<1>1. p \in OwedNow <=> \E t \in todo \cup pushes : Pair(t) = p
  BY DEF OwedNow
<1>2. Fate[p] = CASE p \in received -> "received"
                  [] p \notin received /\ p \in Queued -> "waiting"
                  [] p \notin received \cup Queued /\ p \in OwedNow -> "owed"
                  [] p \notin received \cup Queued /\ p \in Dropped -> "dropped"
                  [] p \notin received \cup Queued /\ p \in lost -> "lost"
                  [] OTHER -> "none"
  BY <1>1 DEF Fate
<1> QED BY <1>0, <1>2

LEMMA FatesNext == PromiseInv' => Fates' /\ FateRead'
<1>0. PromiseInv => FateRead
  BY FateIsRead DEF PromiseInv
<1>1. (PromiseInv => Fates)' /\ (PromiseInv => FateRead)'
  BY FatesApart, <1>0, PTL
<1> QED BY <1>1

\* What is unsaved stays so, and is nothing if the table takes every write.
Grown ==
  /\ unsaved \subseteq unsaved'
  /\ WriteOutcomes \subseteq {"saved"} => unsaved' = unsaved

LEMMA UnsavedGrows ==
  ASSUME [QP!Next]_(QP!vars)
  PROVE  Grown
<1>1. \A w, after, ats : QP!Write(w, after, ats) => Grown
  BY DEF QP!Write, Grown
<1>2. ASSUME NEW s \in Subscribers, NEW r \in Channels, NEW w \in WriteOutcomes, QP!Enqueue(s, r, w)
      PROVE  Grown
  BY <1>1, <1>2 DEF QP!Enqueue, QP!EnqueueQueued, QP!EnqueueEvictingOldest, QP!EnqueueEvictingFullest,
     QP!Admit
<1>3. ASSUME NEW h \in held, QP!settle_page(h.page) PROVE Grown
  BY <1>1, <1>3 DEF QP!settle_page, QP!SettleProved, QP!SettleUnproved, QP!history, Grown
<1>4. ASSUME NEW copy \in flown, NEW w \in WriteOutcomes, QP!confirm(copy, w) PROVE Grown
  BY <1>1, <1>4 DEF QP!confirm
<1>5. ASSUME NEW threshold, NEW w \in WriteOutcomes, QP!evict_expired(threshold, w) PROVE Grown
  BY <1>1, <1>5 DEF QP!evict_expired, QP!Discard
<1>6. ASSUME NEW s, NEW r, NEW w \in WriteOutcomes, QP!drain_channel(s, r, w) PROVE Grown
  BY <1>1, <1>6 DEF QP!drain_channel, QP!Discard
<1>7. /\ \A s \in Subscribers : QP!EnqueueRefused(s) => Grown
      /\ \A s \in Subscribers, wanted \in QP!Kinds :
           QP!take_page(s, wanted) \/ QP!flush_copies(s, wanted) => Grown
      /\ \A copy \in flown : QP!release(copy) => Grown
      /\ QP!Restart => Grown
      /\ UNCHANGED QP!vars => Grown
  BY DEF QP!EnqueueRefused, QP!take_page, QP!flush_copies, QP!release, QP!Restart, QP!vars, QP!history, Grown
<1> QED BY <1>2, <1>3, <1>4, <1>5, <1>6, <1>7 DEF QP!Next

LEMMA PromiseInvKept ==
  ASSUME "uncommitted" \notin WriteOutcomes, PromiseInv, [Next]_vars
  PROVE  PromiseInv' /\ Grown /\ Doubtful \subseteq Doubtful'
<1>1. [QP!Next]_(QP!vars)
  BY StepIsQueueStep DEF PromiseInv, FanoutInv, RouteInv
<1>2. QP!StoreInv'
  BY <1>1, QueueConstants, QP!NextStoreInv DEF PromiseInv
<1>3. Grown
  BY <1>1, UnsavedGrows
<1>4. \A i \in unsaved : i \in unsaved' /\ content'[i] = content[i]
  <2>1. unsaved \subseteq 1 .. posts
    BY DEF PromiseInv, FanoutInv, QP!TypeInv, QP!TypeOK
  <2>2. \A i \in 1 .. posts : content'[i] = content[i]
    BY StepEffects DEF PromiseInv, Progress, Restart
  <2> QED BY <1>3, <2>1, <2>2 DEF Grown
<1>5. Doubtful \subseteq Doubtful'
  BY <1>4 DEF Doubtful
<1> QED BY <1>2, <1>3, <1>5, StepEffects, ConfirmedKept DEF PromiseInv

\* A step of the running node is one the promise allows, for each pair.
LEMMA ProgressDelivers ==
  ASSUME PromiseInv, PromiseInv', Progress, Doubtful \subseteq Doubtful'
  PROVE  \A p \in Pairs \ Doubtful' :
           <<Fate[p], Fate'[p]>> \in Promise!Becomes /\ Fate'[p] \in Promise!Fates
<1>1. Fates /\ FateRead /\ Fates' /\ FateRead'
  BY FatesApart, FateIsRead, FatesNext DEF PromiseInv
<1>2. /\ OwedNow \cap Handed = {} /\ lost \cap (OwedNow \cup Handed) = {}
      /\ OwedNow' \cap Handed' = {} /\ lost' \cap (OwedNow' \cup Handed') = {}
  BY DEF PromiseInv, FanoutInv, RouteInv, Apart
<1>3. Handed \subseteq Handed'
  BY DEF Progress, Handed
<1>4. ASSUME NEW p \in Pairs, p \notin Doubtful, p \notin Doubtful'
      PROVE  <<Fate[p], Fate'[p]>> \in Promise!Becomes /\ Fate'[p] \in Promise!Fates
  <2>1. CASE p \in received
    <3>1. Fate[p] = "received" /\ Fate'[p] = "received"
      BY <1>1, <2>1 DEF FateRead, Progress, Arrives
    <3> QED BY <3>1 DEF Promise!Becomes, Promise!Fates
  <2>2. CASE p \notin received /\ p \in Queued
    <3>1. Fate[p] = "waiting"
      BY <1>1, <2>2 DEF FateRead
    <3>2. p \in Queued' \cup received' \cup Dropped' /\ p \notin OwedNow'
      BY <1>1, <1>2, <1>3, <1>4, <2>2 DEF Fates
    <3>3. Fate'[p] \in {"waiting", "received", "dropped"}
      BY <1>1, <3>2 DEF FateRead
    <3> QED BY <3>1, <3>3 DEF Promise!Becomes, Promise!Fates
  <2>3. CASE p \notin received \cup Queued /\ p \in OwedNow
    <3>1. Fate[p] = "owed"
      BY <1>1, <2>3 DEF FateRead
    <3>2. p \in OwedNow' \cup Queued' \cup Dropped' \cup received'
      BY <1>1, <1>4, <2>3 DEF Fates, Progress
    <3>3. p \in OwedNow' => p \notin Queued' \cup Dropped'
      BY <1>1, <1>2 DEF Fates
    <3>4. Fate'[p] \in {"owed", "waiting", "received", "dropped"}
      BY <1>1, <3>2, <3>3 DEF FateRead
    <3> QED BY <3>1, <3>4 DEF Promise!Becomes, Promise!Fates
  <2>4. CASE p \notin received \cup Queued \cup OwedNow /\ p \in Dropped
    <3>1. Fate[p] = "dropped"
      BY <1>1, <2>4 DEF FateRead
    <3>2. p \in Dropped'
      <4>1. PICK i \in dropped : content[i] = p
        BY <2>4 DEF Dropped
      <4>2. i \in 1 .. posts /\ i \in dropped'
        BY StoredIsPast DEF PromiseInv, FanoutInv, Progress
      <4>3. content'[i] = p
        BY <4>1, <4>2 DEF Progress
      <4> QED BY <4>2, <4>3 DEF Dropped
    <3>3. p \notin Queued' /\ p \notin OwedNow'
      BY <1>1, <1>2, <1>4, <3>2 DEF Fates
    <3>4. Fate'[p] \in {"received", "dropped"}
      BY <1>1, <3>2, <3>3 DEF FateRead
    <3> QED BY <3>1, <3>4 DEF Promise!Becomes, Promise!Fates
  <2>5. CASE p \notin received \cup Queued \cup OwedNow \cup Dropped /\ p \in lost
    <3>1. Fate[p] = "lost"
      BY <1>1, <2>5 DEF FateRead
    <3>2. p \in lost' /\ p \notin received'
      BY <1>2, <2>5 DEF Progress, Arrives
    <3>3. p \notin Queued' \cup OwedNow' \cup Dropped'
      BY <1>1, <1>2, <3>2 DEF Fates
    <3>4. Fate'[p] = "lost"
      BY <1>1, <3>2, <3>3 DEF FateRead
    <3> QED BY <3>1, <3>4 DEF Promise!Becomes, Promise!Fates
  <2>6. CASE p \notin received \cup Queued \cup OwedNow \cup Dropped \cup lost
    <3>1. Fate[p] = "none"
      BY <1>1, <2>6 DEF FateRead
    <3>2. p \notin Handed
      BY <1>1, <1>4, <2>6 DEF Fates
    <3>3. p \notin received' /\ p \notin Handed' /\ p \notin lost'
      BY <3>2, <2>6 DEF Progress, Arrives
    <3>4. p \notin Queued' \cup Dropped'
      BY <1>1, <3>3 DEF Fates
    <3>5. Fate'[p] \in {"none", "owed"}
      BY <1>1, <3>3, <3>4 DEF FateRead
    <3> QED BY <3>1, <3>5 DEF Promise!Becomes, Promise!Fates
  <2> QED BY <2>1, <2>2, <2>3, <2>4, <2>5, <2>6
<1> QED BY <1>4

\* A restart loses what a fan-out owed, and nothing else.
LEMMA RestartCrashes ==
  ASSUME PromiseInv, PromiseInv', Restart, Doubtful \subseteq Doubtful'
  PROVE  \A p \in Pairs \ Doubtful' : Fate'[p] = IF Fate[p] = "owed" THEN "lost" ELSE Fate[p]
<1>1. Fates /\ FateRead /\ Fates' /\ FateRead'
  BY FatesApart, FateIsRead, FatesNext DEF PromiseInv
<1>2. /\ lost' = lost \cup OwedNow /\ OwedNow' = {} /\ Handed' = Handed
      /\ UNCHANGED <<received, content, posts, delivered, dropped, unsaved>>
  BY RestartKeepsRoute DEF PromiseInv, FanoutInv, Restart, Q!Restart, Q!history
<1>3. Queued' \ Doubtful = Queued \ Doubtful /\ Dropped' = Dropped /\ Doubtful' = Doubtful
  <2>1. Doubtful' = Doubtful /\ Dropped' = Dropped
    BY <1>2 DEF Doubtful, Dropped
  <2>2. Queued' \ Doubtful = Queued \ Doubtful
    BY <1>1, <1>2, <2>1 DEF Fates
  <2> QED BY <2>1, <2>2
<1>4. OwedNow \cap (Queued \cup Dropped) = {} /\ lost \cap (OwedNow \cup Queued \cup Dropped) = {}
  BY <1>1 DEF Fates, PromiseInv, FanoutInv, RouteInv, Apart
<1>5. ASSUME NEW p \in Pairs, p \notin Doubtful
      PROVE  Fate'[p] = IF Fate[p] = "owed" THEN "lost" ELSE Fate[p]
  <2>1. (p \in Queued' <=> p \in Queued) /\ (p \in Dropped' <=> p \in Dropped)
    BY <1>3, <1>5
  <2> QED BY <1>1, <1>2, <1>4, <2>1 DEF FateRead
<1> QED BY <1>3, <1>5

LEMMA InitPromise ==
  ASSUME Init
  PROVE  PromiseInv /\ Promise!Init
<1>1. PromiseInv
  BY InitFanoutInv, QueueConstants, SameEnds, QP!InitStoreInv
     DEF Init, Q!Init, PromiseInv, ConfirmedIsReceived
<1>2. \A p \in Pairs : p \notin received \cup Queued \cup OwedNow \cup Dropped \cup lost
  BY DEF Init, Q!Init, Queued, ContentOf, Q!Stored, Q!Held, OwedNow, Dropped
<1>3. \A p \in Pairs : Fate[p] = "none"
  BY <1>1, <1>2, FateIsRead DEF FateRead, PromiseInv
<1>4. Fate = [p \in Pairs |-> Fate[p]] /\ Pairs = Promise!Pairs
  BY DEF Fate, Pairs, Promise!Pairs
<1> QED BY <1>1, <1>3, <1>4 DEF Promise!Init

LEMMA PromiseSteps ==
  ASSUME PromiseInv, PromiseInv', [Next]_vars, Doubtful \subseteq Doubtful'
  PROVE  \/ \A p \in Pairs \ Doubtful' :
              <<Fate[p], Fate'[p]>> \in Promise!Becomes /\ Fate'[p] \in Promise!Fates
         \/ \A p \in Pairs \ Doubtful' : Fate'[p] = IF Fate[p] = "owed" THEN "lost" ELSE Fate[p]
BY StepEffects, ProgressDelivers, RestartCrashes DEF PromiseInv

LEMMA FateSorts == PromiseInv => \A p \in Pairs : Fate[p] \in Promise!Fates
BY FateIsRead DEF FateRead, Promise!Fates, PromiseInv

\* Whatever writes the table refuses outright, a planned post that is handed off
\* and whose own writes it took waits in a bucket, a page or on disk until the
\* device has it or a line tells of its drop, and comes back from neither,
\* whatever stops and restarts: a refused write costs no other post its promise
\* (DeferredQueue::load, queue_then_wake).
THEOREM SavedKeepPromise ==
  ASSUME "uncommitted" \notin WriteOutcomes
  PROVE  Spec => PromiseKeptIfSaved
<1>1. PromiseInv /\ [Next]_vars => PromiseInv' /\ Doubtful \subseteq Doubtful'
  BY PromiseInvKept
<1>2. ASSUME PromiseInv, PromiseInv', [Next]_vars, Doubtful \subseteq Doubtful',
             NEW p \in Pairs \ Doubtful'
      PROVE  <<Fate[p], Fate'[p]>> \in Promise!Becomes \cup {<<"owed", "lost">>}
  <2>1. CASE <<Fate[p], Fate'[p]>> \in Promise!Becomes
    BY <2>1
  <2>2. CASE Fate'[p] = IF Fate[p] = "owed" THEN "lost" ELSE Fate[p]
    <3>1. Fate[p] \in Promise!Fates
      BY <1>2, FateSorts
    <3> QED BY <2>2, <3>1 DEF Promise!Becomes
  <2> QED BY <1>2, <2>1, <2>2, PromiseSteps
<1>3. PromiseInv /\ PromiseInv' /\ [Next]_vars /\ Doubtful \subseteq Doubtful' =>
        [ \A p \in Pairs \ Doubtful' :
            <<Fate[p], Fate'[p]>> \in Promise!Becomes \cup {<<"owed", "lost">>} ]_vars
  BY <1>2
<1> QED BY <1>1, <1>3, InitPromise, PTL DEF Spec, PromiseKeptIfSaved

\* As long as the table takes every write, the fan-out and the queue together
\* keep the promise for every pair (fanout.rs, queue_then_wake,
\* DeferredQueue::load): only what no queue has yet is lost with the process.
THEOREM FanoutKeepsPromise ==
  ASSUME WriteOutcomes \subseteq {"saved"}
  PROVE  Spec => PromiseKept
<1>1. ASSUME PromiseInv, unsaved = {}, [Next]_vars
      PROVE  (PromiseInv /\ unsaved = {})' /\ [Promise!Deliver \/ Promise!Crash]_Fate
  <2>1. PromiseInv' /\ unsaved' = {} /\ Doubtful \subseteq Doubtful'
    BY <1>1, PromiseInvKept DEF Grown
  <2>2. Doubtful' = {}
    BY <2>1 DEF Doubtful
  <2>3. /\ Fate = [p \in Pairs |-> Fate[p]] /\ Fate' = [p \in Pairs |-> Fate'[p]]
        /\ Pairs = Promise!Pairs
    BY DEF Fate, Pairs, Promise!Pairs
  <2>4. CASE \A p \in Pairs : <<Fate[p], Fate'[p]>> \in Promise!Becomes /\ Fate'[p] \in Promise!Fates
    <3>1. Fate' \in [Promise!Pairs -> Promise!Fates]
      BY <2>3, <2>4
    <3>2. \A p \in Promise!Pairs : <<Fate[p], Fate'[p]>> \in Promise!Becomes
      BY <2>3, <2>4
    <3> QED BY <2>1, <3>1, <3>2 DEF Promise!Deliver
  <2>5. CASE \A p \in Pairs : Fate'[p] = IF Fate[p] = "owed" THEN "lost" ELSE Fate[p]
    <3>1. Fate' = [p \in Pairs |-> IF Fate[p] = "owed" THEN "lost" ELSE Fate[p]]
      <4> HIDE DEF Fate
      <4> QED BY <2>3, <2>5
    <3> QED BY <2>1, <2>3, <3>1 DEF Promise!Crash
  <2> QED BY <1>1, <2>1, <2>2, <2>4, <2>5, PromiseSteps
<1>2. Init => unsaved = {}
  BY DEF Init, Q!Init
<1> QED BY <1>1, <1>2, InitPromise, PTL DEF Spec, PromiseKept, Promise!Spec

-----------------------------------------------------------------------------
(***************************************************************************)
(* Types.                                                                  *)
(***************************************************************************)

TableTypes ==
  /\ subscribed \subseteq Subscribers \X Channels
  /\ stale \subseteq subscribed

FlushTypes == \A f \in flushing : f.batch \subseteq Nat /\ f.state \in FlushStates

PairSorts == wakes \subseteq Pairs /\ owed \subseteq Pairs /\ received \subseteq Pairs

LEMMA StepKeepsTable ==
  ASSUME TableTypes, [Next]_vars
  PROVE  TableTypes'
<1>1. CASE Subscription
  BY <1>1 DEF Subscription, subscribe, unsubscribe, ThirtyDaysPass, TableTypes
<1>2. CASE \E b \in Blobs, c \in Channels : plan_channel_fanout(b, c)
  BY <1>2 DEF plan_channel_fanout, TableTypes
<1>3. CASE \E s \in Subscribers, c \in Channels : channel_pull(s, c)
  BY <1>3 DEF channel_pull, TableTypes
<1>4. CASE UNCHANGED table
  BY <1>4 DEF table, TableTypes
<1>5. CASE \E t \in todo : Serve(t)
  BY <1>4, <1>5 DEF Serve, push_taken, PushOut, fall_through, no_route
<1>6. CASE \E t \in pushes : push_arrives(t) \/ Verdict(t)
  BY <1>4, <1>6 DEF push_arrives, Verdict, push_confirmed, push_unconfirmed
<1>7. CASE \E f \in flushing : FlushSend(f) \/ release_unsent(f) \/ flush_arrives(f) \/ FlushVerdict(f)
  BY <1>4, <1>7 DEF FlushSend, flush_send, release_unsent, flush_arrives, FlushVerdict, flush_confirmed,
     flush_unconfirmed
<1>8. CASE \/ \E x \in expired : drop_expired(x)
           \/ \E p \in wakes : wake_after_queueing(p)
           \/ \E s \in Subscribers : flush_queued(s)
           \/ \E h \in held : page_arrives(h.page) \/ pull_concluded(h.page)
           \/ \E threshold \in 2 .. posts + 1 : evict_expired(threshold)
           \/ Restart
           \/ UNCHANGED vars
  BY <1>4, <1>8 DEF drop_expired, wake_after_queueing, flush_queued, page_arrives, pull_concluded,
     evict_expired, Restart, vars
<1> QED BY <1>1, <1>2, <1>3, <1>5, <1>6, <1>7, <1>8 DEF Next

LEMMA StepKeepsFlushes ==
  ASSUME FanoutInv, FlushTypes, [Next]_vars
  PROVE  FlushTypes'
<1>1. CASE flushing' \subseteq flushing
  BY <1>1 DEF FlushTypes
<1>2. CASE \E s \in Subscribers : flush_queued(s)
  <2>1. PICK s \in Subscribers : flush_queued(s)
    BY <1>2
  <2> DEFINE copied == {e \in Q!Bucket(s) : e.ticket \notin in_flight}
             batch == {e.ticket : e \in copied}
  <2>2. batch \subseteq Nat
    <3>1. \A e \in queue : e.ticket \in Nat
      BY DEF FanoutInv, QP!TypeInv, QP!TypeOK, QP!Entry
    <3> QED BY <3>1 DEF Q!Bucket
  <2>3. \A f \in flushing' : f \in flushing \/ (f.batch = batch /\ f.state = "to send")
    <3>1. flushing' = flushing \cup {[copy |-> CopyOf(e), batch |-> batch, state |-> "to send"] : e \in copied}
      BY <2>1 DEF flush_queued
    <3> HIDE DEF copied, batch
    <3>2. ASSUME NEW f \in flushing', f \notin flushing PROVE f.batch = batch /\ f.state = "to send"
      <4>1. PICK e \in copied : f = [copy |-> CopyOf(e), batch |-> batch, state |-> "to send"]
        BY <3>1, <3>2
      <4> QED BY <4>1
    <3> QED BY <3>2
  <2> HIDE DEF batch
  <2> QED BY <2>2, <2>3 DEF FlushTypes, FlushStates
<1>3. ASSUME NEW f \in flushing, FlushSend(f) \/ release_unsent(f) \/ flush_arrives(f) \/ FlushVerdict(f)
      PROVE  FlushTypes'
  <2>1. flushing' \subseteq flushing
          \/ \E state \in FlushStates : flushing' = (flushing \ {f}) \cup {[f EXCEPT !.state = state]}
    BY <1>3 DEF FlushSend, flush_send, release_unsent, flush_arrives, FlushVerdict, flush_confirmed,
       flush_unconfirmed, Unconfirmed, FlushStates
  <2>2. ASSUME NEW state \in FlushStates
        PROVE  [f EXCEPT !.state = state].batch \subseteq Nat /\ [f EXCEPT !.state = state].state \in FlushStates
    <3>1. f = [copy |-> f.copy, batch |-> f.batch, state |-> f.state]
      BY DEF FanoutInv, ReadTypes
    <3>2. [f EXCEPT !.state = state] = [copy |-> f.copy, batch |-> f.batch, state |-> state]
      BY <3>1
    <3> QED BY <3>2 DEF FlushTypes
  <2> QED BY <1>1, <2>1, <2>2 DEF FlushTypes
<1>4. CASE \E t \in todo : Serve(t)
  BY <1>1, <1>4 DEF Serve, push_taken, PushOut, fall_through, no_route
<1>5. CASE \E t \in pushes : push_arrives(t) \/ Verdict(t)
  BY <1>1, <1>5 DEF push_arrives, Verdict, push_confirmed, push_unconfirmed
<1>6. CASE \/ Subscription
           \/ \E b \in Blobs, c \in Channels : plan_channel_fanout(b, c)
           \/ \E x \in expired : drop_expired(x)
           \/ \E p \in wakes : wake_after_queueing(p)
           \/ \E s \in Subscribers, c \in Channels : channel_pull(s, c)
           \/ \E h \in held : page_arrives(h.page) \/ pull_concluded(h.page)
           \/ \E threshold \in 2 .. posts + 1 : evict_expired(threshold)
           \/ Restart
           \/ UNCHANGED vars
  BY <1>1, <1>6 DEF Subscription, subscribe, unsubscribe, ThirtyDaysPass, plan_channel_fanout, drop_expired,
     wake_after_queueing, channel_pull, page_arrives, pull_concluded, evict_expired, Restart, vars
<1> QED BY <1>2, <1>3, <1>4, <1>5, <1>6 DEF Next

LEMMA StepKeepsPairs ==
  ASSUME FanoutInv, PairSorts, [Next]_vars
  PROVE  PairSorts'
<1>1. OwedNow \subseteq Pairs /\ Handed \subseteq Pairs
  BY PairTypes DEF FanoutInv, RouteInv, RouteTypes, OwedNow, Handed
<1>2. received' \subseteq Pairs
  <2>1. CASE Progress
    BY <1>1, <2>1 DEF Progress, Arrives, PairSorts
  <2>2. CASE Restart
    BY <2>2 DEF Restart, PairSorts
  <2> QED BY <2>1, <2>2, StepEffects
<1>3. CASE UNCHANGED owed /\ wakes' \subseteq wakes
  BY <1>2, <1>3 DEF PairSorts
<1>4. ASSUME NEW b \in Blobs, NEW c \in Channels, plan_channel_fanout(b, c) PROVE PairSorts'
  <2>1. owed' = owed \cup {<<s, b>> : s \in {r \in Subscribers : <<r, c>> \in subscribed \ stale}}
    BY <1>4 DEF plan_channel_fanout
  <2>2. owed' \subseteq owed \cup Pairs
    <3>1. ASSUME NEW p \in owed', p \notin owed PROVE p \in Subscribers \X Blobs
      <4>1. PICK s \in Subscribers : p = <<s, b>>
        BY <2>1, <3>1
      <4> QED BY <4>1
    <3> QED BY <3>1 DEF Pairs
  <2> QED BY <1>2, <1>4, <2>2 DEF plan_channel_fanout, NoQueueStep, PairSorts
<1>5. ASSUME NEW t \in todo \cup pushes, HandOff(t.subscriber, t.channel, t.blob), UNCHANGED owed
      PROVE  PairSorts'
  <2>1. <<t.subscriber, t.blob>> \in Pairs
    BY <1>1 DEF OwedNow, Pair
  <2> QED BY <1>2, <1>5, <2>1 DEF HandOff, PairSorts
<1>6. ASSUME NEW t \in todo, Serve(t) PROVE PairSorts'
  BY <1>3, <1>5, <1>6 DEF Serve, push_taken, PushOut, fall_through, no_route, NoQueueStep
<1>7. ASSUME NEW t \in pushes, push_arrives(t) \/ Verdict(t) PROVE PairSorts'
  BY <1>3, <1>5, <1>7 DEF push_arrives, Verdict, push_confirmed, push_unconfirmed, NoQueueStep, fanouts
<1>8. ASSUME NEW f \in flushing, FlushSend(f) \/ release_unsent(f) \/ flush_arrives(f) \/ FlushVerdict(f)
      PROVE  PairSorts'
  <2>1. FlushPair(f) \in Pairs
    <3>1. f.copy.at \in 1 .. posts
      BY StoredIsPast DEF FanoutInv, ReadTypes
    <3> QED BY <1>1, <3>1 DEF FlushPair, Handed
  <2>2. UNCHANGED owed /\ wakes' \subseteq wakes \cup {FlushPair(f)}
    BY <1>8 DEF FlushSend, flush_send, release_unsent, flush_arrives, FlushVerdict, flush_confirmed,
       flush_unconfirmed, NoQueueStep, fanouts
  <2> QED BY <1>2, <2>1, <2>2 DEF PairSorts
<1>9. CASE \/ Subscription
           \/ \E x \in expired : drop_expired(x)
           \/ \E p \in wakes : wake_after_queueing(p)
           \/ \E s \in Subscribers : flush_queued(s)
           \/ \E s \in Subscribers, c \in Channels : channel_pull(s, c)
           \/ \E h \in held : page_arrives(h.page) \/ pull_concluded(h.page)
           \/ \E threshold \in 2 .. posts + 1 : evict_expired(threshold)
           \/ Restart
           \/ UNCHANGED vars
  BY <1>3, <1>9 DEF Subscription, subscribe, unsubscribe, ThirtyDaysPass, drop_expired, flush_queued,
     wake_after_queueing, channel_pull, page_arrives, pull_concluded, evict_expired, Restart, vars,
     NoQueueStep, fanouts
<1> QED BY <1>4, <1>6, <1>7, <1>8, <1>9 DEF Next

\* Types for any subscribers, channels, blobs and limits, and whatever the writes
\* come to: no post is fanned out, handed off or flushed but for a subscriber
\* and a blob there are, and only a subscription can be stale (fanout.rs).
THEOREM TypeCorrect == Spec => []TypeOK
<1>1. Init => TableTypes /\ FlushTypes /\ PairSorts
  BY DEF Init, TableTypes, FlushTypes, PairSorts
<1>2. FanoutInv /\ TableTypes /\ FlushTypes /\ PairSorts => TypeOK
  <2> SUFFICES ASSUME FanoutInv, TableTypes, FlushTypes, PairSorts PROVE TypeOK
    OBVIOUS
  <2>1. \A f \in flushing : f.copy \in Q!Copy
    BY DEF FanoutInv, ReadTypes, QP!TypeInv, QP!TypeOK, QP!Copy, Q!Copy
  <2> QED BY <2>1 DEF FanoutInv, RouteInv, RouteTypes, ReadTypes, TableTypes, FlushTypes, PairSorts, TypeOK
<1>3. /\ FanoutInv /\ TableTypes /\ FlushTypes /\ PairSorts /\ [Next]_vars
         => (FanoutInv /\ TableTypes /\ FlushTypes /\ PairSorts)'
  BY StepEffects, StepKeepsTable, StepKeepsFlushes, StepKeepsPairs
<1> QED BY <1>1, <1>2, <1>3, InitFanoutInv, PTL DEF Spec

-----------------------------------------------------------------------------
(***************************************************************************)
(* One way for each pair, the queue's own count of its entries included.   *)
(***************************************************************************)

LEMMA RouteMeansOnce ==
  ASSUME FanoutInv, QP!NamesInv
  PROVE  OneRouteAtATime
<1>1. Queued \subseteq Handed
  BY StoredIsPast DEF FanoutInv, Queued, ContentOf, Handed
<1>2. ASSUME NEW t \in todo \cup pushes PROVE Pair(t) \notin Queued
  BY <1>1 DEF FanoutInv, RouteInv, Apart, OwedNow
<1>3. ASSUME NEW e \in Q!Stored, NEW f \in Q!Stored, content[e.at] = content[f.at] PROVE e = f
  <2>1. e.at \in 1 .. posts /\ f.at \in 1 .. posts
    BY StoredIsPast DEF FanoutInv
  <2>2. e.at = f.at
    BY <1>3, <2>1 DEF FanoutInv, RouteInv, HandedOnce
  <2> QED BY <2>2, SameSets DEF QP!NamesInv, QP!OneEntryPerPost
<1> QED BY <1>2, <1>3 DEF OneRouteAtATime, FanoutInv, RouteInv, OneTier

\* "Stop at the first one that takes the push" (fanout.rs), and one hand-off of
\* what nobody took or confirmed (queue_then_wake): whatever verdicts, flushes,
\* pulls and restarts come between, and whatever the writes come to, a post that
\* a tier has for a subscriber is on no other tier and not in the queue, and the
\* queue and its pages have it once.
THEOREM OneRouteOnly == Spec => []OneRouteAtATime
<1>1. Init => FanoutInv /\ QP!NamesInv
  BY InitFanoutInv, QueueConstants, SameEnds, QP!InitStoreInv DEF Init, QP!StoreInv
<1>2. FanoutInv /\ QP!NamesInv /\ [Next]_vars => (FanoutInv /\ QP!NamesInv)'
  BY StepEffects, NamesKept
<1>3. FanoutInv /\ QP!NamesInv => OneRouteAtATime
  BY RouteMeansOnce
<1> QED BY <1>1, <1>2, <1>3, PTL DEF Spec

-----------------------------------------------------------------------------
(***************************************************************************)
(* Every flight has a flush that will end it.                              *)
(***************************************************************************)

Flies(t, F) == \E f \in F : f.copy.ticket = t /\ f.state # "late"

\* Operations of the queue that no flush makes leave the flights alone.
LEMMA QueueKeepsFlights ==
  /\ \A s, c, b : HandOff(s, c, b) => in_flight' = in_flight
  /\ \A x : drop_expired(x) => in_flight' = in_flight
  /\ \A s, c : channel_pull(s, c) => in_flight' = in_flight
  /\ \A p : pull_concluded(p) => in_flight' = in_flight
  /\ \A threshold : evict_expired(threshold) => in_flight' = in_flight
<1>1. ASSUME NEW s, NEW c, NEW b, HandOff(s, c, b) PROVE in_flight' = in_flight
  BY <1>1 DEF HandOff, Q!Enqueue, Q!EnqueueQueued, Q!EnqueueEvictingOldest, Q!EnqueueEvictingFullest,
     Q!Admit, Q!EnqueueRefused
<1>2. \A x : drop_expired(x) => in_flight' = in_flight
  BY DEF drop_expired, Q!drain_channel, Q!Discard, queueVars
<1>3. \A s, c : channel_pull(s, c) => in_flight' = in_flight
  BY DEF channel_pull, Q!take_page
<1>4. \A p : pull_concluded(p) => in_flight' = in_flight
  BY DEF pull_concluded, Q!SettleProved, Q!SettleUnproved
<1>5. \A threshold : evict_expired(threshold) => in_flight' = in_flight
  BY DEF evict_expired, Q!evict_expired, Q!Discard
<1> QED BY <1>1, <1>2, <1>3, <1>4, <1>5

LEMMA FlushStepKeepsFlights ==
  ASSUME ReadTypes, FlightsEnd, NEW f \in flushing,
         FlushSend(f) \/ release_unsent(f) \/ flush_arrives(f) \/ FlushVerdict(f)
  PROVE  FlightsEnd'
<1>1. CASE flush_arrives(f)
  BY <1>1 DEF flush_arrives, NoQueueStep, queueVars, FlightsEnd
<1>2. CASE FlushSend(f)
  <2>1. PICK state \in {"link", "packet", "unsent"} : flush_send(f, state)
    BY <1>2 DEF FlushSend
  <2> DEFINE g == [f EXCEPT !.state = state]
  <2>2. flushing' = (flushing \ {f}) \cup {g} /\ in_flight' = in_flight
    BY <2>1 DEF flush_send, NoQueueStep, queueVars
  <2>3. f = [copy |-> f.copy, batch |-> f.batch, state |-> f.state]
    BY DEF ReadTypes
  <2>4. g.copy = f.copy /\ g.state = state
    BY <2>3
  <2> HIDE DEF g
  <2>5. ASSUME NEW t \in in_flight' PROVE Flies(t, flushing')
    <3>1. PICK h \in flushing : h.copy.ticket = t /\ h.state # "late"
      BY <2>2, <2>5 DEF FlightsEnd
    <3>2. CASE h = f
      BY <2>2, <2>4, <3>1, <3>2 DEF Flies
    <3>3. CASE h # f
      BY <2>2, <3>1, <3>3 DEF Flies
    <3> QED BY <3>2, <3>3
  <2> QED BY <2>5 DEF FlightsEnd, Flies
<1>3. ASSUME in_flight' = in_flight \ {f.copy.ticket}, flushing \ {f} \subseteq flushing'
      PROVE  FlightsEnd'
  BY <1>3 DEF FlightsEnd
<1>4. Release(f.copy) => in_flight' = in_flight \ {f.copy.ticket}
  BY DEF Release, Q!release, queueVars
<1>5. CASE release_unsent(f) \/ flush_unconfirmed(f)
  BY <1>3, <1>4, <1>5 DEF release_unsent, flush_unconfirmed
<1>6. CASE flush_confirmed(f)
  <2>1. in_flight' = in_flight \ {f.copy.ticket}
    BY <1>6 DEF flush_confirmed, Q!confirm
  <2> QED BY <1>3, <1>6, <2>1 DEF flush_confirmed
<1> QED BY <1>1, <1>2, <1>5, <1>6 DEF FlushVerdict

LEMMA FlushKeepsFlights ==
  ASSUME FlightsEnd, NEW s \in Subscribers, flush_queued(s)
  PROVE  FlightsEnd'
<1> DEFINE copied == {e \in Q!Bucket(s) : e.ticket \notin in_flight}
           batch == {e.ticket : e \in copied}
           started == {[copy |-> CopyOf(e), batch |-> batch, state |-> "to send"] : e \in copied}
<1>1. flushing' = flushing \cup started
  BY DEF flush_queued
<1>2. in_flight' \subseteq in_flight \cup batch
  BY DEF flush_queued, Q!flush_copies, Q!Matching
<1>3. ASSUME NEW e \in copied PROVE Flies(e.ticket, started)
  <2> HIDE DEF copied, batch
  <2>1. [copy |-> CopyOf(e), batch |-> batch, state |-> "to send"] \in started
    OBVIOUS
  <2>2. CopyOf(e).ticket = e.ticket
    BY DEF CopyOf
  <2> QED BY <2>1, <2>2 DEF Flies
<1> HIDE DEF started
<1>4. \A t \in batch : Flies(t, started)
  BY <1>3
<1> HIDE DEF copied, batch
<1>5. \A t \in in_flight : Flies(t, flushing)
  BY DEF FlightsEnd, Flies
<1>6. \A t \in in_flight' : Flies(t, flushing')
  BY <1>1, <1>2, <1>4, <1>5 DEF Flies
<1> QED BY <1>6 DEF FlightsEnd, Flies

LEMMA StepKeepsFlights ==
  ASSUME ReadTypes, FlightsEnd, [Next]_vars
  PROVE  FlightsEnd'
<1>1. CASE UNCHANGED <<in_flight, flushing>>
  BY <1>1 DEF FlightsEnd
<1>2. CASE \/ Subscription
           \/ \E b \in Blobs, c \in Channels : plan_channel_fanout(b, c)
           \/ \E p \in wakes : wake_after_queueing(p)
           \/ UNCHANGED vars
  BY <1>1, <1>2 DEF Subscription, subscribe, unsubscribe, ThirtyDaysPass, plan_channel_fanout, NoQueueStep,
     wake_after_queueing, queueVars, vars
<1>3. CASE \/ \E x \in expired : drop_expired(x)
           \/ \E s \in Subscribers, c \in Channels : channel_pull(s, c)
           \/ \E threshold \in 2 .. posts + 1 : evict_expired(threshold)
  BY <1>1, <1>3, QueueKeepsFlights DEF drop_expired, channel_pull, evict_expired
<1>4. ASSUME NEW t \in todo, Serve(t) PROVE FlightsEnd'
  BY <1>1, <1>4, QueueKeepsFlights DEF Serve, push_taken, PushOut, fall_through, no_route, NoQueueStep,
     queueVars
<1>5. ASSUME NEW t \in pushes, push_arrives(t) \/ Verdict(t) PROVE FlightsEnd'
  BY <1>1, <1>5, QueueKeepsFlights DEF push_arrives, Verdict, push_confirmed, push_unconfirmed, NoQueueStep,
     queueVars
<1>6. ASSUME NEW h \in held, page_arrives(h.page) \/ pull_concluded(h.page) PROVE FlightsEnd'
  <2>1. CASE page_arrives(h.page)
    BY <1>1, <2>1 DEF page_arrives, NoQueueStep, queueVars
  <2>2. CASE pull_concluded(h.page)
    <3>1. flushing' = flushing
      BY <2>2 DEF pull_concluded
    <3>2. in_flight' = in_flight
      BY <2>2, QueueKeepsFlights
    <3> QED BY <1>1, <3>1, <3>2
  <2> QED BY <1>6, <2>1, <2>2
<1>7. CASE Restart
  BY <1>7 DEF Restart, Q!Restart, FlightsEnd
<1>8. ASSUME NEW s \in Subscribers, flush_queued(s) PROVE FlightsEnd'
  BY <1>8, FlushKeepsFlights
<1>9. ASSUME NEW f \in flushing, FlushSend(f) \/ release_unsent(f) \/ flush_arrives(f) \/ FlushVerdict(f)
      PROVE  FlightsEnd'
  BY <1>9, FlushStepKeepsFlights
<1> QED BY <1>2, <1>3, <1>4, <1>5, <1>6, <1>7, <1>8, <1>9 DEF Next

\* A copy an announce flush marked in flight belongs to a flush that still has it
\* to send, to release or to hear of: no entry keeps its mark for good, which
\* would hide it from every later announce (flush_queued, release, confirm).
THEOREM NoFlightForgotten == Spec => []FlightsEnd
<1>1. Init => FlightsEnd
  BY DEF Init, Q!Init, FlightsEnd
<1>2. FanoutInv /\ FlightsEnd /\ [Next]_vars => (FanoutInv /\ FlightsEnd)'
  BY StepEffects, StepKeepsFlights DEF FanoutInv
<1> QED BY <1>1, <1>2, InitFanoutInv, PTL DEF Spec

-----------------------------------------------------------------------------
(***************************************************************************)
(* The running node, whatever the writes come to.                          *)
(***************************************************************************)

\* The posts that are in a bucket or a page, and those a step makes.
StoredPosts == {e.at : e \in Q!Stored}
NewPosts == (1 .. posts') \ (1 .. posts)

\* A stored post stays, is delivered or is dropped; only a new one comes in; and
\* only a stored or a new one is dropped.
Accounts ==
  /\ StoredPosts \subseteq StoredPosts' \cup delivered' \cup dropped'
  /\ StoredPosts' \subseteq StoredPosts \cup NewPosts
  /\ NewPosts \subseteq StoredPosts' \cup dropped'
  /\ dropped' \subseteq dropped \cup StoredPosts \cup NewPosts

LEMMA StillAccounts ==
  ASSUME UNCHANGED <<queue, held, posts, dropped>>
  PROVE  Accounts
<1>1. StoredPosts' = StoredPosts
  BY DEF StoredPosts, Q!Stored, Q!Held
<1> QED BY <1>1 DEF Accounts, NewPosts

LEMMA LeavesAccounts ==
  ASSUME NEW gone, NEW w, QP!Leaves(gone, w), dropped' \subseteq dropped \cup StoredPosts
  PROVE  Accounts
<1>1. /\ gone \subseteq Q!Stored /\ Q!Stored' = Q!Stored \ gone /\ posts' = posts
      /\ {e.at : e \in gone} \subseteq delivered' \cup dropped'
  <2>1. Q!Stored' = QP!Stored'
    BY DEF Q!Stored, QP!Stored, Q!Held, QP!Held
  <2> QED BY <2>1, SameSets DEF QP!Leaves, QP!Ats
<1>2. StoredPosts \subseteq StoredPosts' \cup delivered' \cup dropped' /\ StoredPosts' \subseteq StoredPosts
  BY <1>1 DEF StoredPosts
<1> QED BY <1>1, <1>2 DEF Accounts, NewPosts

LEMMA MovesAccounts ==
  ASSUME QP!Moves
  PROVE  Accounts
<1>1. Q!Stored' = QP!Stored' /\ Q!Stored = QP!Stored
  BY DEF Q!Stored, QP!Stored, Q!Held, QP!Held
<1>2. \A x \in Q!Stored' : \E e \in Q!Stored : x.at = e.at
  BY <1>1 DEF QP!Moves, QP!SameEntry
<1>3. \A e \in Q!Stored : \E x \in Q!Stored' : x.at = e.at
  BY <1>1 DEF QP!Moves, QP!SameEntry
<1>4. StoredPosts' = StoredPosts
  BY <1>2, <1>3 DEF StoredPosts
<1>5. posts' = posts /\ dropped' = dropped
  BY DEF QP!Moves
<1> QED BY <1>4, <1>5 DEF Accounts, NewPosts

LEMMA HandOffAccounts ==
  ASSUME posts \in Nat, NEW s \in Subscribers, NEW c \in Channels, NEW b, HandOff(s, c, b)
  PROVE  Accounts
<1>0. NewPosts = {posts + 1}
  <2>1. posts' = posts + 1
    BY HandOffEffect
  <2> QED BY <2>1 DEF NewPosts
<1>1. ASSUME NEW w \in WriteOutcomes, Q!Enqueue(s, c, w) PROVE Accounts
  <2>1. PICK evicted \in SUBSET queue : QP!Admit(s, c, evicted, w)
    BY <1>1, SameEnqueue, QueueConstants, QP!EnqueueAdmits
  <2>2. PICK entry : QP!Admits(entry, evicted, w)
    BY <2>1, QueueConstants, QP!AdmitAdmits
  <2>3. /\ queue' = (queue \ evicted) \cup {entry} /\ held' = held /\ entry.at = posts + 1
        /\ dropped' = dropped \cup {e.at : e \in evicted}
    BY <2>2 DEF QP!Admits, QP!Ats
  <2>4. /\ Q!Stored \subseteq Q!Stored' \cup evicted /\ entry \in Q!Stored' /\ evicted \subseteq Q!Stored
        /\ Q!Stored' \subseteq Q!Stored \cup {entry}
    BY <2>3 DEF Q!Stored, Q!Held
  <2>5. /\ StoredPosts \subseteq StoredPosts' \cup dropped' /\ StoredPosts' \subseteq StoredPosts \cup {posts + 1}
        /\ posts + 1 \in StoredPosts' /\ dropped' \subseteq dropped \cup StoredPosts
    BY <2>3, <2>4 DEF StoredPosts
  <2> QED BY <1>0, <2>5 DEF Accounts
<1>2. CASE Q!EnqueueRefused(s)
  <2>1. queue' = queue /\ held' = held /\ dropped' = dropped \cup {posts + 1}
    BY <1>2 DEF Q!EnqueueRefused, Q!store
  <2>2. StoredPosts' = StoredPosts
    BY <2>1 DEF StoredPosts, Q!Stored, Q!Held
  <2> QED BY <1>0, <2>1, <2>2 DEF Accounts
<1> QED BY <1>1, <1>2 DEF HandOff

LEMMA DiscardAccounts ==
  ASSUME QP!NamesInv, NEW gone \in SUBSET queue, NEW w, QP!Discard(gone, w)
  PROVE  Accounts
<1>1. QP!Leaves(gone, w)
  BY QueueConstants, QP!DiscardLeaves
<1>2. dropped' \subseteq dropped \cup StoredPosts
  BY DEF QP!Discard, QP!Ats, StoredPosts, Q!Stored
<1> QED BY <1>1, <1>2, LeavesAccounts

LEMMA StepAccounts ==
  ASSUME FanoutInv, QP!NamesInv, [Next]_vars
  PROVE  Accounts \/ Restart
<1>0. posts \in Nat
  BY DEF FanoutInv, RouteInv, RouteTypes
<1>1. ASSUME UNCHANGED queueVars PROVE Accounts
  BY <1>1, StillAccounts DEF queueVars
<1>2. ASSUME NEW t \in todo \cup pushes, HandOff(t.subscriber, t.channel, t.blob) PROVE Accounts
  <2>1. t.subscriber \in Subscribers /\ t.channel \in Channels
    BY DEF FanoutInv, RouteInv, RouteTypes, Pushes
  <2> QED BY <1>0, <1>2, <2>1, HandOffAccounts
<1>3. ASSUME NEW t \in todo, Serve(t) PROVE Accounts
  BY <1>1, <1>2, <1>3 DEF Serve, push_taken, PushOut, fall_through, no_route, NoQueueStep
<1>4. ASSUME NEW t \in pushes, push_arrives(t) \/ Verdict(t) PROVE Accounts
  BY <1>1, <1>2, <1>4 DEF push_arrives, Verdict, push_confirmed, push_unconfirmed, NoQueueStep
<1>5. ASSUME NEW x \in expired, drop_expired(x) PROVE Accounts
  <2>1. ASSUME NEW w \in WriteOutcomes, Q!drain_channel(x.subscriber, x.channel, w) PROVE Accounts
    <3>1. QP!drain_channel(x.subscriber, x.channel, w)
      BY <2>1, SameDiscard
    <3>2. QP!Matching(x.subscriber, {x.channel}) \in SUBSET queue
      BY DEF QP!Matching, QP!Bucket
    <3> QED BY <3>1, <3>2, DiscardAccounts DEF QP!drain_channel
  <2> QED BY <1>1, <1>5, <2>1 DEF drop_expired
<1>6. ASSUME NEW threshold \in 2 .. posts + 1, evict_expired(threshold) PROVE Accounts
  <2>1. PICK w \in WriteOutcomes : QP!evict_expired(threshold, w)
    BY <1>6, SameDiscard DEF evict_expired
  <2>2. {e \in queue : e.at < threshold} \in SUBSET queue
    OBVIOUS
  <2> QED BY <2>1, <2>2, DiscardAccounts DEF QP!evict_expired
<1>7. ASSUME NEW s \in Subscribers, flush_queued(s) PROVE Accounts
  BY <1>7, StillAccounts, FlushEffect DEF flush_queued
<1>8. ASSUME NEW f \in flushing, FlushSend(f) \/ release_unsent(f) \/ flush_arrives(f) \/ FlushVerdict(f)
      PROVE  Accounts
  <2>1. CASE FlushSend(f) \/ flush_arrives(f)
    BY <1>1, <2>1 DEF FlushSend, flush_send, flush_arrives, NoQueueStep
  <2>2. CASE release_unsent(f) \/ flush_unconfirmed(f)
    BY <2>2, StillAccounts, ReleaseEffect DEF release_unsent, flush_unconfirmed
  <2>3. CASE flush_confirmed(f)
    <3>1. PICK w \in WriteOutcomes : Q!confirm(f.copy, w)
      BY <2>3 DEF flush_confirmed
    <3>2. f.copy \in flown
      BY DEF FanoutInv, ReadTypes
    <3>3. QP!Leaves(QP!Confirmed(f.copy), w)
      BY <3>1, <3>2, SameVerdict, QueueConstants, QP!ConfirmLeaves
    <3>4. dropped' = dropped
      BY <3>1, ConfirmEffect
    <3> QED BY <3>3, <3>4, LeavesAccounts
  <2> QED BY <1>8, <2>1, <2>2, <2>3 DEF FlushVerdict
<1>9. ASSUME NEW s \in Subscribers, NEW c \in Channels, channel_pull(s, c) PROVE Accounts
  <2>1. QP!take_page(s, {c})
    BY <1>9, SameTake DEF channel_pull
  <2>2. {c} \in (SUBSET Channels) \ {{}}
    OBVIOUS
  <2>3. {c} \in QP!Kinds
    BY <2>2 DEF QP!Kinds
  <2>4. QP!Moves
    BY <2>1, <2>3, QueueConstants, QP!TakeMoves
  <2> QED BY <2>4, MovesAccounts
<1>10. ASSUME NEW h \in held, page_arrives(h.page) \/ pull_concluded(h.page) PROVE Accounts
  <2>1. CASE page_arrives(h.page)
    BY <1>1, <2>1 DEF page_arrives, NoQueueStep
  <2>2. ASSUME NEW w \in WriteOutcomes, Q!SettleProved(h.page, w) PROVE Accounts
    <3>1. QP!Leaves(QP!Page(h.page), w)
      BY <2>2, SameSettleProved, QueueConstants, QP!SettleProvedLeaves
    <3>2. dropped' = dropped
      BY <2>2, ProvedEffect
    <3> QED BY <3>1, <3>2, LeavesAccounts
  <2>3. CASE Q!SettleUnproved(h.page)
    <3>1. QP!Moves
      BY <2>3, SameSettleUnproved, QueueConstants, QP!SettleUnprovedMoves
    <3> QED BY <3>1, MovesAccounts
  <2> QED BY <1>10, <2>1, <2>2, <2>3 DEF pull_concluded
<1>11. ASSUME \/ Subscription
              \/ \E b \in Blobs, c \in Channels : plan_channel_fanout(b, c)
              \/ \E p \in wakes : wake_after_queueing(p)
              \/ UNCHANGED vars
       PROVE  UNCHANGED queueVars
  BY <1>11 DEF Subscription, subscribe, unsubscribe, ThirtyDaysPass, plan_channel_fanout, NoQueueStep,
     wake_after_queueing, vars
<1> QED BY <1>1, <1>3, <1>4, <1>5, <1>6, <1>7, <1>8, <1>9, <1>10, <1>11 DEF Next

\* What a step brings to a device is owed, queued or dropped, not forgotten: a
\* copy of a flush is of a post that is stored or was, since the process began.
CopiesKnown == \A f \in flushing : f.copy.at \in StoredPosts \cup delivered \cup dropped

RunInv == FanoutInv /\ QP!NamesInv /\ ConfirmedIsReceived /\ CopiesKnown

\* No step but a flush has copies its flushes did not have.
LEMMA CopiesStay ==
  ASSUME ReadTypes, [Next]_vars, NEW g \in flushing'
  PROVE  \/ \E f \in flushing : g.copy = f.copy
         \/ g.copy.at \in StoredPosts'
<1>1. CASE g \in flushing
  BY <1>1
<1>2. ASSUME NEW s \in Subscribers, flush_queued(s), g \notin flushing PROVE g.copy.at \in StoredPosts'
  <2> DEFINE copied == {e \in Q!Bucket(s) : e.ticket \notin in_flight}
             batch == {e.ticket : e \in copied}
  <2>0. g \in {[copy |-> CopyOf(e), batch |-> batch, state |-> "to send"] : e \in copied}
    BY <1>2 DEF flush_queued
  <2> HIDE DEF copied, batch
  <2>1. PICK e \in copied : g = [copy |-> CopyOf(e), batch |-> batch, state |-> "to send"]
    BY <2>0
  <2>2. g.copy.at = e.at /\ e \in queue
    <3>1. g.copy = CopyOf(e)
      BY <2>1
    <3> QED BY <3>1 DEF CopyOf, copied, Q!Bucket
  <2>3. e \in queue'
    BY <1>2, <2>2, FlushEffect DEF flush_queued
  <2> QED BY <2>2, <2>3 DEF StoredPosts, Q!Stored
<1>3. ASSUME NEW f \in flushing, FlushSend(f) \/ release_unsent(f) \/ flush_arrives(f) \/ FlushVerdict(f)
      PROVE  \E h \in flushing : g.copy = h.copy
  <2>1. g \in flushing \/ \E state : g = [f EXCEPT !.state = state]
    BY <1>3 DEF FlushSend, flush_send, release_unsent, flush_arrives, FlushVerdict, flush_confirmed,
       flush_unconfirmed, Unconfirmed
  <2>2. ASSUME NEW state, g = [f EXCEPT !.state = state] PROVE g.copy = f.copy
    <3>1. f = [copy |-> f.copy, batch |-> f.batch, state |-> f.state]
      BY DEF ReadTypes
    <3>2. g = [copy |-> f.copy, batch |-> f.batch, state |-> state]
      BY <2>2, <3>1
    <3> QED BY <3>2
  <2> QED BY <2>1, <2>2
<1>4. ASSUME NEW t \in todo, Serve(t) PROVE flushing' = flushing
  BY <1>4 DEF Serve, push_taken, PushOut, fall_through, no_route
<1>5. ASSUME NEW t \in pushes, push_arrives(t) \/ Verdict(t) PROVE flushing' = flushing
  BY <1>5 DEF push_arrives, Verdict, push_confirmed, push_unconfirmed
<1>6. CASE \/ Subscription
           \/ \E b \in Blobs, c \in Channels : plan_channel_fanout(b, c)
           \/ \E x \in expired : drop_expired(x)
           \/ \E p \in wakes : wake_after_queueing(p)
           \/ \E s \in Subscribers, c \in Channels : channel_pull(s, c)
           \/ \E h \in held : page_arrives(h.page) \/ pull_concluded(h.page)
           \/ \E threshold \in 2 .. posts + 1 : evict_expired(threshold)
           \/ Restart
           \/ UNCHANGED vars
  <2>1. flushing' \subseteq flushing
    BY <1>6 DEF Subscription, subscribe, unsubscribe, ThirtyDaysPass, plan_channel_fanout, drop_expired,
       wake_after_queueing, channel_pull, page_arrives, pull_concluded, evict_expired, Restart, vars
  <2> QED BY <1>1, <2>1
<1> QED BY <1>1, <1>2, <1>3, <1>4, <1>5, <1>6 DEF Next

LEMMA DeliveredGrows ==
  ASSUME [QP!Next]_(QP!vars)
  PROVE  delivered \subseteq delivered'
<1>1. ASSUME NEW s \in Subscribers, NEW r \in Channels, NEW w \in WriteOutcomes, QP!Enqueue(s, r, w)
      PROVE  delivered \subseteq delivered'
  BY <1>1 DEF QP!Enqueue, QP!EnqueueQueued, QP!EnqueueEvictingOldest, QP!EnqueueEvictingFullest, QP!Admit
<1>2. ASSUME NEW p, QP!settle_page(p) PROVE delivered \subseteq delivered'
  BY <1>2 DEF QP!settle_page, QP!SettleProved, QP!SettleUnproved, QP!history
<1>3. ASSUME NEW copy, NEW w, QP!confirm(copy, w) PROVE delivered \subseteq delivered'
  BY <1>3 DEF QP!confirm
<1>4. ASSUME NEW threshold, NEW s, NEW r, NEW w, QP!evict_expired(threshold, w) \/ QP!drain_channel(s, r, w)
      PROVE  delivered \subseteq delivered'
  BY <1>4 DEF QP!evict_expired, QP!drain_channel, QP!Discard
<1>5. /\ \A s \in Subscribers : QP!EnqueueRefused(s) => delivered' = delivered
      /\ \A s \in Subscribers, wanted \in QP!Kinds :
           QP!take_page(s, wanted) \/ QP!flush_copies(s, wanted) => delivered' = delivered
      /\ \A copy \in flown : QP!release(copy) => delivered' = delivered
      /\ QP!Restart => delivered' = delivered
      /\ UNCHANGED QP!vars => delivered' = delivered
  BY DEF QP!EnqueueRefused, QP!take_page, QP!flush_copies, QP!release, QP!Restart, QP!vars, QP!history
<1> QED BY <1>1, <1>2, <1>3, <1>4, <1>5 DEF QP!Next

LEMMA RunInvKept ==
  ASSUME RunInv, [Next]_vars
  PROVE  RunInv'
<1>1. FanoutInv' /\ QP!NamesInv' /\ ConfirmedIsReceived'
  BY StepEffects, NamesKept, ConfirmedKept DEF RunInv
<1>2. CASE Restart
  BY <1>1, <1>2 DEF Restart, RunInv, CopiesKnown
<1>3. CASE Accounts /\ Progress
  <2>1. delivered \subseteq delivered'
    <3>1. [QP!Next]_(QP!vars)
      BY StepIsQueueStep DEF RunInv, FanoutInv, RouteInv
    <3> QED BY <3>1, DeliveredGrows
  <2>2. \A f \in flushing : f.copy.at \in StoredPosts' \cup delivered' \cup dropped'
    BY <1>3, <2>1 DEF RunInv, CopiesKnown, Accounts, Progress
  <2>3. ASSUME NEW g \in flushing' PROVE g.copy.at \in StoredPosts' \cup delivered' \cup dropped'
    BY <2>2, CopiesStay DEF RunInv, FanoutInv
  <2> QED BY <1>1, <2>3 DEF RunInv, CopiesKnown
<1> QED BY <1>2, <1>3, StepAccounts, StepEffects DEF RunInv

\* A page is of stored posts, a flush copy of known ones, a push of an owed one.
LEMMA StepArrives ==
  ASSUME RunInv, [Next]_vars
  PROVE  received' \subseteq received \cup OwedNow \cup Queued \cup Dropped
<1>1. ASSUME NEW t \in pushes, push_arrives(t) \/ Verdict(t) PROVE received' \subseteq received \cup OwedNow
  BY <1>1 DEF push_arrives, Verdict, push_confirmed, push_unconfirmed, OwedNow
<1>2. ASSUME NEW f \in flushing, FlushSend(f) \/ release_unsent(f) \/ flush_arrives(f) \/ FlushVerdict(f)
      PROVE  received' \subseteq received \cup Queued \cup Dropped
  <2>1. received' \subseteq received \cup {FlushPair(f)}
    BY <1>2 DEF FlushSend, flush_send, release_unsent, flush_arrives, FlushVerdict, flush_confirmed,
       flush_unconfirmed
  <2>2. f.copy.at \in StoredPosts \cup delivered \cup dropped
    BY DEF RunInv, CopiesKnown
  <2>3. FlushPair(f) \in received \cup Queued \cup Dropped
    BY <2>2 DEF RunInv, ConfirmedIsReceived, FlushPair, StoredPosts, Queued, ContentOf, Dropped
  <2> QED BY <2>1, <2>3
<1>3. ASSUME NEW h \in held, page_arrives(h.page) \/ pull_concluded(h.page)
      PROVE  received' \subseteq received \cup Queued
  <2>1. ContentOf(Q!Page(h.page)) \subseteq Queued
    BY StoredIsPast DEF RunInv, FanoutInv, ContentOf, Queued
  <2> QED BY <1>3, <2>1 DEF page_arrives, pull_concluded
<1>4. ASSUME \/ Subscription
             \/ \E b \in Blobs, c \in Channels : plan_channel_fanout(b, c)
             \/ \E x \in expired : drop_expired(x)
             \/ \E t \in todo : Serve(t)
             \/ \E p \in wakes : wake_after_queueing(p)
             \/ \E s \in Subscribers : flush_queued(s)
             \/ \E s \in Subscribers, c \in Channels : channel_pull(s, c)
             \/ \E threshold \in 2 .. posts + 1 : evict_expired(threshold)
             \/ Restart
             \/ UNCHANGED vars
      PROVE  received' = received
  BY <1>4 DEF Subscription, subscribe, unsubscribe, ThirtyDaysPass, plan_channel_fanout, drop_expired, Serve,
     push_taken, PushOut, fall_through, no_route, wake_after_queueing, flush_queued, channel_pull,
     evict_expired, Restart, vars
<1> QED BY <1>1, <1>2, <1>3, <1>4 DEF Next

\* What a step of the running node does to the sets the fates are read off.
PairsRun ==
  /\ Queued \subseteq Queued' \cup Dropped' \cup received'
  /\ Queued' \subseteq Queued \cup OwedNow
  /\ Dropped \subseteq Dropped' /\ Dropped' \subseteq Dropped \cup Queued \cup OwedNow
  /\ OwedNow \subseteq OwedNow' \cup Queued' \cup Dropped' \cup received'

LEMMA StepRuns ==
  ASSUME RunInv, RunInv', Accounts, Progress
  PROVE  PairsRun
<1>1. /\ StoredPosts \subseteq 1 .. posts /\ dropped \subseteq 1 .. posts /\ delivered \subseteq 1 .. posts
      /\ posts \in Nat /\ posts' \in Nat
  BY StoredIsPast DEF RunInv, FanoutInv, RouteInv, RouteTypes, StoredPosts
<1>2. \A i \in 1 .. posts : i \in 1 .. posts' /\ content'[i] = content[i]
  BY DEF Progress
<1>3. /\ Queued = {content[i] : i \in StoredPosts} /\ Queued' = {content'[i] : i \in StoredPosts'}
      /\ Dropped = {content[i] : i \in dropped} /\ Dropped' = {content'[i] : i \in dropped'}
  BY DEF Queued, ContentOf, StoredPosts, Dropped
<1>4. \A i \in delivered' : content'[i] \in received'
  BY DEF RunInv, ConfirmedIsReceived
<1>5. \A i \in NewPosts : content'[i] \in OwedNow /\ content'[i] \notin Handed
  <2>1. ASSUME NEW i \in NewPosts PROVE content'[i] \notin Handed
    <3>1. \A k \in 1 .. posts : content'[k] # content'[i]
      BY <1>2 DEF NewPosts, RunInv, FanoutInv, RouteInv, HandedOnce
    <3> QED BY <1>2, <3>1 DEF Handed
  <2>2. ASSUME NEW i \in NewPosts PROVE content'[i] \in Handed'
    BY DEF NewPosts, Handed
  <2>3. Handed' \subseteq Handed \cup OwedNow
    BY DEF Progress
  <2> QED BY <2>1, <2>2, <2>3
<1>6. Queued \subseteq Queued' \cup Dropped' \cup received'
  <2>1. ASSUME NEW i \in StoredPosts PROVE content[i] \in Queued' \cup Dropped' \cup received'
    <3>1. content'[i] = content[i] /\ i \in StoredPosts' \cup delivered' \cup dropped'
      BY <1>1, <1>2 DEF Accounts
    <3> QED BY <1>3, <1>4, <3>1
  <2> QED BY <1>3, <2>1
<1>7. Queued' \subseteq Queued \cup OwedNow
  <2>1. ASSUME NEW i \in StoredPosts' PROVE content'[i] \in Queued \cup OwedNow
    <3>1. CASE i \in StoredPosts
      BY <1>1, <1>2, <1>3, <3>1
    <3>2. CASE i \in NewPosts
      BY <1>5, <3>2
    <3> QED BY <3>1, <3>2 DEF Accounts
  <2> QED BY <1>3, <2>1
<1>8. Dropped \subseteq Dropped'
  <2>1. dropped \subseteq dropped'
    BY DEF Progress
  <2> QED BY <1>1, <1>2, <1>3, <2>1
<1>9. Dropped' \subseteq Dropped \cup Queued \cup OwedNow
  <2>1. ASSUME NEW i \in dropped' PROVE content'[i] \in Dropped \cup Queued \cup OwedNow
    <3>1. CASE i \in dropped \cup StoredPosts
      BY <1>1, <1>2, <1>3, <3>1
    <3>2. CASE i \in NewPosts
      BY <1>5, <3>2
    <3> QED BY <3>1, <3>2 DEF Accounts
  <2> QED BY <1>3, <2>1
<1>10. OwedNow \subseteq OwedNow' \cup Queued' \cup Dropped' \cup received'
  <2>1. ASSUME NEW p \in OwedNow, p \in Handed' PROVE p \in Queued' \cup Dropped'
    <3>1. PICK i \in 1 .. posts' : p = content'[i]
      BY <2>1 DEF Handed
    <3>2. p \notin Handed
      BY DEF RunInv, FanoutInv, RouteInv, Apart
    <3>3. i \in NewPosts
      BY <1>2, <3>1, <3>2 DEF Handed, NewPosts
    <3> QED BY <1>3, <3>1, <3>3 DEF Accounts
  <2> QED BY <2>1 DEF Progress
<1> QED BY <1>6, <1>7, <1>8, <1>9, <1>10 DEF PairsRun

WaitedWereHanded == Queued \subseteq Handed /\ Dropped \subseteq Handed

LEMMA HandedBefore == FanoutInv => WaitedWereHanded
BY StoredIsPast DEF FanoutInv, Queued, ContentOf, Dropped, Handed, WaitedWereHanded

LEMMA RunDelivers ==
  ASSUME RunInv, RunInv', Accounts, Progress, [Next]_vars
  PROVE  \A p \in Pairs : <<Fate[p], Fate'[p]>> \in Promise!Becomes
<1>1. FateRead /\ FateRead'
  <2>1. FateRead
    BY FateIsRead DEF RunInv
  <2>2. (FanoutInv => FateRead)'
    BY FateIsRead, PTL
  <2> QED BY <2>1, <2>2 DEF RunInv
<1>2. /\ Queued \subseteq Handed /\ Dropped \subseteq Handed
      /\ Queued' \subseteq Handed' /\ Dropped' \subseteq Handed'
  <2>1. (FanoutInv => WaitedWereHanded)'
    BY HandedBefore, PTL
  <2> QED BY <2>1, HandedBefore DEF RunInv, WaitedWereHanded
<1>3. /\ OwedNow \cap Handed = {} /\ lost \cap (OwedNow \cup Handed) = {}
      /\ OwedNow' \cap Handed' = {} /\ lost' \cap (OwedNow' \cup Handed') = {}
  BY DEF RunInv, FanoutInv, RouteInv, Apart
<1>4. PairsRun /\ received' \subseteq received \cup OwedNow \cup Queued \cup Dropped
  BY StepRuns, StepArrives
<1>5. Handed \subseteq Handed' /\ lost' = lost /\ received \subseteq received'
  BY DEF Progress, Arrives, Handed
<1>6. ASSUME NEW p \in Pairs PROVE <<Fate[p], Fate'[p]>> \in Promise!Becomes
  <2>1. CASE p \in received
    <3>1. Fate[p] = "received" /\ Fate'[p] = "received"
      BY <1>1, <1>5, <2>1 DEF FateRead
    <3> QED BY <3>1 DEF Promise!Becomes, Promise!Fates
  <2>2. CASE p \notin received /\ p \in Queued
    <3>1. Fate[p] = "waiting"
      BY <1>1, <2>2 DEF FateRead
    <3>2. p \in Queued' \cup received' \cup Dropped' /\ p \notin OwedNow'
      BY <1>2, <1>3, <1>4, <1>5, <2>2 DEF PairsRun
    <3>3. Fate'[p] \in {"waiting", "received", "dropped"}
      BY <1>1, <3>2 DEF FateRead
    <3> QED BY <3>1, <3>3 DEF Promise!Becomes, Promise!Fates
  <2>3. CASE p \notin received \cup Queued /\ p \in OwedNow
    <3>1. Fate[p] = "owed"
      BY <1>1, <2>3 DEF FateRead
    <3>2. p \in OwedNow' \cup Queued' \cup Dropped' \cup received'
      BY <1>4, <2>3 DEF PairsRun
    <3>3. p \in OwedNow' => p \notin Queued' \cup Dropped'
      BY <1>2, <1>3
    <3>4. Fate'[p] \in {"owed", "waiting", "received", "dropped"}
      BY <1>1, <3>2, <3>3 DEF FateRead
    <3> QED BY <3>1, <3>4 DEF Promise!Becomes, Promise!Fates
  <2>4. CASE p \notin received \cup Queued \cup OwedNow /\ p \in Dropped
    <3>1. Fate[p] = "dropped"
      BY <1>1, <2>4 DEF FateRead
    <3>2. p \in Dropped' /\ p \notin Queued' \cup OwedNow'
      BY <1>2, <1>3, <1>4, <1>5, <2>4 DEF PairsRun
    <3>3. Fate'[p] \in {"received", "dropped"}
      BY <1>1, <3>2 DEF FateRead
    <3> QED BY <3>1, <3>3 DEF Promise!Becomes, Promise!Fates
  <2>5. CASE p \notin received \cup Queued \cup OwedNow \cup Dropped /\ p \in lost
    <3>1. Fate[p] = "lost"
      BY <1>1, <2>5 DEF FateRead
    <3>2. p \in lost' /\ p \notin received' \cup Queued' \cup OwedNow' \cup Dropped'
      BY <1>3, <1>4, <1>5, <2>5 DEF PairsRun
    <3>3. Fate'[p] = "lost"
      BY <1>1, <3>2 DEF FateRead
    <3> QED BY <3>1, <3>3 DEF Promise!Becomes, Promise!Fates
  <2>6. CASE p \notin received \cup Queued \cup OwedNow \cup Dropped \cup lost
    <3>1. Fate[p] = "none"
      BY <1>1, <2>6 DEF FateRead
    <3>2. p \notin received' \cup Queued' \cup Dropped' \cup lost'
      BY <1>4, <1>5, <2>6 DEF PairsRun
    <3>3. Fate'[p] \in {"none", "owed"}
      BY <1>1, <3>2 DEF FateRead
    <3> QED BY <3>1, <3>3 DEF Promise!Becomes, Promise!Fates
  <2> QED BY <2>1, <2>2, <2>3, <2>4, <2>5, <2>6
<1> QED BY <1>6

\* "A failure is logged, never dropped; the in-memory state keeps the change
\* either way" (store_db.rs, write): whatever the table refuses or rolls back,
\* while the process runs each planned post goes from the fan-out to the queue
\* and from there to the device or a line in the log, and to nothing else.
THEOREM RunningKeepsPromise == Spec => PromiseKeptRunning
<1>1. Init => RunInv
  BY InitFanoutInv, QueueConstants, SameEnds, QP!InitStoreInv
     DEF Init, Q!Init, QP!StoreInv, RunInv, ConfirmedIsReceived, CopiesKnown
<1>2. RunInv /\ [Next]_vars => RunInv'
  BY RunInvKept
<1>3. RunInv /\ RunInv' /\ [Next]_vars =>
        [ Restart \/ \A p \in Pairs : <<Fate[p], Fate'[p]>> \in Promise!Becomes ]_vars
  <2> SUFFICES ASSUME RunInv, RunInv', [Next]_vars, ~Restart
               PROVE  \A p \in Pairs : <<Fate[p], Fate'[p]>> \in Promise!Becomes
    OBVIOUS
  <2>1. Accounts /\ Progress
    BY StepAccounts, StepEffects DEF RunInv
  <2> QED BY <2>1, RunDelivers
<1> QED BY <1>1, <1>2, <1>3, PTL DEF Spec, PromiseKeptRunning
=============================================================================
