--------------------------- MODULE DeferredQueue ---------------------------
(***************************************************************************)
(* The deferred delivery queue of one federation node                      *)
(* (rfed/src/deferred_queue.rs): the blobs kept for subscribers that could *)
(* not be reached, the pages pulls hold until they are proved, the copies  *)
(* an announce flush has in flight, and the SQLite table that backs them.  *)
(*                                                                         *)
(* The struct sits behind one mutex and each of its methods is one action. *)
(* A method's writes are one SQLite transaction, so a crash falls before   *)
(* or after an action and Restart is the `load` that follows it.           *)
(*                                                                         *)
(* A bucket is the set of the subscriber's entries; its order, front to    *)
(* back, is the order of their `place`.                                    *)
(***************************************************************************)
EXTENDS Integers, FiniteSets

CONSTANTS
  Subscribers,    \* identity hashes that have a bucket
  Routings,       \* routing hashes: channels, and distros' lxmf.delivery
  Limit,          \* each subscriber's policy `deferred_queue_limit`
  GlobalLimit,    \* `global_limit`
  WriteOutcomes,  \* what a transaction of the store can come to
  OpenPages,      \* pages one subscriber's pulls leave unsettled at a time
  MaxPosts,       \* bound on the number of enqueues
  MaxPages,       \* bound on the pages one process hands out
  MaxUnsaved      \* bound: no write fails once this many posts are unsaved

(***************************************************************************)
(* "saved": committed.  "refused": a statement failed, nothing is written. *)
(* "uncommitted": the statements ran but COMMIT failed, and the            *)
(* transaction was rolled back.                                            *)
(***************************************************************************)
Outcomes == {"saved", "refused", "uncommitted"}

ASSUME ConstantsAssumption ==
  /\ Limit \in [Subscribers -> Nat]
  /\ GlobalLimit \in Nat
  /\ WriteOutcomes \subseteq Outcomes
  /\ OpenPages \in Nat
  /\ MaxPosts \in Nat
  /\ MaxPages \in Nat
  /\ MaxUnsaved \in Nat

VARIABLES
  queue,        \* the entries in buckets
  held,         \* the entries in pages that pulls hold, with their page
  next_page,
  next_ticket,
  in_flight,    \* tickets of the entries a flush sent and awaits
  rows,         \* the table `deferred`
  flown,        \* copies a flush sent, whose verdicts may still arrive
  posts,        \* enqueues so far: the clock behind `enqueued_at`
  delivered,    \* posts a device proved or confirmed
  dropped,      \* posts evicted, expired or refused
  unsaved       \* posts a failed write left different on disk

store == <<queue, held, rows>>
history == <<posts, delivered, dropped, unsaved>>
vars == <<queue, held, next_page, next_ticket, in_flight, rows, flown,
          posts, delivered, dropped, unsaved>>

-----------------------------------------------------------------------------

Entry == [subscriber : Subscribers, routing : Routings, at : Nat, id : Nat,
          ticket : Nat, place : Int]
HeldEntry == [page : Nat, entry : Entry]
Copy == [subscriber : Subscribers, ticket : Nat, at : Nat]
RowType == [id : Nat, subscriber : Subscribers, routing : Routings, at : Nat]

Bucket(s) == {e \in queue : e.subscriber = s}
Matching(s, wanted) == {e \in Bucket(s) : e.routing \in wanted}
Page(p) == {h.entry : h \in {g \in held : g.page = p}}
Held == {h.entry : h \in held}
Stored == queue \cup Held
Ats(E) == {e.at : e \in E}

\* BUG: counts the buckets only; a page that a pull holds is off the books.
total_lenOfBuckets == Cardinality(queue)

total_len == Cardinality(queue) + Cardinality(held)

IsFront(e, B) == e \in B /\ \A f \in B : e.place <= f.place

\* The subscriber of the longest bucket; of two as long, the one whose front
\* entry was enqueued first.
IsFullest(v) ==
  /\ Bucket(v) # {}
  /\ \A u \in Subscribers : Cardinality(Bucket(u)) <= Cardinality(Bucket(v))
  /\ \A u \in Subscribers : Cardinality(Bucket(u)) = Cardinality(Bucket(v)) =>
       \A e \in Bucket(v), f \in Bucket(u) :
         IsFront(e, Bucket(v)) /\ IsFront(f, Bucket(u)) => e.at <= f.at

-----------------------------------------------------------------------------
(***************************************************************************)
(* The table.  `id` is INTEGER PRIMARY KEY without AUTOINCREMENT: a new    *)
(* row takes one more than the largest id in the table, so the id of a     *)
(* deleted last row is used again.                                         *)
(***************************************************************************)
Row(e) == [id |-> e.id, subscriber |-> e.subscriber, routing |-> e.routing, at |-> e.at]

delete_rows(R, gone) == {r \in R : \A e \in gone : e.id # r.id}

NewIds(R) == IF R = {} THEN {1}
             ELSE {r.id + 1 : r \in {q \in R : \A p \in R : p.id <= q.id}}

\* One transaction that would leave the table as `after`, for these posts.
Write(w, after, ats) ==
  /\ w \in WriteOutcomes
  /\ w # "saved" => Cardinality(unsaved) < MaxUnsaved
  /\ rows' = IF w = "saved" THEN after ELSE rows
  /\ unsaved' = IF w = "saved" THEN unsaved ELSE unsaved \cup ats

\* The id is assigned inside the transaction, so a failed COMMIT keeps it.
IdAfter(w, R) == IF w = "refused" THEN {0} ELSE NewIds(R)

-----------------------------------------------------------------------------

BucketFull(s) == Bucket(s) # {} /\ Cardinality(Bucket(s)) >= Limit[s]
QueueFull == total_len >= GlobalLimit

\* The tail of `enqueue`: the eviction and the new row in one transaction,
\* then the entry at the back of its bucket whatever the write came to.
Admit(s, r, evicted, w) ==
  \E id \in IdAfter(w, delete_rows(rows, evicted)) :
    LET entry == [subscriber |-> s, routing |-> r, at |-> posts + 1, id |-> id,
                  ticket |-> next_ticket, place |-> next_ticket]
    IN  /\ posts < MaxPosts
        /\ queue' = (queue \ evicted) \cup {entry}
        /\ next_ticket' = next_ticket + 1
        /\ Write(w, delete_rows(rows, evicted) \cup {Row(entry)}, {posts + 1} \cup Ats(evicted))
        /\ posts' = posts + 1
        /\ dropped' = dropped \cup Ats(evicted)
        /\ UNCHANGED <<held, next_page, in_flight, flown, delivered>>

EnqueueQueued(s, r, w) ==
  /\ ~BucketFull(s)
  /\ ~QueueFull
  /\ Admit(s, r, {}, w)

EnqueueEvictingOldest(s, r, w) ==
  /\ BucketFull(s)
  /\ \E e \in Bucket(s) : IsFront(e, Bucket(s)) /\ Admit(s, r, {e}, w)

EnqueueEvictingFullest(s, r, w) ==
  /\ ~BucketFull(s)
  /\ QueueFull
  /\ \E v \in Subscribers :
       /\ IsFullest(v)
       /\ \E e \in Bucket(v) : IsFront(e, Bucket(v)) /\ Admit(s, r, {e}, w)

EnqueueRefused(s) ==
  /\ ~BucketFull(s)
  /\ QueueFull
  /\ queue = {}
  /\ posts < MaxPosts
  /\ posts' = posts + 1
  /\ dropped' = dropped \cup {posts + 1}
  /\ UNCHANGED <<store, next_page, next_ticket, in_flight, flown, delivered, unsaved>>

-----------------------------------------------------------------------------
(***************************************************************************)
(* Pulls.  A page is the front part of the subscriber's entries of the     *)
(* wanted kinds, never empty; how much of it fits the page limit and the   *)
(* byte budget is left open.                                               *)
(***************************************************************************)
\* BUG: an entry too large for the page is passed over, not left to end it.
IsAnyPart(page, B) == page # {} /\ page \subseteq B

IsFrontPart(page, B) ==
  page # {} /\ page \subseteq B /\ \A e \in page, f \in B \ page : e.place < f.place

take_page(s, wanted) ==
  /\ next_page <= MaxPages
  /\ Cardinality({h.page : h \in {g \in held : g.entry.subscriber = s}}) < OpenPages
  /\ \E page \in SUBSET Matching(s, wanted) :
       /\ IsFrontPart(page, Matching(s, wanted))
       /\ queue' = queue \ page
       /\ held' = held \cup {[page |-> next_page, entry |-> e] : e \in page}
  /\ next_page' = next_page + 1
  /\ UNCHANGED <<next_ticket, in_flight, rows, flown, history>>

SettleProved(p, w) ==
  /\ Page(p) # {}
  /\ held' = {h \in held : h.page # p}
  /\ Write(w, delete_rows(rows, Page(p)), Ats(Page(p)))
  /\ delivered' = delivered \cup Ats(Page(p))
  /\ UNCHANGED <<queue, next_page, next_ticket, in_flight, flown, posts, dropped>>

\* How far to move a page back so that it stands before all of bucket B.
Shifts(page, B) == {0} \cup {e.place - f.place + 1 : e \in page, f \in B}
MovedBack(page, d) == {[e EXCEPT !.place = @ - d] : e \in page}

SettleUnproved(p) ==
  /\ Page(p) # {}
  /\ \E s \in Subscribers : \E d \in Shifts(Page(p), Bucket(s)) :
       /\ \A e \in Page(p) : e.subscriber = s
       /\ \A x \in Shifts(Page(p), Bucket(s)) : x <= d
       /\ queue' = queue \cup MovedBack(Page(p), d)
  /\ held' = {h \in held : h.page # p}
  /\ UNCHANGED <<next_page, next_ticket, in_flight, rows, flown, history>>

-----------------------------------------------------------------------------
(***************************************************************************)
(* The announce flush.  A verdict on a copy can come twice (a receipt that *)
(* timed out and is proved late), so `flown` keeps it after `release`.     *)
(***************************************************************************)
\* BUG: the flush takes the entries out, as it did until 2026-10-30.
flush_drains(s, wanted) ==
  LET copies == {e \in Matching(s, wanted) : e.ticket \notin in_flight} IN
  /\ copies # {}
  /\ in_flight' = in_flight \cup {e.ticket : e \in copies}
  /\ flown' = flown \cup {[subscriber |-> s, ticket |-> e.ticket, at |-> e.at] : e \in copies}
  /\ queue' = queue \ copies
  /\ UNCHANGED <<held, rows, next_page, next_ticket, history>>

flush_copies(s, wanted) ==
  LET copies == {e \in Matching(s, wanted) : e.ticket \notin in_flight} IN
  /\ copies # {}
  /\ in_flight' = in_flight \cup {e.ticket : e \in copies}
  /\ flown' = flown \cup {[subscriber |-> s, ticket |-> e.ticket, at |-> e.at] : e \in copies}
  /\ UNCHANGED <<store, next_page, next_ticket, history>>

\* BUG: looks in the bucket only; a page gives the entry back unproved.
confirm_in_bucket(copy, w) ==
  LET waiting == {e \in Bucket(copy.subscriber) : e.ticket = copy.ticket}
  IN  /\ in_flight' = in_flight \ {copy.ticket}
      /\ queue' = queue \ waiting
      /\ Write(w, delete_rows(rows, waiting), Ats(waiting))
      /\ delivered' = delivered \cup {copy.at}
      /\ UNCHANGED <<held, next_page, next_ticket, flown, posts, dropped>>

\* From the bucket, or else from the page that a pull holds it in.
confirm(copy, w) ==
  LET waiting == {e \in Bucket(copy.subscriber) : e.ticket = copy.ticket}
      pulled == {h \in held : /\ waiting = {}
                              /\ h.entry.subscriber = copy.subscriber
                              /\ h.entry.ticket = copy.ticket}
      gone == waiting \cup {h.entry : h \in pulled}
  IN  /\ in_flight' = in_flight \ {copy.ticket}
      /\ queue' = queue \ waiting
      /\ held' = held \ pulled
      /\ Write(w, delete_rows(rows, gone), Ats(gone))
      /\ delivered' = delivered \cup {copy.at}
      /\ UNCHANGED <<next_page, next_ticket, flown, posts, dropped>>

release(copy) ==
  /\ copy.ticket \in in_flight
  /\ in_flight' = in_flight \ {copy.ticket}
  /\ UNCHANGED <<store, next_page, next_ticket, flown, history>>

-----------------------------------------------------------------------------

\* Entries leave the queue undelivered, their rows with them.
Discard(gone, w) ==
  /\ gone # {}
  /\ queue' = queue \ gone
  /\ Write(w, delete_rows(rows, gone), Ats(gone))
  /\ dropped' = dropped \cup Ats(gone)
  /\ UNCHANGED <<held, next_page, next_ticket, in_flight, flown, posts, delivered>>

\* BUG: deletes every row past the age, those of held pages among them.
evict_rows_by_age(threshold, w) ==
  LET gone == {e \in queue : e.at < threshold} IN
  /\ gone # {}
  /\ queue' = queue \ gone
  /\ Write(w, {r \in rows : r.at >= threshold}, Ats(gone))
  /\ dropped' = dropped \cup Ats(gone)
  /\ UNCHANGED <<held, next_page, next_ticket, in_flight, flown, posts, delivered>>

evict_expired(threshold, w) == Discard({e \in queue : e.at < threshold}, w)

\* A subscription that expired: what it had queued on the channel goes.
drain_channel(s, r, w) == Discard(Matching(s, {r}), w)

-----------------------------------------------------------------------------

\* BUG: read back, but not numbered again.
LoadedAsRead(r) ==
  [subscriber |-> r.subscriber, routing |-> r.routing, at |-> r.at,
   id |-> r.id, ticket |-> 0, place |-> r.id]

\* The process stops anywhere and `load` reads the table in id order.  `load`
\* numbers the tickets bucket by bucket; here they follow the ids, which keeps
\* each bucket's order and the tickets' range.
Loaded(r) ==
  LET n == Cardinality({q \in rows : q.id <= r.id})
  IN  [subscriber |-> r.subscriber, routing |-> r.routing, at |-> r.at,
       id |-> r.id, ticket |-> n, place |-> n]

Restart ==
  /\ queue' = {Loaded(r) : r \in rows}
  /\ held' = {}
  /\ next_page' = 1
  /\ next_ticket' = Cardinality(rows) + 1
  /\ in_flight' = {}
  /\ flown' = {}
  /\ UNCHANGED <<rows, history>>

-----------------------------------------------------------------------------

Init ==
  /\ queue = {}
  /\ held = {}
  /\ next_page = 1
  /\ next_ticket = 1
  /\ in_flight = {}
  /\ rows = {}
  /\ flown = {}
  /\ posts = 0
  /\ delivered = {}
  /\ dropped = {}
  /\ unsaved = {}

Enqueue(s, r, w) ==
  \/ EnqueueQueued(s, r, w)
  \/ EnqueueEvictingOldest(s, r, w)
  \/ EnqueueEvictingFullest(s, r, w)

settle_page(p) ==
  \/ \E w \in WriteOutcomes : SettleProved(p, w)
  \/ SettleUnproved(p)

Kinds == (SUBSET Routings) \ {{}}

Next ==
  \/ \E s \in Subscribers, r \in Routings, w \in WriteOutcomes : Enqueue(s, r, w)
  \/ \E s \in Subscribers : EnqueueRefused(s)
  \/ \E s \in Subscribers, wanted \in Kinds : take_page(s, wanted)
  \/ \E h \in held : settle_page(h.page)
  \/ \E s \in Subscribers, wanted \in Kinds : flush_copies(s, wanted)
  \/ \E copy \in flown, w \in WriteOutcomes : confirm(copy, w)
  \/ \E copy \in flown : release(copy)
  \/ \E threshold \in 2 .. posts + 1, w \in WriteOutcomes : evict_expired(threshold, w)
  \/ \E s \in Subscribers, r \in Routings, w \in WriteOutcomes : drain_channel(s, r, w)
  \/ Restart

Spec == Init /\ [][Next]_vars

-----------------------------------------------------------------------------

\* Every variable stays in its type.
TypeOK ==
  /\ queue \subseteq Entry
  /\ held \subseteq HeldEntry
  /\ next_page \in Nat
  /\ next_ticket \in Nat
  /\ in_flight \subseteq Nat
  /\ rows \subseteq RowType
  /\ flown \subseteq Copy
  /\ posts \in Nat
  /\ delivered \subseteq 1 .. posts
  /\ dropped \subseteq 1 .. posts
  /\ unsaved \subseteq 1 .. posts

\* A ticket names one entry, in a bucket or in one page, whatever was
\* enqueued, put back or reloaded: confirm and release act on the entry the
\* flush copied and on no other.
TicketNamesOneEntry ==
  /\ \A e, f \in Stored : e.ticket = f.ticket => e = f
  /\ \A g, h \in held : g.entry = h.entry => g = h
  /\ \A h \in held : h.entry \notin queue
  /\ \A e \in Stored : e.ticket < next_ticket

\* A restart now brings back exactly what is stored, held pages included, but
\* for posts whose own write failed: neither a blob on its way to a pull or a
\* flush is lost, nor one already delivered or dropped comes back.
RestartKeepsWhatWasSaved ==
  /\ \A e \in Stored : e.at \notin unsaved => Row(e) \in rows
  /\ \A r \in rows : r.at \notin unsaved => \E e \in Stored : Row(e) = r

\* Nothing is lost in silence: a post is stored until a device has it or it
\* is dropped, and its caller logs each drop (`EnqueueOutcome`, `Expired`).
EveryPostAccounted ==
  \A p \in (1 .. posts) \ unsaved :
    /\ p \in Ats(Stored) \cup delivered \cup dropped
    /\ p \in dropped => p \notin Ats(Stored)

\* Once a proof or a confirmation says a device has a post, no pull hands it
\* out again: not from a page that a pull held meanwhile and that comes back
\* unproved, nor after a restart.
DeliveredStaysGone == \A p \in delivered \ unsaved : p \notin Ats(Stored)

\* The queue never holds more than the global limit, pages that pulls hold
\* included (SPEC section 7, Limits).
TotalWithinLimit == unsaved = {} => total_len <= GlobalLimit

\* A subscriber's blobs of one routing hash wait in the order they came, so a
\* pull hands them out in that order.
FirstInFirstOut ==
  \A e, f \in queue :
    e.subscriber = f.subscriber /\ e.routing = f.routing /\ e.at < f.at => e.place < f.place

\* A blob is refused only when every stored entry is in a page a pull holds
\* (`enqueue`, EnqueueOutcome::RefusedGlobalLimit).
RefusedOnlyWhenAllHeld ==
  [][ posts' \in dropped' /\ posts' # posts => queue = {} /\ total_len >= GlobalLimit ]_vars

\* Each write deletes only the rows of entries that leave the queue with it:
\* never the row of a blob that still waits, whose restart would lose it
\* ("each enqueue, eviction and drain writes only its own rows").
WritesOnlyOwnRows ==
  [][ \A r \in rows \ rows' : \E e \in Stored \ Stored' : Row(e) = r ]_vars

\* When a bucket at its limit takes a new blob, its oldest entry goes
\* (`enqueue`; SPEC section 7, Limits).
EvictsOldest ==
  [][ \A s \in Subscribers :
        posts' # posts /\ BucketFull(s) /\ Bucket(s) \ queue' # {} =>
          \E e \in Bucket(s) \ queue' : \A f \in Bucket(s) : e.at <= f.at ]_vars
=============================================================================
