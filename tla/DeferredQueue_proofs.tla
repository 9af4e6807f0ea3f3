----------------------- MODULE DeferredQueue_proofs -----------------------
(***************************************************************************)
(* Proofs about DeferredQueue, for every value of its constants.           *)
(*                                                                         *)
(* A step does one of five things to what is stored: it admits an entry,   *)
(* refuses one, lets entries leave, moves entries between buckets and      *)
(* pages, or reloads the table.  The invariants beyond the type are proved *)
(* from those five effects (Admits, Leaves, Moves, ...) instead of from    *)
(* the ten actions.                                                        *)
(***************************************************************************)
EXTENDS DeferredQueue, FiniteSetTheorems, TLAPS

-----------------------------------------------------------------------------

\* What is stored, on disk or in flight belongs to a past post, and the table
\* is finite.
PostsPast ==
  /\ IsFiniteSet(rows)
  /\ \A e \in Stored : e.at \in 1 .. posts
  /\ \A r \in rows : r.at \in 1 .. posts
  /\ \A c \in flown : c.at \in 1 .. posts

TypeInv == TypeOK /\ PostsPast

\* The ids an insert may take are numbers above those in the table.
LEMMA NewIdsAbove ==
  ASSUME NEW R \in SUBSET RowType, NEW id \in NewIds(R)
  PROVE  id \in Nat /\ id >= 1 /\ \A r \in R : r.id < id
<1>1. CASE R = {}
  BY <1>1 DEF NewIds
<1>2. CASE R # {}
  <2>1. PICK q \in R : id = q.id + 1 /\ \A p \in R : p.id <= q.id
    BY <1>2 DEF NewIds
  <2>2. q.id \in Nat /\ \A r \in R : r.id \in Nat
    BY DEF RowType
  <2>3. QED
    BY <2>1, <2>2
<1>3. QED
  BY <1>1, <1>2

LEMMA IdAfterType ==
  ASSUME NEW R \in SUBSET RowType, NEW w, NEW id \in IdAfter(w, R)
  PROVE  id \in Nat
BY NewIdsAbove DEF IdAfter

\* The rank that `load` numbers entries by is within the table's size.
LEMMA RankBounded ==
  ASSUME TypeInv, NEW r \in rows
  PROVE  /\ Loaded(r) \in Entry
         /\ Loaded(r).ticket \in Nat
         /\ Loaded(r).ticket <= Cardinality(rows)
         /\ Cardinality(rows) \in Nat
         /\ Loaded(r).at = r.at
<1> DEFINE below == {q \in rows : q.id <= r.id}
<1>1. IsFiniteSet(rows) /\ below \in SUBSET rows
  BY DEF TypeInv, PostsPast
<1>2. Cardinality(rows) \in Nat
  BY <1>1, FS_CardinalityType
<1>3. IsFiniteSet(below) /\ Cardinality(below) <= Cardinality(rows)
  BY <1>1, FS_Subset
<1>4. Cardinality(below) \in Nat
  BY <1>3, FS_CardinalityType
<1>5. r \in RowType
  BY DEF TypeInv, TypeOK
<1> HIDE DEF below
<1>6. Loaded(r) = [subscriber |-> r.subscriber, routing |-> r.routing, at |-> r.at,
                   id |-> r.id, ticket |-> Cardinality(below), place |-> Cardinality(below)]
  BY DEF Loaded, below
<1>7. QED
  BY <1>2, <1>3, <1>4, <1>5, <1>6 DEF RowType, Entry

-----------------------------------------------------------------------------
(***************************************************************************)
(* Type correctness.                                                       *)
(***************************************************************************)

LEMMA InitTypeInv == Init => TypeInv
BY FS_EmptySet, ConstantsAssumption
   DEF Init, TypeInv, TypeOK, PostsPast, Stored, Held

\* What every write leaves typed: a table that was, or the one it meant.
LEMMA WriteTypes ==
  ASSUME TypeInv, NEW w, NEW after \in SUBSET RowType, NEW ats,
         IsFiniteSet(after), Write(w, after, ats),
         NEW n \in Nat, n >= posts, \A r \in after : r.at \in 1 .. n,
         ats \in SUBSET (1 .. n)
  PROVE  /\ rows' \in SUBSET RowType
         /\ IsFiniteSet(rows')
         /\ \A r \in rows' : r.at \in 1 .. n
         /\ unsaved' \in SUBSET (1 .. n)
<1>1. posts \in Nat /\ 1 .. posts \subseteq 1 .. n
  BY DEF TypeInv, TypeOK
<1>2. CASE w = "saved"
  BY <1>1, <1>2 DEF Write, TypeInv, TypeOK
<1>3. CASE w # "saved"
  BY <1>1, <1>3 DEF Write, TypeInv, TypeOK, PostsPast
<1>4. QED
  BY <1>2, <1>3

LEMMA DeleteRowsTypes ==
  ASSUME TypeInv, NEW gone
  PROVE  /\ delete_rows(rows, gone) \in SUBSET rows
         /\ delete_rows(rows, gone) \in SUBSET RowType
         /\ IsFiniteSet(delete_rows(rows, gone))
<1>1. delete_rows(rows, gone) \in SUBSET rows
  BY DEF delete_rows
<1>2. rows \in SUBSET RowType /\ IsFiniteSet(rows)
  BY DEF TypeInv, TypeOK, PostsPast
<1>3. QED
  BY <1>1, <1>2, FS_Subset

LEMMA AdmitTypeInv ==
  ASSUME TypeInv, NEW s \in Subscribers, NEW r \in Routings,
         NEW evicted \in SUBSET queue, NEW w, Admit(s, r, evicted, w)
  PROVE  TypeInv'
<1> DEFINE kept == delete_rows(rows, evicted)
<1>1. PICK id \in IdAfter(w, kept) :
        LET entry == [subscriber |-> s, routing |-> r, at |-> posts + 1, id |-> id,
                      ticket |-> next_ticket, place |-> next_ticket]
        IN  /\ queue' = (queue \ evicted) \cup {entry}
            /\ next_ticket' = next_ticket + 1
            /\ Write(w, kept \cup {Row(entry)}, {posts + 1} \cup Ats(evicted))
            /\ posts' = posts + 1
            /\ dropped' = dropped \cup Ats(evicted)
            /\ UNCHANGED <<held, next_page, in_flight, flown, delivered>>
  BY DEF Admit
<1> DEFINE entry == [subscriber |-> s, routing |-> r, at |-> posts + 1, id |-> id,
                     ticket |-> next_ticket, place |-> next_ticket]
<1>2. /\ queue' = (queue \ evicted) \cup {entry}
      /\ next_ticket' = next_ticket + 1
      /\ Write(w, kept \cup {Row(entry)}, {posts + 1} \cup Ats(evicted))
      /\ posts' = posts + 1
      /\ dropped' = dropped \cup Ats(evicted)
      /\ UNCHANGED <<held, next_page, in_flight, flown, delivered>>
  BY <1>1
<1>3. kept \in SUBSET rows /\ kept \in SUBSET RowType /\ IsFiniteSet(kept)
  BY DeleteRowsTypes
<1> HIDE DEF kept
<1>4. id \in Nat
  BY <1>3, IdAfterType
<1>5. posts \in Nat /\ next_ticket \in Nat
  BY DEF TypeInv, TypeOK
<1>6. entry \in Entry /\ entry.at = posts + 1
  BY <1>4, <1>5 DEF Entry
<1>7. Row(entry) \in RowType /\ Row(entry).at = posts + 1
  BY <1>6 DEF Row, RowType, Entry
<1>8. Ats(evicted) \in SUBSET (1 .. posts)
  BY DEF TypeInv, PostsPast, Ats, Stored
<1> HIDE DEF entry
<1>9. /\ rows' \in SUBSET RowType
      /\ IsFiniteSet(rows')
      /\ \A q \in rows' : q.at \in 1 .. posts + 1
      /\ unsaved' \in SUBSET (1 .. posts + 1)
  <2>1. kept \cup {Row(entry)} \in SUBSET RowType
    BY <1>3, <1>7
  <2>2. IsFiniteSet(kept \cup {Row(entry)})
    BY <1>3, FS_AddElement
  <2>3. \A q \in kept \cup {Row(entry)} : q.at \in 1 .. posts + 1
    BY <1>3, <1>5, <1>7 DEF TypeInv, PostsPast
  <2>4. {posts + 1} \cup Ats(evicted) \in SUBSET (1 .. posts + 1)
    BY <1>5, <1>8
  <2>5. posts + 1 \in Nat /\ posts + 1 >= posts
    BY <1>5
  <2>6. QED
    BY <1>2, <2>1, <2>2, <2>3, <2>4, <2>5, WriteTypes
<1>10. TypeOK'
  <2>1. queue' \subseteq Entry /\ next_ticket' \in Nat /\ posts' \in Nat
    BY <1>2, <1>5, <1>6 DEF TypeInv, TypeOK
  <2>2. held' \subseteq HeldEntry /\ next_page' \in Nat /\ in_flight' \subseteq Nat /\ flown' \subseteq Copy
    BY <1>2 DEF TypeInv, TypeOK
  <2>3. delivered' \subseteq 1 .. posts' /\ dropped' \subseteq 1 .. posts'
    <3>1. 1 .. posts \subseteq 1 .. posts'
      BY <1>2, <1>5
    <3>2. delivered \subseteq 1 .. posts /\ dropped \subseteq 1 .. posts
      BY DEF TypeInv, TypeOK
    <3>3. QED
      BY <1>2, <1>8, <3>1, <3>2
  <2>4. QED
    BY <1>2, <1>9, <2>1, <2>2, <2>3 DEF TypeOK
<1>11. PostsPast'
  <2>1. \A e \in Stored' : e.at \in 1 .. posts + 1
    BY <1>2, <1>5, <1>6 DEF TypeInv, PostsPast, Stored, Held
  <2>2. \A c \in flown' : c.at \in 1 .. posts + 1
    BY <1>2, <1>5 DEF TypeInv, PostsPast
  <2>3. QED
    BY <1>2, <1>9, <2>1, <2>2 DEF PostsPast
<1>12. QED
  BY <1>10, <1>11 DEF TypeInv

\* A write that takes entries out keeps the types.
LEMMA LeaveTypeInv ==
  ASSUME TypeInv, NEW gone \in SUBSET Stored, NEW w,
         Write(w, delete_rows(rows, gone), Ats(gone)),
         queue' \subseteq queue, held' \subseteq held, in_flight' \subseteq in_flight,
         delivered' \in SUBSET (1 .. posts), dropped' \in SUBSET (1 .. posts),
         UNCHANGED <<next_page, next_ticket, flown, posts>>
  PROVE  TypeInv'
<1>1. /\ delete_rows(rows, gone) \in SUBSET rows
      /\ delete_rows(rows, gone) \in SUBSET RowType
      /\ IsFiniteSet(delete_rows(rows, gone))
  BY DeleteRowsTypes
<1>2. Ats(gone) \in SUBSET (1 .. posts)
  BY DEF TypeInv, PostsPast, Ats
<1>3. posts \in Nat /\ posts >= posts
  BY DEF TypeInv, TypeOK
<1>4. \A q \in delete_rows(rows, gone) : q.at \in 1 .. posts
  BY <1>1 DEF TypeInv, PostsPast
<1>5. /\ rows' \in SUBSET RowType
      /\ IsFiniteSet(rows')
      /\ \A q \in rows' : q.at \in 1 .. posts
      /\ unsaved' \in SUBSET (1 .. posts)
  BY <1>1, <1>2, <1>3, <1>4, WriteTypes
<1>6. TypeOK'
  BY <1>5 DEF TypeInv, TypeOK
<1>7. PostsPast'
  BY <1>5 DEF TypeInv, PostsPast, Stored, Held
<1>8. QED
  BY <1>6, <1>7 DEF TypeInv

LEMMA RefusedTypeInv ==
  ASSUME TypeInv, NEW s \in Subscribers, EnqueueRefused(s)
  PROVE  TypeInv'
<1>1. posts \in Nat /\ 1 .. posts \subseteq 1 .. (posts + 1) /\ posts + 1 \in 1 .. (posts + 1)
  BY DEF TypeInv, TypeOK
<1>2. TypeOK'
  <2>1. posts' = posts + 1 /\ dropped' = dropped \cup {posts + 1} /\ delivered' = delivered
        /\ unsaved' = unsaved
    BY DEF EnqueueRefused
  <2>2. delivered' \subseteq 1 .. posts' /\ dropped' \subseteq 1 .. posts' /\ unsaved' \subseteq 1 .. posts'
    BY <1>1, <2>1 DEF TypeInv, TypeOK
  <2>3. QED
    BY <1>1, <2>1, <2>2 DEF EnqueueRefused, TypeInv, TypeOK, store
<1>3. PostsPast'
  BY <1>1 DEF EnqueueRefused, TypeInv, PostsPast, Stored, Held, store
<1>4. QED
  BY <1>2, <1>3 DEF TypeInv

LEMMA TakeTypeInv ==
  ASSUME TypeInv, NEW s \in Subscribers, NEW wanted \in Kinds, take_page(s, wanted)
  PROVE  TypeInv'
<1>1. PICK page \in SUBSET Matching(s, wanted) :
        /\ queue' = queue \ page
        /\ held' = held \cup {[page |-> next_page, entry |-> e] : e \in page}
  BY DEF take_page
<1>2. page \subseteq queue
  BY DEF Matching, Bucket
<1>3. UNCHANGED <<next_ticket, in_flight, rows, flown, posts, delivered, dropped, unsaved>>
      /\ next_page' = next_page + 1
  BY DEF take_page, history
<1>4. TypeOK'
  BY <1>1, <1>2, <1>3 DEF TypeInv, TypeOK, HeldEntry
<1>5. Stored' \subseteq Stored
  BY <1>1, <1>2 DEF Stored, Held
<1>6. PostsPast'
  BY <1>3, <1>5 DEF TypeInv, PostsPast
<1>7. QED
  BY <1>4, <1>6 DEF TypeInv

\* A held page's entries are stored.
LEMMA PageStored ==
  ASSUME NEW p
  PROVE  Page(p) \in SUBSET Stored
BY DEF Page, Stored, Held

LEMMA SettleProvedTypeInv ==
  ASSUME TypeInv, NEW p, NEW w, SettleProved(p, w)
  PROVE  TypeInv'
<1>1. Page(p) \in SUBSET Stored
  BY PageStored
<1>2. Ats(Page(p)) \in SUBSET (1 .. posts)
  BY <1>1 DEF TypeInv, PostsPast, Ats
<1>3. delivered' \in SUBSET (1 .. posts) /\ dropped' \in SUBSET (1 .. posts)
  BY <1>2 DEF SettleProved, TypeInv, TypeOK
<1>4. /\ Write(w, delete_rows(rows, Page(p)), Ats(Page(p)))
      /\ queue' \subseteq queue /\ held' \subseteq held /\ in_flight' \subseteq in_flight
      /\ UNCHANGED <<next_page, next_ticket, flown, posts>>
  BY DEF SettleProved
<1>5. QED
  BY <1>1, <1>3, <1>4, LeaveTypeInv

\* A moved entry is the entry it was but for its place.
LEMMA MovedBackType ==
  ASSUME NEW page \in SUBSET Entry, NEW d \in Int
  PROVE  /\ MovedBack(page, d) \in SUBSET Entry
         /\ \A x \in MovedBack(page, d) : \E e \in page : x = [e EXCEPT !.place = e.place - d]
BY DEF MovedBack, Entry

LEMMA SettleUnprovedTypeInv ==
  ASSUME TypeInv, NEW p, SettleUnproved(p)
  PROVE  TypeInv'
<1>0. PICK s \in Subscribers : \E d \in Shifts(Page(p), Bucket(s)) :
        queue' = queue \cup MovedBack(Page(p), d)
  BY DEF SettleUnproved
<1>1. PICK d \in Shifts(Page(p), Bucket(s)) :
        queue' = queue \cup MovedBack(Page(p), d)
  BY <1>0
<1>2. Page(p) \in SUBSET Entry /\ Bucket(s) \in SUBSET Entry
  BY DEF TypeInv, TypeOK, HeldEntry, Page, Bucket
<1>3. d \in Int
  BY <1>2 DEF Shifts, Entry
<1>4. /\ MovedBack(Page(p), d) \in SUBSET Entry
      /\ \A x \in MovedBack(Page(p), d) : \E e \in Page(p) : x = [e EXCEPT !.place = e.place - d]
  BY <1>2, <1>3, MovedBackType
<1>5. held' \subseteq held /\ UNCHANGED <<next_page, next_ticket, in_flight, rows, flown>>
      /\ UNCHANGED <<posts, delivered, dropped, unsaved>>
  BY DEF SettleUnproved, history
<1>6. TypeOK'
  BY <1>1, <1>4, <1>5 DEF TypeInv, TypeOK
<1>7. \A x \in Stored' : \E e \in Stored : x.at = e.at
  <2>1. SUFFICES ASSUME NEW x \in Stored' PROVE \E e \in Stored : x.at = e.at
    OBVIOUS
  <2>2. CASE x \in MovedBack(Page(p), d)
    <3>1. PICK e \in Page(p) : x = [e EXCEPT !.place = e.place - d]
      BY <1>4, <2>2
    <3>2. e \in Entry /\ e \in Stored
      BY <1>2, PageStored
    <3>3. QED
      BY <3>1, <3>2 DEF Entry
  <2>3. CASE x \notin MovedBack(Page(p), d)
    BY <1>1, <1>5, <2>3 DEF Stored, Held
  <2>4. QED
    BY <2>2, <2>3
<1>8. PostsPast'
  BY <1>5, <1>7 DEF TypeInv, PostsPast
<1>9. QED
  BY <1>6, <1>8 DEF TypeInv

LEMMA FlushTypeInv ==
  ASSUME TypeInv, NEW s \in Subscribers, NEW wanted \in Kinds, flush_copies(s, wanted)
  PROVE  TypeInv'
<1> DEFINE copies == {e \in Matching(s, wanted) : e.ticket \notin in_flight}
<1>1. /\ in_flight' = in_flight \cup {e.ticket : e \in copies}
      /\ flown' = flown \cup {[subscriber |-> s, ticket |-> e.ticket, at |-> e.at] : e \in copies}
      /\ UNCHANGED <<queue, held, rows, next_page, next_ticket, posts, delivered, dropped, unsaved>>
  BY DEF flush_copies, store, history
<1>2. copies \subseteq queue
  BY DEF Matching, Bucket
<1> HIDE DEF copies
<1>3. TypeOK'
  BY <1>1, <1>2 DEF TypeInv, TypeOK, Entry, Copy
<1>4. \A c \in flown' : c.at \in 1 .. posts
  BY <1>1, <1>2 DEF TypeInv, PostsPast, Stored
<1>5. PostsPast'
  BY <1>1, <1>4 DEF TypeInv, PostsPast, Stored, Held
<1>6. QED
  BY <1>3, <1>5 DEF TypeInv

\* What `confirm` takes out: the stored entry with the copy's ticket, looked
\* for in the bucket and then in the pages.
Waiting(c) == {e \in Bucket(c.subscriber) : e.ticket = c.ticket}
Pulled(c) == {h \in held : /\ Waiting(c) = {}
                           /\ h.entry.subscriber = c.subscriber
                           /\ h.entry.ticket = c.ticket}
Confirmed(c) == Waiting(c) \cup {h.entry : h \in Pulled(c)}

LEMMA ConfirmEffect ==
  ASSUME NEW c, NEW w, confirm(c, w)
  PROVE  /\ Confirmed(c) \in SUBSET Stored
         /\ in_flight' = in_flight \ {c.ticket}
         /\ queue' = queue \ Waiting(c)
         /\ held' = held \ Pulled(c)
         /\ Write(w, delete_rows(rows, Confirmed(c)), Ats(Confirmed(c)))
         /\ delivered' = delivered \cup {c.at}
         /\ UNCHANGED <<next_page, next_ticket, flown, posts, dropped>>
<1>1. Confirmed(c) \in SUBSET Stored
  BY DEF Confirmed, Waiting, Pulled, Bucket, Stored, Held
<1>2. QED
  BY <1>1 DEF confirm, Confirmed, Waiting, Pulled

LEMMA ConfirmTypeInv ==
  ASSUME TypeInv, NEW c \in flown, NEW w, confirm(c, w)
  PROVE  TypeInv'
<1>1. delivered \cup {c.at} \in SUBSET (1 .. posts) /\ dropped \in SUBSET (1 .. posts)
  BY DEF TypeInv, TypeOK, PostsPast
<1>2. queue' \subseteq queue /\ held' \subseteq held /\ in_flight' \subseteq in_flight
  BY ConfirmEffect
<1>3. QED
  BY <1>1, <1>2, ConfirmEffect, LeaveTypeInv

LEMMA ReleaseTypeInv ==
  ASSUME TypeInv, NEW c \in flown, release(c)
  PROVE  TypeInv'
BY DEF release, TypeInv, TypeOK, PostsPast, Stored, Held, store, history

LEMMA DiscardTypeInv ==
  ASSUME TypeInv, NEW gone \in SUBSET queue, NEW w, Discard(gone, w)
  PROVE  TypeInv'
<1>1. gone \in SUBSET Stored
  BY DEF Stored
<1>2. Ats(gone) \in SUBSET (1 .. posts)
  BY <1>1 DEF TypeInv, PostsPast, Ats
<1>3. /\ Write(w, delete_rows(rows, gone), Ats(gone))
      /\ queue' \subseteq queue /\ held' \subseteq held /\ in_flight' \subseteq in_flight
      /\ UNCHANGED <<next_page, next_ticket, flown, posts>>
  BY DEF Discard
<1>4. delivered' \in SUBSET (1 .. posts) /\ dropped' \in SUBSET (1 .. posts)
  BY <1>2 DEF Discard, TypeInv, TypeOK
<1>5. QED
  BY <1>1, <1>3, <1>4, LeaveTypeInv

LEMMA RestartTypeInv ==
  ASSUME TypeInv, Restart
  PROVE  TypeInv'
<1>1. /\ queue' = {Loaded(r) : r \in rows}
      /\ held' = {} /\ next_page' = 1 /\ next_ticket' = Cardinality(rows) + 1
      /\ in_flight' = {} /\ flown' = {}
      /\ UNCHANGED <<rows, posts, delivered, dropped, unsaved>>
  BY DEF Restart, history
<1>2. queue' \in SUBSET Entry
  BY <1>1, RankBounded
<1>3. Cardinality(rows) \in Nat
  BY FS_CardinalityType DEF TypeInv, PostsPast
<1>4. TypeOK'
  BY <1>1, <1>2, <1>3 DEF TypeInv, TypeOK
<1>5. \A e \in queue' : e.at \in 1 .. posts
  BY <1>1, RankBounded DEF TypeInv, PostsPast
<1>6. PostsPast'
  BY <1>1, <1>5 DEF TypeInv, PostsPast, Stored, Held
<1>7. QED
  BY <1>4, <1>6 DEF TypeInv

LEMMA EnqueueAdmits ==
  ASSUME NEW s \in Subscribers, NEW r \in Routings, NEW w, Enqueue(s, r, w)
  PROVE  \E evicted \in SUBSET queue : Admit(s, r, evicted, w)
<1>1. CASE EnqueueQueued(s, r, w)
  BY <1>1 DEF EnqueueQueued
<1>2. CASE EnqueueEvictingOldest(s, r, w)
  BY <1>2 DEF EnqueueEvictingOldest, Bucket
<1>3. CASE EnqueueEvictingFullest(s, r, w)
  BY <1>3 DEF EnqueueEvictingFullest, Bucket
<1>4. QED
  BY <1>1, <1>2, <1>3 DEF Enqueue

LEMMA NextTypeInv == TypeInv /\ [Next]_vars => TypeInv'
<1> SUFFICES ASSUME TypeInv, [Next]_vars
             PROVE  TypeInv'
  OBVIOUS
<1>1. ASSUME NEW s \in Subscribers, NEW r \in Routings, NEW w \in WriteOutcomes, Enqueue(s, r, w)
      PROVE  TypeInv'
  BY <1>1, EnqueueAdmits, AdmitTypeInv
<1>2. ASSUME NEW s \in Subscribers, EnqueueRefused(s)
      PROVE  TypeInv'
  BY <1>2, RefusedTypeInv
<1>3. ASSUME NEW s \in Subscribers, NEW wanted \in Kinds, take_page(s, wanted)
      PROVE  TypeInv'
  BY <1>3, TakeTypeInv
<1>4. ASSUME NEW h \in held, settle_page(h.page)
      PROVE  TypeInv'
  BY <1>4, SettleProvedTypeInv, SettleUnprovedTypeInv DEF settle_page
<1>5. ASSUME NEW s \in Subscribers, NEW wanted \in Kinds, flush_copies(s, wanted)
      PROVE  TypeInv'
  BY <1>5, FlushTypeInv
<1>6. ASSUME NEW c \in flown, NEW w \in WriteOutcomes, confirm(c, w)
      PROVE  TypeInv'
  BY <1>6, ConfirmTypeInv
<1>7. ASSUME NEW c \in flown, release(c)
      PROVE  TypeInv'
  BY <1>7, ReleaseTypeInv
<1>8. ASSUME NEW threshold \in 2 .. posts + 1, NEW w \in WriteOutcomes, evict_expired(threshold, w)
      PROVE  TypeInv'
  BY <1>8, DiscardTypeInv DEF evict_expired
<1>9. ASSUME NEW s \in Subscribers, NEW r \in Routings, NEW w \in WriteOutcomes, drain_channel(s, r, w)
      PROVE  TypeInv'
  BY <1>9, DiscardTypeInv DEF drain_channel, Matching, Bucket
<1>10. CASE Restart
  BY <1>10, RestartTypeInv
<1>11. CASE UNCHANGED vars
  BY <1>11 DEF vars, TypeInv, TypeOK, PostsPast, Stored, Held
<1>12. QED
  BY <1>1, <1>2, <1>3, <1>4, <1>5, <1>6, <1>7, <1>8, <1>9, <1>10, <1>11 DEF Next

\* Every reachable state of the queue is typed, whatever the store does.
THEOREM TypeCorrect == Spec => []TypeOK
<1>1. Spec => []TypeInv
  BY InitTypeInv, NextTypeInv, PTL DEF Spec
<1>2. TypeInv => TypeOK
  BY DEF TypeInv
<1>3. QED
  BY <1>1, <1>2, PTL

-----------------------------------------------------------------------------
(***************************************************************************)
(* What is stored, as one inductive invariant.  Its parts:                 *)
(***************************************************************************)

\* The copies in flight were numbered like the entries.
CopiesNumbered == \A c \in flown : c.ticket < next_ticket

\* A copy and an entry share the ticket exactly when they share the post.
CopiesNameEntries ==
  \A c \in flown, e \in Stored :
    (e.subscriber = c.subscriber /\ e.ticket = c.ticket) <=> e.at = c.at

OneEntryPerPost == \A e, f \in Stored : e.at = f.at => e = f

\* The table's ids are distinct and follow the order of the posts.
RowsInPostOrder ==
  /\ \A r \in rows : r.id >= 1
  /\ \A q, r \in rows : q.id = r.id => q = r
  /\ \A q, r \in rows : q.id <= r.id <=> q.at <= r.at

RowOfEntry == \A e \in Stored : IF e.id = 0 THEN e.at \in unsaved ELSE Row(e) \in rows

EntryOfRow == \A r \in rows : r.at \in unsaved \/ \E e \in Stored : Row(e) = r

\* Which entry a ticket, a copy, a post and a row name, whatever the writes
\* come to.
NamesInv ==
  /\ TypeInv
  /\ TicketNamesOneEntry
  /\ CopiesNumbered
  /\ CopiesNameEntries
  /\ OneEntryPerPost
  /\ RowsInPostOrder

\* For a store whose failed transactions leave no id behind.
StoreInv ==
  /\ NamesInv
  /\ RowOfEntry
  /\ EntryOfRow
  /\ EveryPostAccounted
  /\ DeliveredStaysGone

LEMMA InitStoreInv == Init => StoreInv
<1> SUFFICES ASSUME Init
             PROVE  StoreInv
  OBVIOUS
<1>1. TypeInv
  BY InitTypeInv
<1>2. Stored = {} /\ held = {} /\ rows = {} /\ flown = {} /\ delivered = {} /\ dropped = {} /\ posts = 0
  BY DEF Init, Stored, Held
<1>3. EveryPostAccounted
  BY <1>2 DEF EveryPostAccounted
<1>4. QED
  BY <1>1, <1>2, <1>3
     DEF StoreInv, NamesInv, TicketNamesOneEntry, CopiesNumbered, CopiesNameEntries, OneEntryPerPost,
         RowsInPostOrder, RowOfEntry, EntryOfRow, DeliveredStaysGone

-----------------------------------------------------------------------------
(***************************************************************************)
(* Entries leave.                                                          *)
(***************************************************************************)

\* Deleting the rows of stored entries deletes theirs and no others.
LEMMA DeletesOwnRows ==
  ASSUME StoreInv, NEW gone \in SUBSET Stored
  PROVE  /\ \A r \in rows \ delete_rows(rows, gone) : \E e \in gone : Row(e) = r
         /\ \A f \in Stored \ gone : f.id # 0 => Row(f) \in delete_rows(rows, gone)
         /\ \A r \in delete_rows(rows, gone) : r \in rows /\ \A e \in gone : Row(e) # r
<1>1. \A e \in Stored : e.id # 0 => Row(e) \in rows
  BY DEF StoreInv, NamesInv, RowOfEntry
<1>2. \A e : Row(e).id = e.id /\ Row(e).at = e.at
  BY DEF Row
<1>3. \A r \in rows \ delete_rows(rows, gone) : \E e \in gone : Row(e) = r
  <2>1. SUFFICES ASSUME NEW r \in rows \ delete_rows(rows, gone)
                 PROVE  \E e \in gone : Row(e) = r
    OBVIOUS
  <2>2. PICK e \in gone : e.id = r.id
    BY DEF delete_rows
  <2>3. e.id # 0
    BY <2>2 DEF StoreInv, NamesInv, RowsInPostOrder, TypeInv, TypeOK, RowType
  <2>4. Row(e) \in rows /\ Row(e).id = r.id
    BY <1>1, <1>2, <2>2, <2>3
  <2>5. QED
    BY <2>4 DEF StoreInv, NamesInv, RowsInPostOrder
<1>4. ASSUME NEW f \in Stored \ gone, f.id # 0
      PROVE  Row(f) \in delete_rows(rows, gone)
  <2>1. Row(f) \in rows /\ Row(f).id = f.id
    BY <1>1, <1>2, <1>4
  <2>2. ASSUME NEW e \in gone, e.id = f.id
        PROVE  FALSE
    <3>1. Row(e) \in rows /\ Row(e).id = Row(f).id
      BY <1>1, <1>2, <1>4, <2>2
    <3>2. Row(e) = Row(f)
      BY <2>1, <3>1 DEF StoreInv, NamesInv, RowsInPostOrder
    <3>3. e.at = f.at
      BY <1>2, <3>2
    <3>4. QED
      BY <3>3, <1>4 DEF StoreInv, NamesInv, OneEntryPerPost
  <2>3. QED
    BY <2>1, <2>2 DEF delete_rows
<1>5. \A r \in delete_rows(rows, gone) : r \in rows /\ \A e \in gone : Row(e) # r
  BY <1>2 DEF delete_rows
<1>6. QED
  BY <1>3, <1>4, <1>5

\* What settling a proved page, confirming a copy, expiring and draining have
\* in common.
Leaves(gone, w) ==
  /\ gone \in SUBSET Stored
  /\ Stored' = Stored \ gone
  /\ queue' \subseteq queue
  /\ held' \subseteq held
  /\ Write(w, delete_rows(rows, gone), Ats(gone))
  /\ delivered \subseteq delivered' /\ dropped \subseteq dropped'
  /\ Ats(gone) \subseteq delivered' \cup dropped'
  /\ \A e \in Stored' : e.at \in delivered' => e.at \in delivered
  /\ \A e \in Stored' : e.at \in dropped' => e.at \in dropped
  /\ UNCHANGED <<next_ticket, flown, posts>>

LEMMA LeavesNamesInv ==
  ASSUME NamesInv, TypeInv', NEW gone, NEW w, Leaves(gone, w)
  PROVE  NamesInv'
<1>1. /\ Stored' = Stored \ gone
      /\ queue' \subseteq queue /\ held' \subseteq held
      /\ next_ticket' = next_ticket /\ flown' = flown /\ posts' = posts
  BY DEF Leaves
<1>2. rows' \subseteq rows
  BY DEF Leaves, Write, delete_rows
<1>3. TicketNamesOneEntry'
  BY <1>1 DEF NamesInv, TicketNamesOneEntry
<1>4. CopiesNumbered' /\ CopiesNameEntries' /\ OneEntryPerPost'
  BY <1>1 DEF NamesInv, CopiesNumbered, CopiesNameEntries, OneEntryPerPost
<1>5. RowsInPostOrder'
  BY <1>2 DEF NamesInv, RowsInPostOrder
<1>6. QED
  BY <1>3, <1>4, <1>5 DEF NamesInv

LEMMA LeavesStoreInv ==
  ASSUME StoreInv, TypeInv', NEW gone, NEW w, Leaves(gone, w)
  PROVE  StoreInv'
<1>1. /\ gone \in SUBSET Stored
      /\ Stored' = Stored \ gone /\ Stored' \subseteq Stored
      /\ queue' \subseteq queue /\ held' \subseteq held
      /\ next_ticket' = next_ticket /\ flown' = flown /\ posts' = posts
  BY DEF Leaves
<1>2. rows' \subseteq rows /\ unsaved \subseteq unsaved'
  BY DEF Leaves, Write, delete_rows
<1>3. NamesInv'
  BY LeavesNamesInv DEF StoreInv
<1>6. ASSUME w = "saved"
      PROVE  RowOfEntry' /\ EntryOfRow'
  <2>1. rows' = delete_rows(rows, gone) /\ unsaved' = unsaved
    BY <1>6 DEF Leaves, Write
  <2>2. RowOfEntry'
    BY <1>1, <2>1, DeletesOwnRows DEF StoreInv, NamesInv, RowOfEntry, Row
  <2>3. EntryOfRow'
    <3>1. SUFFICES ASSUME NEW r \in rows', r.at \notin unsaved'
                   PROVE  \E e \in Stored' : Row(e) = r
      BY DEF EntryOfRow, Row
    <3>2. r \in rows /\ \A e \in gone : Row(e) # r
      BY <1>1, <2>1, DeletesOwnRows
    <3>3. PICK e \in Stored : Row(e) = r
      BY <2>1, <3>1, <3>2 DEF StoreInv, NamesInv, EntryOfRow
    <3>4. QED
      BY <1>1, <3>2, <3>3
  <2>4. QED
    BY <2>2, <2>3
<1>7. ASSUME w # "saved"
      PROVE  RowOfEntry' /\ EntryOfRow'
  <2>1. rows' = rows /\ unsaved' = unsaved \cup Ats(gone)
    BY <1>7 DEF Leaves, Write
  <2>2. RowOfEntry'
    BY <1>1, <2>1 DEF StoreInv, NamesInv, RowOfEntry, Row
  <2>3. EntryOfRow'
    <3>1. SUFFICES ASSUME NEW r \in rows', r.at \notin unsaved'
                   PROVE  \E e \in Stored' : Row(e) = r
      BY DEF EntryOfRow, Row
    <3>2. PICK e \in Stored : Row(e) = r
      BY <2>1, <3>1 DEF StoreInv, NamesInv, EntryOfRow
    <3>3. e.at = r.at
      BY <3>2 DEF Row
    <3>4. e \notin gone
      BY <2>1, <3>1, <3>3 DEF Ats
    <3>5. QED
      BY <1>1, <3>2, <3>4
  <2>4. QED
    BY <2>2, <2>3
<1>8. EveryPostAccounted'
  <2>1. SUFFICES ASSUME NEW p \in (1 .. posts) \ unsaved'
                 PROVE  /\ p \in Ats(Stored') \cup delivered' \cup dropped'
                        /\ p \in dropped' => p \notin Ats(Stored')
    BY <1>1 DEF EveryPostAccounted, Ats
  <2>2. /\ p \in Ats(Stored) \cup delivered \cup dropped
        /\ p \in dropped => p \notin Ats(Stored)
    BY <1>2, <2>1 DEF StoreInv, NamesInv, EveryPostAccounted
  <2>3. p \in Ats(Stored') \cup delivered' \cup dropped'
    BY <1>1, <2>2 DEF Leaves, Ats
  <2>4. p \in dropped' => p \notin Ats(Stored')
    BY <1>1, <2>2 DEF Leaves, Ats
  <2>5. QED
    BY <2>3, <2>4
<1>9. DeliveredStaysGone'
  BY <1>1, <1>2 DEF Leaves, StoreInv, NamesInv, DeliveredStaysGone, Ats
<1>10. QED
  BY <1>3, <1>6, <1>7, <1>8, <1>9 DEF StoreInv, NamesInv

LEMMA SettleProvedLeaves ==
  ASSUME NamesInv, NEW p, NEW w, SettleProved(p, w)
  PROVE  Leaves(Page(p), w)
<1>1. Page(p) \in SUBSET Stored
  BY PageStored
<1>2. Stored' = Stored \ Page(p)
  BY DEF SettleProved, Stored, Held, Page, NamesInv, TicketNamesOneEntry
<1>3. \A e \in Stored' : e.at \in delivered' => e.at \in delivered
  <2>1. SUFFICES ASSUME NEW e \in Stored', e.at \in Ats(Page(p))
                 PROVE  FALSE
    BY DEF SettleProved
  <2>2. PICK f \in Page(p) : f.at = e.at
    BY <2>1 DEF Ats
  <2>3. QED
    BY <1>1, <1>2, <2>1, <2>2 DEF NamesInv, OneEntryPerPost
<1>4. QED
  BY <1>1, <1>2, <1>3 DEF SettleProved, Leaves

LEMMA DiscardLeaves ==
  ASSUME NamesInv, NEW gone \in SUBSET queue, NEW w, Discard(gone, w)
  PROVE  Leaves(gone, w)
<1>1. gone \in SUBSET Stored
  BY DEF Stored
<1>2. Stored' = Stored \ gone
  BY DEF Discard, Stored, Held, NamesInv, TicketNamesOneEntry
<1>3. \A e \in Stored' : e.at \in dropped' => e.at \in dropped
  <2>1. SUFFICES ASSUME NEW e \in Stored', e.at \in Ats(gone)
                 PROVE  FALSE
    BY DEF Discard
  <2>2. PICK f \in gone : f.at = e.at
    BY <2>1 DEF Ats
  <2>3. QED
    BY <1>1, <1>2, <2>1, <2>2 DEF NamesInv, OneEntryPerPost
<1>4. QED
  BY <1>1, <1>2, <1>3 DEF Discard, Leaves

\* After `confirm` nothing stored has the copy's post.
LEMMA ConfirmLeaves ==
  ASSUME NamesInv, NEW c \in flown, NEW w, confirm(c, w)
  PROVE  Leaves(Confirmed(c), w)
<1>1. /\ Confirmed(c) \in SUBSET Stored
      /\ queue' = queue \ Waiting(c) /\ held' = held \ Pulled(c)
      /\ Write(w, delete_rows(rows, Confirmed(c)), Ats(Confirmed(c)))
      /\ delivered' = delivered \cup {c.at}
      /\ UNCHANGED <<next_ticket, flown, posts, dropped>>
  BY ConfirmEffect
<1>2. \A e \in Stored : e \in Confirmed(c) <=> (e.subscriber = c.subscriber /\ e.ticket = c.ticket)
  <2>1. SUFFICES ASSUME NEW e \in Stored, e.subscriber = c.subscriber, e.ticket = c.ticket
                 PROVE  e \in Confirmed(c)
    BY DEF Confirmed, Waiting, Pulled, Bucket
  <2>2. CASE e \in queue
    BY <2>1, <2>2 DEF Confirmed, Waiting, Bucket
  <2>3. CASE e \notin queue
    <3>1. PICK h \in held : h.entry = e
      BY <2>3 DEF Stored, Held
    <3>2. Waiting(c) = {}
      <4>1. SUFFICES ASSUME NEW f \in Waiting(c) PROVE FALSE
        OBVIOUS
      <4>2. f \in queue /\ f.ticket = e.ticket
        BY <2>1 DEF Waiting, Bucket
      <4>3. QED
        BY <2>3, <4>2 DEF Stored, NamesInv, TicketNamesOneEntry
    <3>3. QED
      BY <2>1, <3>1, <3>2 DEF Confirmed, Pulled
  <2>4. QED
    BY <2>2, <2>3
<1>3. Stored' = Stored \ Confirmed(c)
  <2>1. \A e \in queue' : e \notin Confirmed(c)
    BY <1>1, <1>2 DEF Stored, Waiting, Bucket
  <2>2. \A h \in held' : h.entry \notin Confirmed(c)
    <3>1. SUFFICES ASSUME NEW h \in held, h \notin Pulled(c), h.entry \in Confirmed(c)
                   PROVE  FALSE
      BY <1>1
    <3>2. h.entry.subscriber = c.subscriber /\ h.entry.ticket = c.ticket /\ h.entry \notin queue
      BY <1>1, <1>2, <3>1 DEF NamesInv, TicketNamesOneEntry
    <3>3. PICK f \in Waiting(c) : TRUE
      BY <3>1, <3>2 DEF Pulled
    <3>4. f \in queue /\ f.ticket = h.entry.ticket
      BY <3>2, <3>3 DEF Waiting, Bucket
    <3>5. QED
      BY <3>2, <3>4 DEF Stored, Held, NamesInv, TicketNamesOneEntry
  <2>3. Waiting(c) \subseteq Confirmed(c) /\ \A h \in Pulled(c) : h.entry \in Confirmed(c)
    BY DEF Confirmed
  <2>4. QED
    BY <1>1, <2>1, <2>2, <2>3 DEF Stored, Held
<1>4. Ats(Confirmed(c)) \subseteq {c.at}
  BY <1>1, <1>2 DEF Ats, NamesInv, CopiesNameEntries
<1>5. \A e \in Stored' : e.at # c.at
  BY <1>2, <1>3 DEF NamesInv, CopiesNameEntries
<1>6. QED
  BY <1>1, <1>3, <1>4, <1>5 DEF Leaves

-----------------------------------------------------------------------------
(***************************************************************************)
(* Entries move between buckets and pages.                                 *)
(***************************************************************************)

\* The entry e, in whatever place.
SameEntry(e, x) ==
  /\ x.subscriber = e.subscriber /\ x.routing = e.routing
  /\ x.at = e.at /\ x.id = e.id /\ x.ticket = e.ticket

Moves ==
  /\ \A x \in Stored' : \E e \in Stored : SameEntry(e, x)
  /\ \A e \in Stored : \E x \in Stored' : SameEntry(e, x)
  /\ TicketNamesOneEntry'
  /\ UNCHANGED <<next_ticket, rows, flown, posts, delivered, dropped, unsaved>>

LEMMA MovesNamesInv ==
  ASSUME NamesInv, TypeInv', Moves
  PROVE  NamesInv'
<1>1. /\ \A x \in Stored' : \E e \in Stored : SameEntry(e, x)
      /\ \A e \in Stored : \E x \in Stored' : SameEntry(e, x)
      /\ TicketNamesOneEntry'
      /\ UNCHANGED <<next_ticket, rows, flown, posts, delivered, dropped, unsaved>>
  BY DEF Moves
<1>2. CopiesNumbered' /\ RowsInPostOrder'
  BY <1>1 DEF NamesInv, CopiesNumbered, RowsInPostOrder
<1>3. CopiesNameEntries'
  BY <1>1 DEF NamesInv, CopiesNameEntries, SameEntry
<1>4. OneEntryPerPost'
  <2>1. SUFFICES ASSUME NEW x \in Stored', NEW y \in Stored', x.at = y.at
                 PROVE  x = y
    BY DEF OneEntryPerPost
  <2>2. PICK e \in Stored, f \in Stored : SameEntry(e, x) /\ SameEntry(f, y)
    BY <1>1
  <2>3. e = f
    BY <2>1, <2>2 DEF SameEntry, NamesInv, OneEntryPerPost
  <2>4. x.ticket = y.ticket
    BY <2>2, <2>3 DEF SameEntry
  <2>5. QED
    BY <1>1, <2>4 DEF TicketNamesOneEntry
<1>5. QED
  BY <1>1, <1>2, <1>3, <1>4 DEF NamesInv

LEMMA MovesStoreInv ==
  ASSUME StoreInv, TypeInv', Moves
  PROVE  StoreInv'
<1>1. /\ \A x \in Stored' : \E e \in Stored : SameEntry(e, x)
      /\ \A e \in Stored : \E x \in Stored' : SameEntry(e, x)
      /\ TicketNamesOneEntry'
      /\ UNCHANGED <<next_ticket, rows, flown, posts, delivered, dropped, unsaved>>
  BY DEF Moves
<1>2. \A e, x : SameEntry(e, x) => Row(e) = Row(x)
  BY DEF SameEntry, Row
<1>3. NamesInv'
  BY MovesNamesInv DEF StoreInv
<1>6. RowOfEntry'
  <2>1. SUFFICES ASSUME NEW x \in Stored'
                 PROVE  IF x.id = 0 THEN x.at \in unsaved' ELSE Row(x) \in rows'
    BY DEF RowOfEntry, Row
  <2>2. PICK e \in Stored : SameEntry(e, x)
    BY <1>1
  <2>3. Row(e) = Row(x) /\ e.id = x.id /\ e.at = x.at
    BY <1>2, <2>2 DEF SameEntry
  <2>4. QED
    BY <1>1, <2>3 DEF StoreInv, NamesInv, RowOfEntry
<1>7. EntryOfRow'
  <2>1. SUFFICES ASSUME NEW r \in rows, r.at \notin unsaved
                 PROVE  \E x \in Stored' : Row(x) = r
    BY <1>1 DEF EntryOfRow, Row
  <2>2. PICK e \in Stored : Row(e) = r
    BY <2>1 DEF StoreInv, NamesInv, EntryOfRow
  <2>3. QED
    BY <1>1, <1>2, <2>2
<1>8. Ats(Stored') = Ats(Stored)
  BY <1>1 DEF Ats, SameEntry
<1>9. EveryPostAccounted' /\ DeliveredStaysGone'
  BY <1>1, <1>8 DEF StoreInv, NamesInv, EveryPostAccounted, DeliveredStaysGone, Ats
<1>10. QED
  BY <1>3, <1>6, <1>7, <1>9 DEF StoreInv, NamesInv

LEMMA TakeMoves ==
  ASSUME NamesInv, NEW s \in Subscribers, NEW wanted \in Kinds, take_page(s, wanted)
  PROVE  Moves
<1>1. PICK page \in SUBSET Matching(s, wanted) :
        /\ queue' = queue \ page
        /\ held' = held \cup {[page |-> next_page, entry |-> e] : e \in page}
  BY DEF take_page
<1>2. page \subseteq queue
  BY DEF Matching, Bucket
<1>3. UNCHANGED <<next_ticket, rows, flown, posts, delivered, dropped, unsaved>>
  BY DEF take_page, history
<1>4. Stored' = Stored
  <2>1. ASSUME NEW e \in page PROVE e \in Held'
    <3> DEFINE h == [page |-> next_page, entry |-> e]
    <3>1. h \in held' /\ h.entry = e
      BY <1>1
    <3> HIDE DEF h
    <3>2. QED
      BY <3>1 DEF Held
  <2>2. \A x \in Held' : x \in Held \/ x \in page
    BY <1>1 DEF Held
  <2>3. Held \subseteq Held'
    BY <1>1 DEF Held
  <2>4. QED
    BY <1>1, <1>2, <2>1, <2>2, <2>3 DEF Stored
<1>5. TicketNamesOneEntry'
  BY <1>1, <1>2, <1>3, <1>4 DEF NamesInv, TicketNamesOneEntry
<1>6. QED
  BY <1>3, <1>4, <1>5 DEF Moves, SameEntry

LEMMA SettleUnprovedMoves ==
  ASSUME NamesInv, NEW p, SettleUnproved(p)
  PROVE  Moves
<1>1. PICK s \in Subscribers : \E d \in Shifts(Page(p), Bucket(s)) :
        queue' = queue \cup MovedBack(Page(p), d)
  BY DEF SettleUnproved
<1>2. PICK d \in Shifts(Page(p), Bucket(s)) :
        queue' = queue \cup MovedBack(Page(p), d)
  BY <1>1
<1>3. Page(p) \in SUBSET Entry /\ Bucket(s) \in SUBSET Entry
  BY DEF NamesInv, TypeInv, TypeOK, HeldEntry, Page, Bucket
<1>4. d \in Int
  BY <1>3 DEF Shifts, Entry
<1> DEFINE Back(e) == [e EXCEPT !.place = e.place - d]
<1>5. MovedBack(Page(p), d) = {Back(e) : e \in Page(p)}
  BY DEF MovedBack
<1>6. \A e \in Entry : SameEntry(e, Back(e))
  BY <1>4 DEF Entry, SameEntry
<1> HIDE DEF Back
<1>7. /\ held' = {h \in held : h.page # p}
      /\ UNCHANGED <<next_ticket, rows, flown, posts, delivered, dropped, unsaved>>
  BY DEF SettleUnproved, history
<1>8. \A x \in Stored' : \/ \E e \in Page(p) : x \in queue' /\ x = Back(e) /\ SameEntry(e, x)
                         \/ x \in Stored /\ x \notin Page(p)
  <2>1. \A x \in queue : x \notin Page(p)
    BY DEF Page, NamesInv, TicketNamesOneEntry
  <2>2. \A h \in held' : h.entry \notin Page(p)
    BY <1>7 DEF Page, NamesInv, TicketNamesOneEntry
  <2>3. QED
    BY <1>2, <1>3, <1>5, <1>6, <1>7, <2>1, <2>2 DEF Stored, Held
<1>9. \A x \in Stored' : \E e \in Stored : SameEntry(e, x)
  BY <1>8, PageStored DEF SameEntry
<1>10. \A e \in Stored : \E x \in Stored' : SameEntry(e, x)
  <2>1. SUFFICES ASSUME NEW e \in Stored PROVE \E x \in Stored' : SameEntry(e, x)
    OBVIOUS
  <2>2. CASE e \in Page(p)
    BY <1>2, <1>3, <1>5, <1>6, <2>2 DEF Stored
  <2>3. CASE e \notin Page(p)
    BY <1>2, <1>7, <2>3 DEF Stored, Held, Page, SameEntry
  <2>4. QED
    BY <2>2, <2>3
<1>11. TicketNamesOneEntry'
  <2>1. \A x, y \in Stored' : x.ticket = y.ticket => x = y
    <3>1. SUFFICES ASSUME NEW x \in Stored', NEW y \in Stored', x.ticket = y.ticket
                   PROVE  x = y
      OBVIOUS
    <3>2. CASE \E e \in Page(p) : x = Back(e) /\ SameEntry(e, x)
      BY <1>8, <3>1, <3>2, PageStored DEF SameEntry, NamesInv, TicketNamesOneEntry
    <3>3. CASE x \in Stored /\ x \notin Page(p)
      BY <1>8, <3>1, <3>3, PageStored DEF SameEntry, NamesInv, TicketNamesOneEntry
    <3>4. QED
      BY <1>8, <3>2, <3>3
  <2>2. \A h \in held' : h.entry \notin queue'
    <3>1. SUFFICES ASSUME NEW h \in held', h.entry \in queue'
                   PROVE  FALSE
      OBVIOUS
    <3>2. h \in held /\ h.page # p /\ h.entry \notin queue /\ h.entry \in Stored
      BY <1>7 DEF NamesInv, TicketNamesOneEntry, Stored, Held
    <3>3. PICK e \in Page(p) : h.entry = Back(e)
      BY <1>2, <1>5, <3>1, <3>2
    <3>4. SameEntry(e, h.entry) /\ e \in Stored
      BY <1>3, <1>6, <3>3, PageStored
    <3>5. e = h.entry
      BY <3>2, <3>4 DEF SameEntry, NamesInv, TicketNamesOneEntry
    <3>6. PICK g \in held : g.page = p /\ g.entry = h.entry
      BY <3>5 DEF Page
    <3>7. QED
      BY <3>2, <3>6 DEF NamesInv, TicketNamesOneEntry
  <2>3. \A x \in Stored' : x.ticket < next_ticket'
    BY <1>7, <1>9 DEF SameEntry, NamesInv, TicketNamesOneEntry
  <2>4. \A g, h \in held' : g.entry = h.entry => g = h
    BY <1>7 DEF NamesInv, TicketNamesOneEntry
  <2>5. QED
    BY <2>1, <2>2, <2>3, <2>4 DEF TicketNamesOneEntry
<1>12. QED
  BY <1>7, <1>9, <1>10, <1>11 DEF Moves

LEMMA ReleaseMoves ==
  ASSUME NamesInv, NEW c \in flown, release(c)
  PROVE  Moves
BY DEF release, store, history, Moves, SameEntry, NamesInv, TicketNamesOneEntry, Stored, Held

\* A flush only adds copies, each named like the entry it was made from.
LEMMA FlushNamesInv ==
  ASSUME NamesInv, TypeInv', NEW s \in Subscribers, NEW wanted \in Kinds, flush_copies(s, wanted)
  PROVE  NamesInv'
<1> DEFINE copies == {e \in Matching(s, wanted) : e.ticket \notin in_flight}
<1>1. /\ flown' = flown \cup {[subscriber |-> s, ticket |-> e.ticket, at |-> e.at] : e \in copies}
      /\ UNCHANGED <<queue, held, rows, next_page, next_ticket, posts, delivered, dropped, unsaved>>
  BY DEF flush_copies, store, history
<1>2. \A e \in copies : e \in queue /\ e \in Stored /\ e.subscriber = s
  BY DEF Matching, Bucket, Stored
<1> HIDE DEF copies
<1>3. Stored' = Stored
  BY <1>1 DEF Stored, Held
<1>4. \A c \in flown' : c \in flown \/ \E e \in copies : c.subscriber = s /\ c.ticket = e.ticket /\ c.at = e.at
  BY <1>1
<1>5. CopiesNumbered'
  BY <1>1, <1>2, <1>4 DEF NamesInv, CopiesNumbered, TicketNamesOneEntry
<1>6. CopiesNameEntries'
  <2>1. SUFFICES ASSUME NEW c \in flown', NEW f \in Stored
                 PROVE  (f.subscriber = c.subscriber /\ f.ticket = c.ticket) <=> f.at = c.at
    BY <1>3 DEF CopiesNameEntries
  <2>2. CASE c \in flown
    BY <2>2 DEF NamesInv, CopiesNameEntries
  <2>3. CASE \E e \in copies : c.subscriber = s /\ c.ticket = e.ticket /\ c.at = e.at
    <3>1. PICK e \in copies : c.subscriber = s /\ c.ticket = e.ticket /\ c.at = e.at
      BY <2>3
    <3>2. e \in Stored /\ e.subscriber = s
      BY <1>2
    <3>3. f.ticket = e.ticket => f = e
      BY <3>2 DEF NamesInv, TicketNamesOneEntry
    <3>4. f.at = e.at => f = e
      BY <3>2 DEF NamesInv, OneEntryPerPost
    <3>5. QED
      BY <3>1, <3>2, <3>3, <3>4
  <2>4. QED
    BY <1>4, <2>2, <2>3
<1>7. TicketNamesOneEntry' /\ OneEntryPerPost' /\ RowsInPostOrder'
  BY <1>1, <1>3 DEF NamesInv, TicketNamesOneEntry, OneEntryPerPost, RowsInPostOrder
<1>8. QED
  BY <1>5, <1>6, <1>7 DEF NamesInv

LEMMA FlushStoreInv ==
  ASSUME StoreInv, TypeInv', NEW s \in Subscribers, NEW wanted \in Kinds, flush_copies(s, wanted)
  PROVE  StoreInv'
<1>1. UNCHANGED <<queue, held, rows, posts, delivered, dropped, unsaved>>
  BY DEF flush_copies, store, history
<1>2. NamesInv'
  BY FlushNamesInv DEF StoreInv
<1>3. Stored' = Stored
  BY <1>1 DEF Stored, Held
<1>4. RowOfEntry' /\ EntryOfRow'
  BY <1>1, <1>3 DEF StoreInv, RowOfEntry, EntryOfRow, Row
<1>5. EveryPostAccounted' /\ DeliveredStaysGone'
  BY <1>1, <1>3 DEF StoreInv, EveryPostAccounted, DeliveredStaysGone, Ats
<1>6. QED
  BY <1>2, <1>4, <1>5 DEF StoreInv

-----------------------------------------------------------------------------
(***************************************************************************)
(* A blob comes.                                                           *)
(***************************************************************************)

LEMMA RefusedNamesInv ==
  ASSUME NamesInv, TypeInv', NEW s \in Subscribers, EnqueueRefused(s)
  PROVE  NamesInv'
<1>1. /\ posts' = posts + 1 /\ dropped' = dropped \cup {posts + 1}
      /\ UNCHANGED <<queue, held, rows, next_ticket, flown, delivered, unsaved>>
  BY DEF EnqueueRefused, store
<1>2. Stored' = Stored
  BY <1>1 DEF Stored, Held
<1>3. posts \in Nat /\ \A e \in Stored : e.at \in 1 .. posts
  BY DEF NamesInv, TypeInv, TypeOK, PostsPast
<1>4. TicketNamesOneEntry' /\ OneEntryPerPost' /\ RowsInPostOrder' /\ CopiesNumbered' /\ CopiesNameEntries'
  BY <1>1, <1>2 DEF NamesInv, TicketNamesOneEntry, OneEntryPerPost, RowsInPostOrder,
                    CopiesNumbered, CopiesNameEntries
<1>5. QED
  BY <1>4 DEF NamesInv

LEMMA RefusedStoreInv ==
  ASSUME StoreInv, TypeInv', NEW s \in Subscribers, EnqueueRefused(s)
  PROVE  StoreInv'
<1>1. /\ posts' = posts + 1 /\ dropped' = dropped \cup {posts + 1}
      /\ UNCHANGED <<queue, held, rows, next_ticket, flown, delivered, unsaved>>
  BY DEF EnqueueRefused, store
<1>2. Stored' = Stored
  BY <1>1 DEF Stored, Held
<1>3. posts \in Nat /\ \A e \in Stored : e.at \in 1 .. posts
  BY DEF StoreInv, NamesInv, TypeInv, TypeOK, PostsPast
<1>4. NamesInv'
  BY RefusedNamesInv DEF StoreInv
<1>5. RowOfEntry' /\ EntryOfRow' /\ DeliveredStaysGone'
  BY <1>1, <1>2 DEF StoreInv, NamesInv, RowOfEntry, EntryOfRow, DeliveredStaysGone, Row, Ats
<1>6. EveryPostAccounted'
  <2>1. SUFFICES ASSUME NEW p \in (1 .. posts + 1) \ unsaved
                 PROVE  /\ p \in Ats(Stored) \cup delivered \cup dropped'
                        /\ p \in dropped' => p \notin Ats(Stored)
    BY <1>1, <1>2 DEF EveryPostAccounted, Ats
  <2>2. CASE p = posts + 1
    BY <1>1, <1>3, <2>2 DEF Ats
  <2>3. CASE p \in 1 .. posts
    BY <1>1, <1>3, <2>1, <2>3 DEF StoreInv, NamesInv, EveryPostAccounted
  <2>4. QED
    BY <1>3, <2>2, <2>3
<1>7. QED
  BY <1>4, <1>5, <1>6 DEF StoreInv, NamesInv

\* What an enqueue that takes the blob does to the store.
Admits(entry, evicted, w) ==
  /\ evicted \in SUBSET queue
  /\ queue' = (queue \ evicted) \cup {entry}
  /\ held' = held
  /\ entry.at = posts + 1
  /\ entry.ticket = next_ticket /\ entry.place = next_ticket
  /\ next_ticket' = next_ticket + 1
  /\ entry.id \in IdAfter(w, delete_rows(rows, evicted))
  /\ w \in WriteOutcomes
  /\ Write(w, delete_rows(rows, evicted) \cup {Row(entry)}, {posts + 1} \cup Ats(evicted))
  /\ posts' = posts + 1
  /\ dropped' = dropped \cup Ats(evicted)
  /\ UNCHANGED <<flown, delivered>>

LEMMA AdmitAdmits ==
  ASSUME NEW s \in Subscribers, NEW r \in Routings, NEW evicted \in SUBSET queue,
         NEW w \in WriteOutcomes, Admit(s, r, evicted, w)
  PROVE  \E entry : Admits(entry, evicted, w)
<1>1. PICK id \in IdAfter(w, delete_rows(rows, evicted)) :
        LET entry == [subscriber |-> s, routing |-> r, at |-> posts + 1, id |-> id,
                      ticket |-> next_ticket, place |-> next_ticket]
        IN  /\ queue' = (queue \ evicted) \cup {entry}
            /\ next_ticket' = next_ticket + 1
            /\ Write(w, delete_rows(rows, evicted) \cup {Row(entry)}, {posts + 1} \cup Ats(evicted))
            /\ posts' = posts + 1
            /\ dropped' = dropped \cup Ats(evicted)
            /\ UNCHANGED <<held, next_page, in_flight, flown, delivered>>
  BY DEF Admit
<1> DEFINE entry == [subscriber |-> s, routing |-> r, at |-> posts + 1, id |-> id,
                     ticket |-> next_ticket, place |-> next_ticket]
<1>2. entry.at = posts + 1 /\ entry.ticket = next_ticket /\ entry.place = next_ticket /\ entry.id = id
  OBVIOUS
<1>3. /\ queue' = (queue \ evicted) \cup {entry}
      /\ next_ticket' = next_ticket + 1
      /\ Write(w, delete_rows(rows, evicted) \cup {Row(entry)}, {posts + 1} \cup Ats(evicted))
      /\ posts' = posts + 1
      /\ dropped' = dropped \cup Ats(evicted)
      /\ UNCHANGED <<held, next_page, in_flight, flown, delivered>>
  BY <1>1
<1> HIDE DEF entry
<1>4. Admits(entry, evicted, w)
  BY <1>2, <1>3 DEF Admits
<1>5. QED
  BY <1>4

LEMMA AdmitsNamesInv ==
  ASSUME NamesInv, TypeInv', NEW entry, NEW evicted, NEW w, Admits(entry, evicted, w)
  PROVE  NamesInv'
<1> DEFINE kept == delete_rows(rows, evicted)
<1>1. /\ evicted \in SUBSET queue /\ evicted \in SUBSET Stored
      /\ queue' = (queue \ evicted) \cup {entry} /\ held' = held
      /\ entry.at = posts + 1 /\ entry.ticket = next_ticket /\ entry.id \in IdAfter(w, kept)
      /\ Write(w, kept \cup {Row(entry)}, {posts + 1} \cup Ats(evicted))
      /\ UNCHANGED <<flown, delivered>>
  BY DEF Admits, Stored
<1>2. next_ticket' = next_ticket + 1 /\ posts' = posts + 1
  BY DEF Admits
<1>3. /\ posts \in Nat /\ next_ticket \in Nat
      /\ \A e \in Stored : e.at \in 1 .. posts
      /\ \A r \in rows : r.at \in 1 .. posts /\ r.id \in Nat
  BY DEF NamesInv, TypeInv, TypeOK, PostsPast, RowType
<1>4. Stored' = (Stored \ evicted) \cup {entry}
  <2>1. \A e \in Held : e \notin queue
    BY DEF Held, NamesInv, TicketNamesOneEntry
  <2>2. QED
    BY <1>1, <2>1 DEF Stored, Held
<1>5. \A e \in Stored : e.at # posts + 1 /\ e.at # entry.at /\ e # entry
  BY <1>1, <1>3
<1>6. Row(entry).id = entry.id /\ Row(entry).at = posts + 1
  BY <1>1 DEF Row
<1>7. kept \subseteq rows
  BY DEF delete_rows
<1>8. w = "saved" => entry.id \in Nat /\ entry.id >= 1 /\ \A r \in kept : r.id < entry.id
  <2>1. SUFFICES ASSUME w = "saved" PROVE entry.id \in NewIds(kept)
    BY <1>1, NewIdsAbove, DeleteRowsTypes DEF NamesInv
  <2>2. QED
    BY <1>1, <2>1 DEF IdAfter
<1>10. rows' = IF w = "saved" THEN kept \cup {Row(entry)} ELSE rows
  BY <1>1 DEF Write
<1> HIDE DEF kept
<1>11. TicketNamesOneEntry'
  <2>1. \A x, y \in Stored' : x.ticket = y.ticket => x = y
    BY <1>1, <1>3, <1>4 DEF NamesInv, TicketNamesOneEntry
  <2>2. \A g, h \in held' : g.entry = h.entry => g = h
    BY <1>1 DEF NamesInv, TicketNamesOneEntry
  <2>3. \A h \in held' : h.entry \notin queue'
    BY <1>1, <1>5 DEF NamesInv, TicketNamesOneEntry, Stored, Held
  <2>4. \A x \in Stored' : x.ticket < next_ticket'
    <3>1. \A x \in Stored : x.ticket \in Nat
      BY DEF NamesInv, TypeInv, TypeOK, Stored, Held, Entry, HeldEntry
    <3>2. QED
      BY <1>1, <1>2, <1>3, <1>4, <3>1 DEF NamesInv, TicketNamesOneEntry
  <2>5. QED
    BY <2>1, <2>2, <2>3, <2>4 DEF TicketNamesOneEntry
<1>12. CopiesNumbered' /\ CopiesNameEntries'
  <2>1. \A c \in flown : c.ticket \in Nat /\ c.ticket < next_ticket /\ c.at \in 1 .. posts
    BY DEF NamesInv, CopiesNumbered, TypeInv, TypeOK, PostsPast, Copy
  <2>2. CopiesNumbered'
    BY <1>1, <1>2, <1>3, <2>1 DEF CopiesNumbered
  <2>3. CopiesNameEntries'
    BY <1>1, <1>3, <1>4, <2>1 DEF NamesInv, CopiesNameEntries
  <2>4. QED
    BY <2>2, <2>3
<1>13. OneEntryPerPost'
  BY <1>4, <1>5 DEF NamesInv, OneEntryPerPost
<1>14. RowsInPostOrder'
  <2>1. CASE w = "saved"
    <3>1. \A r \in rows' : r.id >= 1
      BY <1>6, <1>7, <1>8, <1>10, <2>1 DEF NamesInv, RowsInPostOrder
    <3>2. \A q, r \in rows' : q.id = r.id => q = r
      BY <1>3, <1>6, <1>7, <1>8, <1>10, <2>1 DEF NamesInv, RowsInPostOrder
    <3>3. \A q, r \in rows' : q.id <= r.id <=> q.at <= r.at
      BY <1>3, <1>6, <1>7, <1>8, <1>10, <2>1 DEF NamesInv, RowsInPostOrder
    <3>4. QED
      BY <3>1, <3>2, <3>3 DEF RowsInPostOrder
  <2>2. CASE w # "saved"
    BY <1>10, <2>2 DEF NamesInv, RowsInPostOrder
  <2>3. QED
    BY <1>1, <2>1, <2>2
<1>15. QED
  BY <1>11, <1>12, <1>13, <1>14 DEF NamesInv

LEMMA AdmitsStoreInv ==
  ASSUME StoreInv, TypeInv', NEW entry, NEW evicted, NEW w, Admits(entry, evicted, w),
         "uncommitted" \notin WriteOutcomes
  PROVE  StoreInv'
<1> DEFINE kept == delete_rows(rows, evicted)
<1>1. /\ evicted \in SUBSET queue /\ evicted \in SUBSET Stored
      /\ queue' = (queue \ evicted) \cup {entry} /\ held' = held
      /\ entry.at = posts + 1 /\ entry.ticket = next_ticket /\ entry.id \in IdAfter(w, kept)
      /\ w \in {"saved", "refused"}
      /\ Write(w, kept \cup {Row(entry)}, {posts + 1} \cup Ats(evicted))
      /\ UNCHANGED <<flown, delivered>>
  BY ConstantsAssumption DEF Admits, Stored, Outcomes
<1>2. next_ticket' = next_ticket + 1 /\ posts' = posts + 1 /\ dropped' = dropped \cup Ats(evicted)
  BY DEF Admits
<1>3. /\ posts \in Nat /\ next_ticket \in Nat
      /\ \A e \in Stored : e.at \in 1 .. posts
      /\ \A r \in rows : r.at \in 1 .. posts /\ r.id \in Nat
      /\ delivered \subseteq 1 .. posts /\ dropped \subseteq 1 .. posts
  BY DEF StoreInv, NamesInv, TypeInv, TypeOK, PostsPast, RowType
<1>4. Stored' = (Stored \ evicted) \cup {entry}
  <2>1. \A e \in Held : e \notin queue
    BY DEF Held, StoreInv, NamesInv, TicketNamesOneEntry
  <2>2. QED
    BY <1>1, <2>1 DEF Stored, Held
<1>5. \A e \in Stored : e.at # posts + 1 /\ e.at # entry.at /\ e # entry
  BY <1>1, <1>3
<1>6. Row(entry).id = entry.id /\ Row(entry).at = posts + 1 /\ \A e : Row(e).at = e.at /\ Row(e).id = e.id
  BY <1>1 DEF Row
<1>7. /\ \A f \in Stored \ evicted : f.id # 0 => Row(f) \in kept
      /\ \A r \in kept : r \in rows /\ \A e \in evicted : Row(e) # r
  BY <1>1, DeletesOwnRows
<1>8. w = "saved" => entry.id \in Nat /\ entry.id >= 1 /\ \A r \in kept : r.id < entry.id
  <2>1. SUFFICES ASSUME w = "saved" PROVE entry.id \in NewIds(kept)
    BY <1>1, NewIdsAbove, DeleteRowsTypes DEF StoreInv, NamesInv
  <2>2. QED
    BY <1>1, <2>1 DEF IdAfter
<1>9. w = "refused" => entry.id = 0
  BY <1>1 DEF IdAfter
<1>10. /\ w = "saved" => rows' = kept \cup {Row(entry)} /\ unsaved' = unsaved
       /\ w = "refused" => rows' = rows /\ unsaved' = unsaved \cup {posts + 1} \cup Ats(evicted)
  BY <1>1 DEF Write
<1> HIDE DEF kept
<1>11. NamesInv'
  BY AdmitsNamesInv DEF StoreInv
<1>15. RowOfEntry'
  <2>1. SUFFICES ASSUME NEW x \in Stored'
                 PROVE  IF x.id = 0 THEN x.at \in unsaved' ELSE Row(x) \in rows'
    BY DEF RowOfEntry, Row
  <2>2. CASE w = "saved"
    BY <1>4, <1>7, <1>8, <1>10, <2>1, <2>2 DEF StoreInv, NamesInv, RowOfEntry
  <2>3. CASE w = "refused"
    BY <1>1, <1>4, <1>9, <1>10, <2>1, <2>3 DEF StoreInv, NamesInv, RowOfEntry
  <2>4. QED
    BY <1>1, <2>2, <2>3
<1>16. EntryOfRow'
  <2>1. SUFFICES ASSUME NEW r \in rows', r.at \notin unsaved'
                 PROVE  \E e \in Stored' : Row(e) = r
    BY DEF EntryOfRow, Row
  <2>2. CASE r = Row(entry)
    BY <1>4, <2>2
  <2>3. CASE r # Row(entry) /\ r \in rows
    <3>1. PICK e \in Stored : Row(e) = r
      BY <1>1, <1>10, <2>1, <2>3 DEF StoreInv, NamesInv, EntryOfRow
    <3>2. e \notin evicted
      BY <1>1, <1>6, <1>7, <1>10, <2>1, <2>3, <3>1 DEF Ats
    <3>3. QED
      BY <1>4, <3>1, <3>2
  <2>4. QED
    BY <1>1, <1>7, <1>10, <2>1, <2>2, <2>3
<1>17. EveryPostAccounted'
  <2>1. SUFFICES ASSUME NEW p \in (1 .. posts + 1) \ unsaved'
                 PROVE  /\ p \in Ats(Stored') \cup delivered \cup dropped'
                        /\ p \in dropped' => p \notin Ats(Stored')
    BY <1>1, <1>2 DEF EveryPostAccounted, Ats
  <2>2. Ats(evicted) \subseteq 1 .. posts /\ unsaved \subseteq unsaved'
    BY <1>1, <1>3, <1>10 DEF Ats
  <2>3. CASE p = posts + 1
    BY <1>1, <1>2, <1>3, <1>4, <2>2, <2>3 DEF Ats
  <2>4. CASE p \in 1 .. posts
    <3>1. /\ p \in Ats(Stored) \cup delivered \cup dropped
          /\ p \in dropped => p \notin Ats(Stored)
      BY <2>1, <2>2, <2>4 DEF StoreInv, NamesInv, EveryPostAccounted
    <3>2. p \in Ats(Stored') \cup delivered \cup dropped'
      BY <1>2, <1>4, <3>1 DEF Ats
    <3>3. p \in Ats(evicted) => p \notin Ats(Stored \ evicted)
      BY <1>1 DEF Ats, StoreInv, NamesInv, OneEntryPerPost
    <3>4. p # entry.at
      BY <1>1, <1>3, <2>4
    <3>5. p \in dropped' => p \notin Ats(Stored')
      BY <1>2, <1>4, <3>1, <3>3, <3>4 DEF Ats
    <3>6. QED
      BY <3>2, <3>5
  <2>5. QED
    BY <1>3, <2>3, <2>4
<1>18. DeliveredStaysGone'
  BY <1>1, <1>3, <1>4, <1>5, <1>10 DEF StoreInv, NamesInv, DeliveredStaysGone, Ats
<1>19. QED
  BY <1>11, <1>15, <1>16, <1>17, <1>18 DEF StoreInv, NamesInv

-----------------------------------------------------------------------------
(***************************************************************************)
(* The process restarts.                                                   *)
(***************************************************************************)

\* Rows with smaller ids rank lower: `load` gives no two entries one ticket.
LEMMA RanksDistinct ==
  ASSUME NamesInv, NEW q \in rows, NEW r \in rows, q.id < r.id
  PROVE  Loaded(q).ticket < Loaded(r).ticket
<1> DEFINE below(x) == {y \in rows : y.id <= x.id}
<1>1. IsFiniteSet(rows) /\ \A x \in rows : x.id \in Nat
  BY DEF NamesInv, TypeInv, TypeOK, PostsPast, RowType
<1>2. IsFiniteSet(below(q)) /\ IsFiniteSet(below(r))
  BY <1>1, FS_Subset
<1>3. below(q) \in SUBSET below(r) /\ r \in below(r) /\ r \notin below(q)
  BY <1>1
<1> HIDE DEF below
<1>4. Cardinality(below(q)) <= Cardinality(below(r)) /\ Cardinality(below(q)) # Cardinality(below(r))
  BY <1>2, <1>3, FS_Subset
<1>5. Cardinality(below(q)) \in Nat /\ Cardinality(below(r)) \in Nat
  BY <1>2, FS_CardinalityType
<1>6. Loaded(q).ticket = Cardinality(below(q)) /\ Loaded(r).ticket = Cardinality(below(r))
  BY DEF Loaded, below
<1>7. QED
  BY <1>4, <1>5, <1>6

\* A loaded entry's row is the one it was loaded from.
LEMMA LoadedRow ==
  ASSUME TypeInv, NEW r \in rows
  PROVE  Row(Loaded(r)) = r /\ Loaded(r).id = r.id /\ Loaded(r).at = r.at
<1>1. r \in RowType
  BY DEF TypeInv, TypeOK
<1>2. /\ Loaded(r).subscriber = r.subscriber /\ Loaded(r).routing = r.routing
      /\ Loaded(r).at = r.at /\ Loaded(r).id = r.id
  BY DEF Loaded
<1>3. QED
  BY <1>1, <1>2 DEF Row, RowType

LEMMA RestartNamesInv ==
  ASSUME NamesInv, TypeInv', Restart
  PROVE  NamesInv'
<1>1. /\ queue' = {Loaded(r) : r \in rows}
      /\ held' = {} /\ flown' = {} /\ next_ticket' = Cardinality(rows) + 1
      /\ UNCHANGED <<rows, posts, delivered, dropped, unsaved>>
  BY DEF Restart, history
<1>2. Stored' = {Loaded(r) : r \in rows}
  BY <1>1 DEF Stored, Held
<1>3. \A r \in rows : /\ Row(Loaded(r)) = r /\ Loaded(r).id = r.id /\ Loaded(r).at = r.at
                      /\ Loaded(r).ticket \in Nat /\ Loaded(r).ticket < Cardinality(rows) + 1
  BY LoadedRow, RankBounded DEF NamesInv
<1>4. \A r \in rows : r.id \in Nat /\ r.id >= 1 /\ r.at \in Nat
  BY DEF NamesInv, RowsInPostOrder, TypeInv, TypeOK, RowType
<1>5. TicketNamesOneEntry'
  <2>1. ASSUME NEW q \in rows, NEW r \in rows, Loaded(q).ticket = Loaded(r).ticket
        PROVE  q = r
    <3>1. ~(q.id < r.id) /\ ~(r.id < q.id)
      BY <1>3, <2>1, RanksDistinct
    <3>2. q.id = r.id
      BY <1>4, <3>1
    <3>3. QED
      BY <3>2 DEF NamesInv, RowsInPostOrder
  <2>2. \A x, y \in Stored' : x.ticket = y.ticket => x = y
    BY <1>2, <2>1
  <2>3. \A x \in Stored' : x.ticket < next_ticket'
    BY <1>1, <1>2, <1>3
  <2>4. QED
    BY <1>1, <2>2, <2>3 DEF TicketNamesOneEntry
<1>6. CopiesNumbered' /\ CopiesNameEntries'
  BY <1>1 DEF CopiesNumbered, CopiesNameEntries
<1>7. OneEntryPerPost'
  <2>1. ASSUME NEW q \in rows, NEW r \in rows, q.at = r.at
        PROVE  q = r
    BY <1>4, <2>1 DEF NamesInv, RowsInPostOrder
  <2>2. QED
    BY <1>2, <1>3, <2>1 DEF OneEntryPerPost
<1>8. RowsInPostOrder'
  BY <1>1 DEF NamesInv, RowsInPostOrder
<1>9. QED
  BY <1>5, <1>6, <1>7, <1>8 DEF NamesInv

LEMMA RestartStoreInv ==
  ASSUME StoreInv, TypeInv', Restart
  PROVE  StoreInv'
<1>1. /\ queue' = {Loaded(r) : r \in rows}
      /\ held' = {} /\ flown' = {} /\ next_ticket' = Cardinality(rows) + 1
      /\ UNCHANGED <<rows, posts, delivered, dropped, unsaved>>
  BY DEF Restart, history
<1>2. Stored' = {Loaded(r) : r \in rows}
  BY <1>1 DEF Stored, Held
<1>3. \A r \in rows : /\ Row(Loaded(r)) = r /\ Loaded(r).id = r.id /\ Loaded(r).at = r.at
                      /\ Loaded(r).ticket \in Nat /\ Loaded(r).ticket < Cardinality(rows) + 1
  BY LoadedRow, RankBounded DEF StoreInv, NamesInv
<1>4. \A r \in rows : r.id \in Nat /\ r.id >= 1 /\ r.at \in Nat
  BY DEF StoreInv, NamesInv, RowsInPostOrder, TypeInv, TypeOK, RowType
<1>5. NamesInv'
  BY RestartNamesInv DEF StoreInv
<1>9. RowOfEntry'
  <2>1. SUFFICES ASSUME NEW x \in Stored'
                 PROVE  IF x.id = 0 THEN x.at \in unsaved' ELSE Row(x) \in rows'
    BY DEF RowOfEntry, Row
  <2>2. PICK r \in rows : x = Loaded(r)
    BY <1>2
  <2>3. QED
    BY <1>1, <1>3, <1>4, <2>2
<1>10. EntryOfRow'
  <2>1. \A r \in rows : Loaded(r) \in Stored' /\ Row(Loaded(r)) = r
    BY <1>2, <1>3
  <2>2. QED
    BY <1>1, <2>1 DEF EntryOfRow, Row
<1>11. \A p : p \notin unsaved => (p \in Ats(Stored) <=> p \in Ats(Stored'))
  <2>1. ASSUME NEW e \in Stored, e.at \notin unsaved
        PROVE  e.at \in Ats(Stored')
    <3>1. Row(e) \in rows /\ Row(e).at = e.at
      BY <2>1 DEF StoreInv, NamesInv, RowOfEntry, Row
    <3>2. Loaded(Row(e)) \in Stored' /\ Loaded(Row(e)).at = e.at
      BY <1>2, <1>3, <3>1
    <3>3. QED
      BY <3>2 DEF Ats
  <2>2. ASSUME NEW r \in rows, r.at \notin unsaved
        PROVE  r.at \in Ats(Stored)
    <3>1. PICK e \in Stored : Row(e) = r
      BY <2>2 DEF StoreInv, NamesInv, EntryOfRow
    <3>2. e.at = r.at
      BY <3>1 DEF Row
    <3>3. QED
      BY <3>2 DEF Ats
  <2>3. QED
    BY <1>2, <1>3, <2>1, <2>2 DEF Ats
<1>12. EveryPostAccounted' /\ DeliveredStaysGone'
  <2>1. Ats(Stored)' = Ats(Stored')
    BY DEF Ats
  <2>2. QED
    BY <1>1, <1>11, <2>1 DEF StoreInv, NamesInv, EveryPostAccounted, DeliveredStaysGone
<1>13. QED
  BY <1>5, <1>9, <1>10, <1>12 DEF StoreInv, NamesInv

-----------------------------------------------------------------------------

LEMMA NextNamesInv ==
  ASSUME NamesInv, [Next]_vars
  PROVE  NamesInv'
<1> TypeInv'
  BY NextTypeInv DEF NamesInv
<1>1. ASSUME NEW s \in Subscribers, NEW r \in Routings, NEW w \in WriteOutcomes, Enqueue(s, r, w)
      PROVE  NamesInv'
  <2>1. PICK evicted \in SUBSET queue : Admit(s, r, evicted, w)
    BY <1>1, EnqueueAdmits
  <2>2. PICK entry : Admits(entry, evicted, w)
    BY <2>1, AdmitAdmits
  <2>3. QED
    BY <2>2, AdmitsNamesInv
<1>2. ASSUME NEW s \in Subscribers, EnqueueRefused(s)
      PROVE  NamesInv'
  BY <1>2, RefusedNamesInv
<1>3. ASSUME NEW s \in Subscribers, NEW wanted \in Kinds, take_page(s, wanted)
      PROVE  NamesInv'
  BY <1>3, TakeMoves, MovesNamesInv
<1>4. ASSUME NEW h \in held, settle_page(h.page)
      PROVE  NamesInv'
  <2>1. CASE SettleUnproved(h.page)
    BY <2>1, SettleUnprovedMoves, MovesNamesInv
  <2>2. CASE \E w \in WriteOutcomes : SettleProved(h.page, w)
    BY <2>2, SettleProvedLeaves, LeavesNamesInv
  <2>3. QED
    BY <1>4, <2>1, <2>2 DEF settle_page
<1>5. ASSUME NEW s \in Subscribers, NEW wanted \in Kinds, flush_copies(s, wanted)
      PROVE  NamesInv'
  BY <1>5, FlushNamesInv
<1>6. ASSUME NEW c \in flown, NEW w \in WriteOutcomes, confirm(c, w)
      PROVE  NamesInv'
  BY <1>6, ConfirmLeaves, LeavesNamesInv
<1>7. ASSUME NEW c \in flown, release(c)
      PROVE  NamesInv'
  BY <1>7, ReleaseMoves, MovesNamesInv
<1>8. ASSUME NEW threshold \in 2 .. posts + 1, NEW w \in WriteOutcomes, evict_expired(threshold, w)
      PROVE  NamesInv'
  BY <1>8, DiscardLeaves, LeavesNamesInv DEF evict_expired
<1>9. ASSUME NEW s \in Subscribers, NEW r \in Routings, NEW w \in WriteOutcomes, drain_channel(s, r, w)
      PROVE  NamesInv'
  BY <1>9, DiscardLeaves, LeavesNamesInv DEF drain_channel, Matching, Bucket
<1>10. CASE Restart
  BY <1>10, RestartNamesInv
<1>11. CASE UNCHANGED vars
  BY <1>11 DEF vars, NamesInv, TypeInv, TypeOK, PostsPast, TicketNamesOneEntry, CopiesNumbered,
     CopiesNameEntries, OneEntryPerPost, RowsInPostOrder, Stored, Held
<1>12. QED
  BY <1>1, <1>2, <1>3, <1>4, <1>5, <1>6, <1>7, <1>8, <1>9, <1>10, <1>11 DEF Next

LEMMA NextStoreInv ==
  ASSUME "uncommitted" \notin WriteOutcomes, StoreInv, [Next]_vars
  PROVE  StoreInv'
<1> TypeInv'
  BY NextTypeInv DEF StoreInv, NamesInv
<1>1. ASSUME NEW s \in Subscribers, NEW r \in Routings, NEW w \in WriteOutcomes, Enqueue(s, r, w)
      PROVE  StoreInv'
  <2>1. PICK evicted \in SUBSET queue : Admit(s, r, evicted, w)
    BY <1>1, EnqueueAdmits
  <2>2. PICK entry : Admits(entry, evicted, w)
    BY <2>1, AdmitAdmits
  <2>3. QED
    BY <2>2, AdmitsStoreInv
<1>2. ASSUME NEW s \in Subscribers, EnqueueRefused(s)
      PROVE  StoreInv'
  BY <1>2, RefusedStoreInv
<1>3. ASSUME NEW s \in Subscribers, NEW wanted \in Kinds, take_page(s, wanted)
      PROVE  StoreInv'
  BY <1>3, TakeMoves, MovesStoreInv DEF StoreInv
<1>4. ASSUME NEW h \in held, settle_page(h.page)
      PROVE  StoreInv'
  <2>1. CASE SettleUnproved(h.page)
    BY <2>1, SettleUnprovedMoves, MovesStoreInv DEF StoreInv
  <2>2. CASE \E w \in WriteOutcomes : SettleProved(h.page, w)
    BY <2>2, SettleProvedLeaves, LeavesStoreInv DEF StoreInv
  <2>3. QED
    BY <1>4, <2>1, <2>2 DEF settle_page
<1>5. ASSUME NEW s \in Subscribers, NEW wanted \in Kinds, flush_copies(s, wanted)
      PROVE  StoreInv'
  BY <1>5, FlushStoreInv
<1>6. ASSUME NEW c \in flown, NEW w \in WriteOutcomes, confirm(c, w)
      PROVE  StoreInv'
  BY <1>6, ConfirmLeaves, LeavesStoreInv DEF StoreInv
<1>7. ASSUME NEW c \in flown, release(c)
      PROVE  StoreInv'
  BY <1>7, ReleaseMoves, MovesStoreInv DEF StoreInv
<1>8. ASSUME NEW threshold \in 2 .. posts + 1, NEW w \in WriteOutcomes, evict_expired(threshold, w)
      PROVE  StoreInv'
  BY <1>8, DiscardLeaves, LeavesStoreInv DEF StoreInv, evict_expired
<1>9. ASSUME NEW s \in Subscribers, NEW r \in Routings, NEW w \in WriteOutcomes, drain_channel(s, r, w)
      PROVE  StoreInv'
  BY <1>9, DiscardLeaves, LeavesStoreInv DEF StoreInv, drain_channel, Matching, Bucket
<1>10. CASE Restart
  BY <1>10, RestartStoreInv
<1>11. CASE UNCHANGED vars
  BY <1>11 DEF vars, StoreInv, NamesInv, TypeInv, TypeOK, PostsPast, TicketNamesOneEntry, CopiesNumbered,
     CopiesNameEntries, OneEntryPerPost, RowsInPostOrder, RowOfEntry, EntryOfRow, EveryPostAccounted,
     DeliveredStaysGone, Stored, Held, Ats, Row
<1>12. QED
  BY <1>1, <1>2, <1>3, <1>4, <1>5, <1>6, <1>7, <1>8, <1>9, <1>10, <1>11 DEF Next

LEMMA StoreInvRestartKeeps == StoreInv => RestartKeepsWhatWasSaved
<1> SUFFICES ASSUME StoreInv
             PROVE  RestartKeepsWhatWasSaved
  OBVIOUS
<1>1. \A e \in Stored : e.at \notin unsaved => Row(e) \in rows
  BY DEF StoreInv, NamesInv, RowOfEntry
<1>2. \A r \in rows : r.at \notin unsaved => \E e \in Stored : Row(e) = r
  BY DEF StoreInv, NamesInv, EntryOfRow
<1>3. QED
  BY <1>1, <1>2 DEF RestartKeepsWhatWasSaved

\* As long as no COMMIT fails after its statements ran, the store is the one
\* the invariant describes.
THEOREM StoreInvariant ==
  ASSUME "uncommitted" \notin WriteOutcomes
  PROVE  Spec => []StoreInv
<1>1. StoreInv /\ [Next]_vars => StoreInv'
  BY NextStoreInv
<1>2. QED
  BY <1>1, InitStoreInv, PTL DEF Spec

\* A restart brings back exactly what was saved: the blobs in buckets, those
\* in pages that pulls hold and those a flush has in flight, and none that was
\* delivered or dropped.
THEOREM RestartIsExact ==
  ASSUME "uncommitted" \notin WriteOutcomes
  PROVE  Spec => []RestartKeepsWhatWasSaved
BY StoreInvariant, StoreInvRestartKeeps, PTL

\* No queued blob is lost without an eviction, an expiry or a refusal that its
\* caller logs.
THEOREM NothingLostInSilence ==
  ASSUME "uncommitted" \notin WriteOutcomes
  PROVE  Spec => []EveryPostAccounted
<1>1. StoreInv => EveryPostAccounted
  BY DEF StoreInv, NamesInv
<1>2. QED
  BY <1>1, StoreInvariant, PTL

\* A blob that a device has proved or confirmed is never handed out again.
THEOREM NeverAgainAfterProof ==
  ASSUME "uncommitted" \notin WriteOutcomes
  PROVE  Spec => []DeliveredStaysGone
<1>1. StoreInv => DeliveredStaysGone
  BY DEF StoreInv, NamesInv
<1>2. QED
  BY <1>1, StoreInvariant, PTL

\* A verdict on a flush's copy acts on the entry the copy was made from,
\* whatever the writes of the store came to (`confirm`, `release`, `load`).
THEOREM VerdictsHitTheirEntry == Spec => []TicketNamesOneEntry
<1>1. Init => NamesInv
  BY InitStoreInv DEF StoreInv
<1>2. NamesInv => TicketNamesOneEntry
  BY DEF NamesInv
<1>3. QED
  BY <1>1, <1>2, NextNamesInv, PTL DEF Spec

-----------------------------------------------------------------------------
(***************************************************************************)
(* What a write may delete.                                                *)
(***************************************************************************)

\* The rows a step deletes are those of the entries that leave with it.
DeletesOwn == \A r \in rows \ rows' : \E e \in Stored \ Stored' : Row(e) = r

LEMMA LeavesDeletesOwn ==
  ASSUME StoreInv, NEW gone, NEW w, Leaves(gone, w)
  PROVE  DeletesOwn
<1>1. /\ gone \in SUBSET Stored /\ Stored' = Stored \ gone
      /\ rows' = delete_rows(rows, gone) \/ rows' = rows
  BY DEF Leaves, Write
<1>2. \A r \in rows \ delete_rows(rows, gone) : \E e \in gone : Row(e) = r
  BY <1>1, DeletesOwnRows
<1>3. QED
  BY <1>1, <1>2 DEF DeletesOwn

LEMMA AdmitsDeletesOwn ==
  ASSUME StoreInv, NEW entry, NEW evicted, NEW w, Admits(entry, evicted, w)
  PROVE  DeletesOwn
<1>1. /\ evicted \in SUBSET queue /\ queue' = (queue \ evicted) \cup {entry} /\ held' = held
      /\ entry.at = posts + 1
      /\ rows' = rows \/ rows' = delete_rows(rows, evicted) \cup {Row(entry)}
  BY DEF Admits, Write
<1>2. \A e \in Stored : e # entry
  BY <1>1 DEF StoreInv, NamesInv, TypeInv, TypeOK, PostsPast
<1>3. \A e \in Held : e \notin queue
  BY DEF Held, StoreInv, NamesInv, TicketNamesOneEntry
<1>4. evicted \in SUBSET Stored /\ \A e \in evicted : e \notin Stored'
  BY <1>1, <1>2, <1>3 DEF Stored, Held
<1>5. \A r \in rows \ delete_rows(rows, evicted) : \E e \in evicted : Row(e) = r
  BY <1>4, DeletesOwnRows
<1>6. QED
  BY <1>1, <1>4, <1>5 DEF DeletesOwn

LEMMA NextDeletesOwn ==
  ASSUME StoreInv, [Next]_vars
  PROVE  DeletesOwn
<1>1. CASE rows' = rows
  BY <1>1 DEF DeletesOwn
<1>2. ASSUME NEW s \in Subscribers, NEW r \in Routings, NEW w \in WriteOutcomes, Enqueue(s, r, w)
      PROVE  DeletesOwn
  <2>1. PICK evicted \in SUBSET queue : Admit(s, r, evicted, w)
    BY <1>2, EnqueueAdmits
  <2>2. PICK entry : Admits(entry, evicted, w)
    BY <2>1, AdmitAdmits
  <2>3. QED
    BY <2>2, AdmitsDeletesOwn
<1>3. ASSUME NEW h \in held, NEW w \in WriteOutcomes, SettleProved(h.page, w)
      PROVE  DeletesOwn
  BY <1>3, SettleProvedLeaves, LeavesDeletesOwn DEF StoreInv
<1>4. ASSUME NEW c \in flown, NEW w \in WriteOutcomes, confirm(c, w)
      PROVE  DeletesOwn
  BY <1>4, ConfirmLeaves, LeavesDeletesOwn DEF StoreInv
<1>5. ASSUME NEW threshold \in 2 .. posts + 1, NEW w \in WriteOutcomes, evict_expired(threshold, w)
      PROVE  DeletesOwn
  BY <1>5, DiscardLeaves, LeavesDeletesOwn DEF StoreInv, evict_expired
<1>6. ASSUME NEW s \in Subscribers, NEW r \in Routings, NEW w \in WriteOutcomes, drain_channel(s, r, w)
      PROVE  DeletesOwn
  BY <1>6, DiscardLeaves, LeavesDeletesOwn DEF StoreInv, drain_channel, Matching, Bucket
<1>7. /\ \A s \in Subscribers : EnqueueRefused(s) => rows' = rows
      /\ \A s \in Subscribers, wanted \in Kinds :
           take_page(s, wanted) \/ flush_copies(s, wanted) => rows' = rows
      /\ \A h \in held : SettleUnproved(h.page) => rows' = rows
      /\ \A c \in flown : release(c) => rows' = rows
      /\ Restart \/ UNCHANGED vars => rows' = rows
  BY DEF EnqueueRefused, take_page, flush_copies, SettleUnproved, release, Restart, store, vars
<1>8. QED
  BY <1>1, <1>2, <1>3, <1>4, <1>5, <1>6, <1>7 DEF Next, settle_page

\* No write deletes the row of a blob that stays queued.
THEOREM OnlyOwnRowsDeleted ==
  ASSUME "uncommitted" \notin WriteOutcomes
  PROVE  Spec => WritesOnlyOwnRows
<1>1. StoreInv /\ [Next]_vars => DeletesOwn
  BY NextDeletesOwn
<1>2. DeletesOwn => (\A r \in rows \ rows' : \E e \in Stored \ Stored' : Row(e) = r)
  BY DEF DeletesOwn
<1>3. QED
  BY <1>1, <1>2, StoreInvariant, PTL DEF Spec, WritesOnlyOwnRows

-----------------------------------------------------------------------------
(***************************************************************************)
(* The global limit.  A page is counted entry by entry, so what counts is  *)
(* how many entries are stored, in buckets and pages together.             *)
(***************************************************************************)

StoredWithinLimit ==
  /\ IsFiniteSet(Stored)
  /\ unsaved = {} => Cardinality(Stored) <= GlobalLimit

SizeInv == StoreInv /\ StoredWithinLimit

LEMMA TotalIsStored ==
  ASSUME StoreInv, IsFiniteSet(Stored)
  PROVE  total_len = Cardinality(Stored) /\ total_len \in Nat
<1> DEFINE entryOf == [h \in held |-> h.entry]
<1>1. IsFiniteSet(queue) /\ IsFiniteSet(Held)
  BY FS_Subset DEF Stored
<1>2. entryOf \in Bijection(held, Held)
  <2>1. entryOf \in [held -> Held]
    BY DEF Held
  <2>2. \A g, h \in held : entryOf[g] = entryOf[h] => g = h
    BY DEF StoreInv, NamesInv, TicketNamesOneEntry
  <2>3. \A e \in Held : \E h \in held : entryOf[h] = e
    BY DEF Held
  <2>4. QED
    BY <2>1, <2>2, <2>3 DEF Bijection, Injection, Surjection, IsInjective
<1> HIDE DEF entryOf
<1>3. IsFiniteSet(held) /\ Cardinality(held) <= Cardinality(Held)
      /\ (Cardinality(held) = Cardinality(Held) <=> entryOf \in Surjection(held, Held))
  BY <1>1, <1>2, FS_Injection DEF Bijection
<1>4. Cardinality(held) = Cardinality(Held)
  BY <1>2, <1>3 DEF Bijection
<1>5. queue \cap Held = {}
  BY DEF Held, StoreInv, NamesInv, TicketNamesOneEntry
<1>6. Cardinality(Stored) = Cardinality(queue) + Cardinality(Held) - Cardinality(queue \cap Held)
  BY <1>1, FS_Union DEF Stored
<1>7. Cardinality(queue \cap Held) = 0
  BY <1>5, FS_EmptySet
<1>8. Cardinality(queue) \in Nat /\ Cardinality(Held) \in Nat
  BY <1>1, FS_CardinalityType
<1>9. QED
  BY <1>4, <1>6, <1>7, <1>8 DEF total_len

\* A step whose entries are entries that were stored, wherever they are now,
\* stores no more than before.
LEMMA NoMoreStored ==
  ASSUME OneEntryPerPost', IsFiniteSet(Stored),
         \A x \in Stored' : \E e \in Stored : e.at = x.at
  PROVE  IsFiniteSet(Stored') /\ Cardinality(Stored') <= Cardinality(Stored)
<1> DEFINE origin == [x \in Stored' |-> CHOOSE e \in Stored : e.at = x.at]
<1>1. \A x \in Stored' : origin[x] \in Stored /\ origin[x].at = x.at
  OBVIOUS
<1>2. origin \in [Stored' -> Stored]
  BY <1>1
<1> HIDE DEF origin
<1>3. \A x, y \in Stored' : origin[x] = origin[y] => x = y
  BY <1>1 DEF OneEntryPerPost
<1>4. origin \in Injection(Stored', Stored)
  BY <1>2, <1>3 DEF Injection, IsInjective
<1>5. QED
  BY <1>4, FS_Injection

LEMMA InitSize == Init => StoredWithinLimit
BY FS_EmptySet, ConstantsAssumption DEF Init, Stored, Held, StoredWithinLimit

\* `enqueue` makes room: it takes nothing out only below the global limit.
LEMMA EnqueueMakesRoom ==
  ASSUME NEW s \in Subscribers, NEW r \in Routings, NEW w, Enqueue(s, r, w)
  PROVE  \E evicted \in SUBSET queue :
           /\ Admit(s, r, evicted, w)
           /\ (evicted = {} /\ ~QueueFull) \/ \E e \in queue : evicted = {e}
<1>1. CASE EnqueueQueued(s, r, w)
  BY <1>1 DEF EnqueueQueued
<1>2. CASE EnqueueEvictingOldest(s, r, w)
  BY <1>2 DEF EnqueueEvictingOldest, Bucket
<1>3. CASE EnqueueEvictingFullest(s, r, w)
  BY <1>3 DEF EnqueueEvictingFullest, Bucket
<1>4. QED
  BY <1>1, <1>2, <1>3 DEF Enqueue

LEMMA AdmitsSize ==
  ASSUME SizeInv, NEW entry, NEW evicted, NEW w, Admits(entry, evicted, w),
         (evicted = {} /\ ~QueueFull) \/ \E e \in queue : evicted = {e}
  PROVE  StoredWithinLimit'
<1>1. /\ queue' = (queue \ evicted) \cup {entry} /\ held' = held
      /\ unsaved \subseteq unsaved'
  BY DEF Admits, Write
<1>2. Stored' = (Stored \ evicted) \cup {entry}
  BY <1>1 DEF Admits, Stored, Held, SizeInv, StoreInv, NamesInv, TicketNamesOneEntry
<1>3. IsFiniteSet(Stored) /\ Cardinality(Stored) \in Nat /\ GlobalLimit \in Nat
      /\ total_len = Cardinality(Stored)
  BY TotalIsStored, FS_CardinalityType, ConstantsAssumption DEF SizeInv, StoredWithinLimit
<1>4. CASE evicted = {} /\ ~QueueFull
  <2>1. Stored' = Stored \cup {entry}
    BY <1>2, <1>4
  <2>2. IsFiniteSet(Stored') /\ Cardinality(Stored') <= Cardinality(Stored) + 1
    <3>1. /\ IsFiniteSet(Stored \cup {entry})
          /\ Cardinality(Stored \cup {entry}) =
               IF entry \in Stored THEN Cardinality(Stored) ELSE Cardinality(Stored) + 1
      BY <1>3, FS_AddElement
    <3>2. QED
      BY <1>3, <2>1, <3>1
  <2>3. Cardinality(Stored) < GlobalLimit
    BY <1>3, <1>4 DEF QueueFull
  <2>4. Cardinality(Stored') \in Nat
    BY <2>2, FS_CardinalityType
  <2>5. QED
    BY <1>3, <2>2, <2>3, <2>4 DEF StoredWithinLimit
<1>5. CASE \E e \in queue : evicted = {e}
  <2>1. PICK e \in queue : evicted = {e}
    BY <1>5
  <2>2. e \in Stored
    BY DEF Stored
  <2>3. IsFiniteSet(Stored \ {e}) /\ Cardinality(Stored \ {e}) = Cardinality(Stored) - 1
    BY <1>3, <2>2, FS_RemoveElement
  <2>4. IsFiniteSet(Stored') /\ Cardinality(Stored') <= Cardinality(Stored)
    <3> DEFINE rest == Stored \ {e}
    <3>1. /\ IsFiniteSet(rest \cup {entry})
          /\ Cardinality(rest \cup {entry}) =
               IF entry \in rest THEN Cardinality(rest) ELSE Cardinality(rest) + 1
      BY <2>3, FS_AddElement
    <3>2. Stored' = rest \cup {entry}
      BY <1>2, <2>1
    <3>3. Cardinality(rest) = Cardinality(Stored) - 1
      BY <2>3
    <3> HIDE DEF rest
    <3>4. QED
      BY <1>3, <3>1, <3>2, <3>3
  <2>5. Cardinality(Stored') \in Nat /\ Cardinality(Stored') <= Cardinality(Stored)
    BY <2>4, FS_CardinalityType
  <2>6. QED
    BY <1>1, <1>3, <2>4, <2>5 DEF SizeInv, StoredWithinLimit
<1>6. QED
  BY <1>4, <1>5

\* Every other step but Restart keeps or drops entries.
LEMMA KeepsSize ==
  ASSUME SizeInv, OneEntryPerPost', unsaved \subseteq unsaved',
         \A x \in Stored' : \E e \in Stored : e.at = x.at
  PROVE  StoredWithinLimit'
<1>1. IsFiniteSet(Stored') /\ Cardinality(Stored') <= Cardinality(Stored)
  BY NoMoreStored DEF SizeInv, StoredWithinLimit
<1>2. Cardinality(Stored') \in Nat /\ Cardinality(Stored) \in Nat /\ GlobalLimit \in Nat
  BY <1>1, FS_CardinalityType, ConstantsAssumption DEF SizeInv, StoredWithinLimit
<1>3. QED
  BY <1>1, <1>2 DEF SizeInv, StoredWithinLimit

LEMMA RestartSize ==
  ASSUME SizeInv, OneEntryPerPost', Restart
  PROVE  StoredWithinLimit'
<1>1. Stored' = {Loaded(r) : r \in rows} /\ unsaved' = unsaved
  BY DEF Restart, Stored, Held, history
<1>2. CASE unsaved = {}
  <2>1. ASSUME NEW x \in Stored' PROVE \E e \in Stored : e.at = x.at
    <3>1. PICK r \in rows : x = Loaded(r)
      BY <1>1
    <3>2. PICK e \in Stored : Row(e) = r
      BY <1>2 DEF SizeInv, StoreInv, NamesInv, EntryOfRow
    <3>3. e.at = r.at /\ x.at = r.at
      BY <3>1, <3>2, LoadedRow DEF Row, SizeInv, StoreInv, NamesInv
    <3>4. QED
      BY <3>3
  <2>2. QED
    BY <1>1, <2>1, KeepsSize
<1>3. CASE unsaved # {}
  <2> DEFINE load == [r \in rows |-> Loaded(r)]
  <2>1. load \in Surjection(rows, Stored')
    BY <1>1 DEF Surjection
  <2> HIDE DEF load
  <2>2. IsFiniteSet(Stored')
    BY <2>1, FS_Surjection DEF SizeInv, StoreInv, NamesInv, TypeInv, PostsPast
  <2>3. QED
    BY <1>1, <1>3, <2>2 DEF StoredWithinLimit
<1>4. QED
  BY <1>2, <1>3

LEMMA NextSize ==
  ASSUME "uncommitted" \notin WriteOutcomes, SizeInv, [Next]_vars
  PROVE  SizeInv'
<1>1. StoreInv /\ StoreInv' /\ OneEntryPerPost'
  BY NextStoreInv DEF SizeInv, StoreInv, NamesInv
<1>2. ASSUME NEW s \in Subscribers, NEW r \in Routings, NEW w \in WriteOutcomes, Enqueue(s, r, w)
      PROVE  StoredWithinLimit'
  <2>1. PICK evicted \in SUBSET queue :
          /\ Admit(s, r, evicted, w)
          /\ (evicted = {} /\ ~QueueFull) \/ \E e \in queue : evicted = {e}
    BY <1>2, EnqueueMakesRoom
  <2>2. PICK entry : Admits(entry, evicted, w)
    BY <2>1, AdmitAdmits
  <2>3. QED
    BY <2>1, <2>2, AdmitsSize
<1>3. ASSUME Moves
      PROVE  StoredWithinLimit'
  BY <1>1, <1>3, KeepsSize DEF Moves, SameEntry
<1>4. ASSUME NEW gone, NEW w, Leaves(gone, w)
      PROVE  StoredWithinLimit'
  BY <1>1, <1>4, KeepsSize DEF Leaves, Write
<1>5. ASSUME NEW s \in Subscribers, EnqueueRefused(s)
      PROVE  StoredWithinLimit'
  BY <1>1, <1>5, KeepsSize DEF EnqueueRefused, store, Stored, Held
<1>6. ASSUME NEW s \in Subscribers, NEW wanted \in Kinds, flush_copies(s, wanted)
      PROVE  StoredWithinLimit'
  BY <1>1, <1>6, KeepsSize DEF flush_copies, store, history, Stored, Held
<1>7. ASSUME NEW s \in Subscribers, NEW wanted \in Kinds, take_page(s, wanted)
      PROVE  StoredWithinLimit'
  BY <1>1, <1>3, <1>7, TakeMoves DEF StoreInv
<1>8. ASSUME NEW h \in held, settle_page(h.page)
      PROVE  StoredWithinLimit'
  BY <1>1, <1>3, <1>4, <1>8, SettleProvedLeaves, SettleUnprovedMoves DEF StoreInv, settle_page
<1>9. ASSUME NEW c \in flown, NEW w \in WriteOutcomes, confirm(c, w)
      PROVE  StoredWithinLimit'
  BY <1>1, <1>4, <1>9, ConfirmLeaves DEF StoreInv
<1>10. ASSUME NEW c \in flown, release(c)
       PROVE  StoredWithinLimit'
  BY <1>1, <1>3, <1>10, ReleaseMoves DEF StoreInv
<1>11. ASSUME NEW threshold \in 2 .. posts + 1, NEW w \in WriteOutcomes, evict_expired(threshold, w)
       PROVE  StoredWithinLimit'
  BY <1>1, <1>4, <1>11, DiscardLeaves DEF StoreInv, evict_expired
<1>12. ASSUME NEW s \in Subscribers, NEW r \in Routings, NEW w \in WriteOutcomes, drain_channel(s, r, w)
       PROVE  StoredWithinLimit'
  BY <1>1, <1>4, <1>12, DiscardLeaves DEF StoreInv, drain_channel, Matching, Bucket
<1>13. ASSUME Restart
       PROVE  StoredWithinLimit'
  BY <1>1, <1>13, RestartSize DEF SizeInv
<1>14. ASSUME UNCHANGED vars
       PROVE  StoredWithinLimit'
  BY <1>14 DEF vars, SizeInv, StoredWithinLimit, Stored, Held
<1>15. StoredWithinLimit'
  BY <1>2, <1>5, <1>6, <1>7, <1>8, <1>9, <1>10, <1>11, <1>12, <1>13, <1>14 DEF Next
<1>16. QED
  BY <1>1, <1>15 DEF SizeInv

\* The queue never holds more than the global limit, pages included, as long
\* as the store takes every write.
THEOREM GlobalLimitHolds ==
  ASSUME "uncommitted" \notin WriteOutcomes
  PROVE  Spec => []TotalWithinLimit
<1>1. Init => SizeInv
  BY InitStoreInv, InitSize DEF SizeInv
<1>2. SizeInv /\ [Next]_vars => SizeInv'
  BY NextSize
<1>3. SizeInv => TotalWithinLimit
  BY TotalIsStored DEF SizeInv, StoredWithinLimit, TotalWithinLimit
<1>4. QED
  BY <1>1, <1>2, <1>3, PTL DEF Spec

-----------------------------------------------------------------------------
(***************************************************************************)
(* First in, first out, for a subscriber with one pull at a time.  What a  *)
(* page holds came before whatever its bucket still has of the same kind,  *)
(* and stays in order, so a page put back at the front keeps the order.    *)
(***************************************************************************)

SameKind(e, f) == e.subscriber = f.subscriber /\ e.routing = f.routing

OnePageEach ==
  \A g, h \in held : g.entry.subscriber = h.entry.subscriber => g.page = h.page

HeldCameFirst ==
  \A h \in held, f \in queue : SameKind(h.entry, f) => h.entry.at < f.at

HeldInOrder ==
  \A e, f \in Held : SameKind(e, f) /\ e.at < f.at => e.place < f.place

\* The next entry goes behind all that is there.
PlacesBehindTickets == \A e \in Stored : e.place < next_ticket

OrderInv ==
  /\ SizeInv
  /\ FirstInFirstOut
  /\ OnePageEach
  /\ HeldCameFirst
  /\ HeldInOrder
  /\ PlacesBehindTickets

LEMMA EntryFields ==
  ASSUME TypeInv, NEW e \in Stored
  PROVE  e \in Entry /\ e.at \in Nat /\ e.place \in Int /\ e.ticket \in Nat
BY DEF TypeInv, TypeOK, Stored, Held, Entry, HeldEntry

\* Fewer entries, each where it was.
LEMMA FewerInOrder ==
  ASSUME OrderInv, SizeInv', queue' \subseteq queue, held' \subseteq held, next_ticket' = next_ticket
  PROVE  OrderInv'
BY DEF OrderInv, FirstInFirstOut, OnePageEach, HeldCameFirst, HeldInOrder, PlacesBehindTickets,
   Stored, Held

LEMMA AdmitsInOrder ==
  ASSUME OrderInv, SizeInv', NEW entry, NEW evicted, NEW w, Admits(entry, evicted, w)
  PROVE  OrderInv'
<1>1. /\ queue' = (queue \ evicted) \cup {entry} /\ held' = held
      /\ entry.at = posts + 1 /\ entry.place = next_ticket /\ next_ticket' = next_ticket + 1
  BY DEF Admits
<1>2. \A e \in Stored : e.at < entry.at /\ e.place < entry.place /\ e.at \in Nat /\ e.place \in Int
  <2>1. SUFFICES ASSUME NEW e \in Stored
                 PROVE  e.at < entry.at /\ e.place < entry.place /\ e.at \in Nat /\ e.place \in Int
    OBVIOUS
  <2>2. e.at \in Nat /\ e.place \in Int
    BY EntryFields DEF OrderInv, SizeInv, StoreInv, NamesInv
  <2>3. e.at \in 1 .. posts /\ posts \in Nat
    BY DEF OrderInv, SizeInv, StoreInv, NamesInv, TypeInv, TypeOK, PostsPast
  <2>4. QED
    BY <1>1, <2>2, <2>3 DEF OrderInv, PlacesBehindTickets
<1>3. entry.at \in Nat /\ entry.place \in Nat /\ next_ticket \in Nat
  BY <1>1 DEF OrderInv, SizeInv, StoreInv, NamesInv, TypeInv, TypeOK
<1>4. FirstInFirstOut'
  BY <1>1, <1>2, <1>3 DEF OrderInv, FirstInFirstOut, Stored
<1>5. OnePageEach' /\ HeldInOrder'
  BY <1>1 DEF OrderInv, OnePageEach, HeldInOrder, Held
<1>6. HeldCameFirst'
  BY <1>1, <1>2 DEF OrderInv, HeldCameFirst, Stored, Held
<1>7. PlacesBehindTickets'
  BY <1>1, <1>2, <1>3 DEF OrderInv, PlacesBehindTickets, Stored, Held
<1>8. QED
  BY <1>4, <1>5, <1>6, <1>7 DEF OrderInv

\* With one page at a time, a pull starts when none of its subscriber's
\* entries is held.
LEMMA NoneHeld ==
  ASSUME OrderInv, OpenPages <= 1, NEW s, NEW wanted, take_page(s, wanted)
  PROVE  \A h \in held : h.entry.subscriber # s
<1> DEFINE mine == {g \in held : g.entry.subscriber = s}
           pages == {h.page : h \in mine}
           entryOf == [h \in mine |-> h.entry]
           pageOf == [h \in mine |-> h.page]
<1>1. IsFiniteSet(Stored)
  BY DEF OrderInv, SizeInv, StoredWithinLimit
<1>2. entryOf \in Injection(mine, Stored)
  <2>1. entryOf \in [mine -> Stored]
    BY DEF Stored, Held
  <2>2. \A g, h \in mine : entryOf[g] = entryOf[h] => g = h
    BY DEF OrderInv, SizeInv, StoreInv, NamesInv, TicketNamesOneEntry
  <2>3. QED
    BY <2>1, <2>2 DEF Injection, IsInjective
<1>3. IsFiniteSet(mine)
  BY <1>1, <1>2, FS_Injection
<1>4. pageOf \in Surjection(mine, pages)
  BY DEF Surjection
<1>5. IsFiniteSet(pages)
  BY <1>3, <1>4, FS_Surjection
<1>6. Cardinality(pages) \in Nat /\ Cardinality(pages) < OpenPages
  BY <1>5, FS_CardinalityType DEF take_page
<1>7. Cardinality(pages) = 0
  BY <1>6, ConstantsAssumption
<1>8. pages = {}
  BY <1>5, <1>7, FS_EmptySet
<1>9. QED
  BY <1>8

LEMMA TakeInOrder ==
  ASSUME OrderInv, SizeInv', OpenPages <= 1, NEW s \in Subscribers, NEW wanted \in Kinds,
         take_page(s, wanted)
  PROVE  OrderInv'
<1>1. PICK page \in SUBSET Matching(s, wanted) :
        /\ IsFrontPart(page, Matching(s, wanted))
        /\ queue' = queue \ page
        /\ held' = held \cup {[page |-> next_page, entry |-> e] : e \in page}
  BY DEF take_page
<1>2. /\ page \subseteq queue
      /\ \A e \in page : e.subscriber = s /\ e.routing \in wanted
      /\ \A f \in queue : f.subscriber = s /\ f.routing \in wanted => f \in Matching(s, wanted)
      /\ \A e \in page, f \in Matching(s, wanted) \ page : e.place < f.place
  BY <1>1 DEF Matching, Bucket, IsFrontPart
<1>3. \A h \in held : h.entry.subscriber # s
  BY NoneHeld
<1>4. \A h \in held' : \/ h \in held
                       \/ h.page = next_page /\ h.entry \in page
  BY <1>1
<1>5. next_ticket' = next_ticket
  BY DEF take_page
<1>6. \A e, f \in queue : /\ e.at \in Nat /\ f.at \in Nat /\ e.place \in Int /\ f.place \in Int
                          /\ e.at = f.at => e = f
                          /\ SameKind(e, f) /\ e.at < f.at => e.place < f.place
  BY EntryFields DEF OrderInv, SizeInv, StoreInv, NamesInv, OneEntryPerPost, FirstInFirstOut, SameKind, Stored
<1>7. FirstInFirstOut'
  BY <1>1 DEF OrderInv, FirstInFirstOut
<1>8. OnePageEach'
  BY <1>2, <1>3, <1>4 DEF OrderInv, OnePageEach
<1>9. HeldCameFirst'
  <2>1. SUFFICES ASSUME NEW h \in held', NEW f \in queue', SameKind(h.entry, f)
                 PROVE  h.entry.at < f.at
    BY DEF HeldCameFirst, SameKind
  <2>2. CASE h \in held
    BY <1>1, <2>1, <2>2 DEF OrderInv, HeldCameFirst
  <2>3. CASE h.entry \in page
    <3>1. f \in queue /\ f \notin page /\ h.entry \in queue /\ f \in Matching(s, wanted)
      BY <1>1, <1>2, <2>1, <2>3 DEF SameKind
    <3>2. h.entry.place < f.place /\ h.entry.at # f.at
      BY <1>2, <1>6, <2>3, <3>1
    <3>3. ~(f.at < h.entry.at)
      BY <1>6, <2>1, <3>1, <3>2 DEF SameKind
    <3>4. QED
      BY <1>6, <3>1, <3>2, <3>3
  <2>4. QED
    BY <1>4, <2>2, <2>3
<1>10. \A e \in Held' : e \in Held \/ e \in page
  BY <1>4 DEF Held
<1>11. HeldInOrder'
  <2>1. SUFFICES ASSUME NEW e \in Held', NEW f \in Held', SameKind(e, f), e.at < f.at
                 PROVE  e.place < f.place
    BY DEF HeldInOrder, SameKind
  <2>2. CASE e \in Held /\ f \in Held
    BY <2>1, <2>2 DEF OrderInv, HeldInOrder
  <2>3. CASE e \in page /\ f \in page
    BY <1>2, <1>6, <2>1, <2>3
  <2>4. \A x \in Held : x.subscriber # s
    BY <1>3 DEF Held
  <2>5. QED
    BY <1>2, <1>10, <2>1, <2>2, <2>3, <2>4 DEF SameKind
<1>12. PlacesBehindTickets'
  BY <1>1, <1>2, <1>5, <1>10 DEF OrderInv, PlacesBehindTickets, Stored
<1>13. QED
  BY <1>7, <1>8, <1>9, <1>11, <1>12 DEF OrderInv

LEMMA SettleUnprovedInOrder ==
  ASSUME OrderInv, SizeInv', NEW p, SettleUnproved(p)
  PROVE  OrderInv'
<1>1. PICK s \in Subscribers : \E d \in Shifts(Page(p), Bucket(s)) :
        /\ \A e \in Page(p) : e.subscriber = s
        /\ \A x \in Shifts(Page(p), Bucket(s)) : x <= d
        /\ queue' = queue \cup MovedBack(Page(p), d)
  BY DEF SettleUnproved
<1>2. PICK d \in Shifts(Page(p), Bucket(s)) :
        /\ \A e \in Page(p) : e.subscriber = s
        /\ \A x \in Shifts(Page(p), Bucket(s)) : x <= d
        /\ queue' = queue \cup MovedBack(Page(p), d)
  BY <1>1
<1>3. held' = {h \in held : h.page # p} /\ next_ticket' = next_ticket
  BY DEF SettleUnproved
<1>4. Page(p) \in SUBSET Held /\ Page(p) \in SUBSET Stored /\ Page(p) \in SUBSET Entry
      /\ Bucket(s) \in SUBSET Entry
  BY EntryFields DEF OrderInv, SizeInv, StoreInv, NamesInv, TypeInv, TypeOK, Page, Held, Stored, Bucket
<1>5. d \in Int /\ d >= 0
  BY <1>2, <1>4 DEF Shifts, Entry
<1> DEFINE Back(e) == [e EXCEPT !.place = e.place - d]
<1>6. MovedBack(Page(p), d) = {Back(e) : e \in Page(p)}
  BY DEF MovedBack
<1>7. \A e \in Entry : SameEntry(e, Back(e)) /\ Back(e).place = e.place - d
  BY <1>5 DEF Entry, SameEntry
<1> HIDE DEF Back
<1>8. \A e \in Page(p), f \in Bucket(s) : Back(e).place < f.place
  <2>1. SUFFICES ASSUME NEW e \in Page(p), NEW f \in Bucket(s)
                 PROVE  Back(e).place < f.place
    OBVIOUS
  <2>2. e.place - f.place + 1 <= d
    <3>1. e.place - f.place + 1 \in {a.place - b.place + 1 : a \in Page(p), b \in Bucket(s)}
      OBVIOUS
    <3>2. e.place - f.place + 1 \in Shifts(Page(p), Bucket(s))
      BY <3>1 DEF Shifts
    <3>3. QED
      BY <1>2, <3>2
  <2>3. e.place \in Int /\ f.place \in Int /\ e \in Entry
    BY <1>4 DEF Entry
  <2>4. QED
    BY <1>5, <1>7, <2>2, <2>3
<1>9. \A x \in queue' : x \in queue \/ \E e \in Page(p) : x = Back(e) /\ SameEntry(e, x)
  BY <1>2, <1>4, <1>6, <1>7
<1>10. FirstInFirstOut'
  <2>1. SUFFICES ASSUME NEW x \in queue', NEW y \in queue', SameKind(x, y), x.at < y.at
                 PROVE  x.place < y.place
    BY DEF FirstInFirstOut, SameKind
  <2>2. CASE x \in queue /\ y \in queue
    BY <2>1, <2>2 DEF OrderInv, FirstInFirstOut, SameKind
  <2>3. CASE \E e \in Page(p), f \in Page(p) : x = Back(e) /\ SameEntry(e, x) /\ y = Back(f) /\ SameEntry(f, y)
    <3>1. PICK e \in Page(p), f \in Page(p) : x = Back(e) /\ SameEntry(e, x) /\ y = Back(f) /\ SameEntry(f, y)
      BY <2>3
    <3>2. e.place < f.place
      BY <1>4, <2>1, <3>1 DEF SameKind, SameEntry, OrderInv, HeldInOrder
    <3>3. e.place \in Int /\ f.place \in Int /\ e \in Entry /\ f \in Entry
      BY <1>4 DEF Entry
    <3>4. QED
      BY <1>5, <1>7, <3>1, <3>2, <3>3
  <2>4. CASE y \in queue /\ \E e \in Page(p) : x = Back(e) /\ SameEntry(e, x)
    BY <1>2, <1>8, <2>1, <2>4 DEF SameKind, SameEntry, Bucket
  <2>5. CASE x \in queue /\ \E f \in Page(p) : y = Back(f) /\ SameEntry(f, y)
    <3>1. PICK f \in Page(p) : y = Back(f) /\ SameEntry(f, y)
      BY <2>5
    <3>2. PICK h \in held : h.entry = f
      BY <1>4 DEF Held
    <3>3. f.at < x.at
      BY <2>1, <2>5, <3>1, <3>2 DEF SameKind, SameEntry, OrderInv, HeldCameFirst
    <3>4. x.at \in Nat /\ f.at \in Nat /\ y.at = f.at
      BY <1>4, <2>5, <3>1, EntryFields DEF OrderInv, SizeInv, StoreInv, NamesInv, SameEntry, Stored
    <3>5. QED
      BY <2>1, <3>3, <3>4
  <2>6. QED
    BY <1>9, <2>2, <2>3, <2>4, <2>5
<1>11. OnePageEach' /\ HeldInOrder'
  BY <1>3 DEF OrderInv, OnePageEach, HeldInOrder, Held
<1>12. HeldCameFirst'
  <2>1. SUFFICES ASSUME NEW h \in held', NEW x \in queue', SameKind(h.entry, x)
                 PROVE  h.entry.at < x.at
    BY DEF HeldCameFirst, SameKind
  <2>2. CASE x \in queue
    BY <1>3, <2>1, <2>2 DEF OrderInv, HeldCameFirst
  <2>3. CASE \E e \in Page(p) : x = Back(e) /\ SameEntry(e, x)
    <3>1. PICK g \in held : g.page = p /\ g.entry.subscriber = x.subscriber
      BY <2>3 DEF Page, SameEntry
    <3>2. h \in held /\ h.page # p
      BY <1>3
    <3>3. QED
      BY <2>1, <3>1, <3>2 DEF SameKind, OrderInv, OnePageEach
  <2>4. QED
    BY <1>9, <2>2, <2>3
<1>13. PlacesBehindTickets'
  <2>1. SUFFICES ASSUME NEW x \in Stored'
                 PROVE  x.place < next_ticket
    BY <1>3 DEF PlacesBehindTickets
  <2>2. CASE x \in Stored
    BY <2>2 DEF OrderInv, PlacesBehindTickets
  <2>3. CASE \E e \in Page(p) : x = Back(e)
    <3>1. PICK e \in Page(p) : x = Back(e)
      BY <2>3
    <3>2. e \in Stored /\ e.place \in Int /\ e \in Entry /\ next_ticket \in Nat
      BY <1>4, EntryFields DEF OrderInv, SizeInv, StoreInv, NamesInv, TypeInv, TypeOK
    <3>3. QED
      BY <1>5, <1>7, <3>1, <3>2 DEF OrderInv, PlacesBehindTickets
  <2>4. QED
    BY <1>3, <1>9, <2>2, <2>3 DEF Stored, Held
<1>14. QED
  BY <1>10, <1>11, <1>12, <1>13 DEF OrderInv

LEMMA RestartInOrder ==
  ASSUME OrderInv, SizeInv', Restart
  PROVE  OrderInv'
<1>1. /\ queue' = {Loaded(r) : r \in rows} /\ held' = {}
      /\ next_ticket' = Cardinality(rows) + 1
  BY DEF Restart
<1>2. \A r \in rows : Loaded(r).place = Loaded(r).ticket /\ Loaded(r).at = r.at
                     /\ r.id \in Nat /\ r.at \in Nat
  BY LoadedRow DEF Loaded, OrderInv, SizeInv, StoreInv, NamesInv, TypeInv, TypeOK, RowType
<1>3. FirstInFirstOut'
  <2>1. SUFFICES ASSUME NEW q \in rows, NEW r \in rows, q.at < r.at
                 PROVE  Loaded(q).place < Loaded(r).place
    BY <1>1, <1>2 DEF FirstInFirstOut
  <2>2. q.id < r.id
    BY <1>2, <2>1 DEF OrderInv, SizeInv, StoreInv, NamesInv, RowsInPostOrder
  <2>3. QED
    BY <1>2, <2>2, RanksDistinct DEF OrderInv, SizeInv, StoreInv
<1>4. OnePageEach' /\ HeldCameFirst' /\ HeldInOrder'
  BY <1>1 DEF OnePageEach, HeldCameFirst, HeldInOrder, Held
<1>5. PlacesBehindTickets'
  <2>1. \A r \in rows : Loaded(r).place < Cardinality(rows) + 1
    BY <1>2, RankBounded DEF OrderInv, SizeInv, StoreInv, NamesInv
  <2>2. QED
    BY <1>1, <2>1 DEF PlacesBehindTickets, Stored, Held
<1>6. QED
  BY <1>3, <1>4, <1>5 DEF OrderInv

LEMMA NextInOrder ==
  ASSUME "uncommitted" \notin WriteOutcomes, OpenPages <= 1, OrderInv, [Next]_vars
  PROVE  OrderInv'
<1>1. SizeInv' /\ StoreInv
  BY NextSize DEF OrderInv, SizeInv
<1>2. ASSUME NEW s \in Subscribers, NEW r \in Routings, NEW w \in WriteOutcomes, Enqueue(s, r, w)
      PROVE  OrderInv'
  <2>1. PICK evicted \in SUBSET queue : Admit(s, r, evicted, w)
    BY <1>2, EnqueueAdmits
  <2>2. PICK entry : Admits(entry, evicted, w)
    BY <2>1, AdmitAdmits
  <2>3. QED
    BY <1>1, <2>2, AdmitsInOrder
<1>3. ASSUME NEW s \in Subscribers, EnqueueRefused(s)
      PROVE  OrderInv'
  BY <1>1, <1>3, FewerInOrder DEF EnqueueRefused, store
<1>4. ASSUME NEW s \in Subscribers, NEW wanted \in Kinds, take_page(s, wanted)
      PROVE  OrderInv'
  BY <1>1, <1>4, TakeInOrder
<1>5. ASSUME NEW h \in held, NEW w, SettleProved(h.page, w)
      PROVE  OrderInv'
  <2>1. queue' \subseteq queue /\ held' \subseteq held /\ next_ticket' = next_ticket
    BY <1>5 DEF SettleProved
  <2>2. QED
    BY <1>1, <2>1, FewerInOrder
<1>6. ASSUME NEW h \in held, settle_page(h.page)
      PROVE  OrderInv'
  BY <1>1, <1>5, <1>6, SettleUnprovedInOrder DEF settle_page
<1>7. ASSUME NEW s \in Subscribers, NEW wanted \in Kinds, flush_copies(s, wanted)
      PROVE  OrderInv'
  BY <1>1, <1>7, FewerInOrder DEF flush_copies, store
<1>8. ASSUME NEW c \in flown, NEW w \in WriteOutcomes, confirm(c, w)
      PROVE  OrderInv'
  <2>1. queue' \subseteq queue /\ held' \subseteq held /\ next_ticket' = next_ticket
    BY <1>8, ConfirmEffect
  <2>2. QED
    BY <1>1, <2>1, FewerInOrder
<1>9. ASSUME NEW c \in flown, release(c)
      PROVE  OrderInv'
  BY <1>1, <1>9, FewerInOrder DEF release, store
<1>10. ASSUME NEW gone, NEW w, Discard(gone, w)
       PROVE  OrderInv'
  <2>1. queue' \subseteq queue /\ held' \subseteq held /\ next_ticket' = next_ticket
    BY <1>10 DEF Discard
  <2>2. QED
    BY <1>1, <2>1, FewerInOrder
<1>11. ASSUME Restart
       PROVE  OrderInv'
  BY <1>1, <1>11, RestartInOrder
<1>12. ASSUME UNCHANGED vars
       PROVE  OrderInv'
  BY <1>1, <1>12, FewerInOrder DEF vars
<1>13. QED
  BY <1>2, <1>3, <1>4, <1>6, <1>7, <1>8, <1>9, <1>10, <1>11, <1>12 DEF Next, evict_expired, drain_channel

\* A subscriber that pulls one page at a time gets the blobs of a routing hash
\* in the order they came, through unproved pages, evictions and restarts.
THEOREM OnePullKeepsOrder ==
  ASSUME "uncommitted" \notin WriteOutcomes, OpenPages <= 1
  PROVE  Spec => []FirstInFirstOut
<1>1. Init => OrderInv
  BY InitStoreInv, InitSize
     DEF Init, OrderInv, SizeInv, FirstInFirstOut, OnePageEach, HeldCameFirst, HeldInOrder,
         PlacesBehindTickets, Stored, Held
<1>2. OrderInv /\ [Next]_vars => OrderInv'
  BY NextInOrder
<1>3. OrderInv => FirstInFirstOut
  BY DEF OrderInv
<1>4. QED
  BY <1>1, <1>2, <1>3, PTL DEF Spec
=============================================================================
