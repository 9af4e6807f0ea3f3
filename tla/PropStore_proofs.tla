--------------------------- MODULE PropStore_proofs ---------------------------
(***************************************************************************)
(* For any messages, peers and uploads: the store's marks, kept by slot    *)
(* number, are PeerMarks' marks by peer hash, and no upload wakes a        *)
(* recipient again.  For any nodes and pairs: what a node has to push to   *)
(* its backup stays in its hands until it is taken over (BackupChain).     *)
(***************************************************************************)
EXTENDS PropStore, BackupChain, FiniteSetTheorems, WellFoundedInduction, TLAPS

Markings == {"none", "handled", "unhandled"}

\* The slot of a peer, or the one it left and its marks still hold.
Own(p) == IF slot[p] # NoSlot THEN slot[p] ELSE departed[p]

\* Every mark is of a held message and of the one peer whose slot it is.
MarkInv ==
  /\ entries \subseteq Msgs
  /\ handled \in [Msgs -> SUBSET Slots] /\ unhandled \in [Msgs -> SUBSET Slots]
  /\ slot \in [Peers -> Slots \cup {NoSlot}] /\ departed \in [Peers -> Slots \cup {NoSlot}]
  /\ \A p \in peers : departed[p] = NoSlot
  /\ \A p, q \in Peers : p # q /\ Own(p) # NoSlot => Own(p) # Own(q)
  /\ \A m \in Msgs : handled[m] \cap unhandled[m] = {}
  /\ \A m \in Msgs : \A s \in handled[m] \cup unhandled[m] :
       m \in entries /\ \E p \in Peers : Own(p) = s

FileInv ==
  /\ file = [ids |-> file.ids, peers |-> file.peers]
  /\ DOMAIN file.peers \subseteq Peers
  /\ file.peers \in [DOMAIN file.peers -> [Msgs -> Markings]]

Marks == [m \in Msgs |-> [p \in Peers |-> MarkOf(m, p)]]

-----------------------------------------------------------------------------
(***************************************************************************)
(* Slots.                                                                  *)
(***************************************************************************)

LEMMA SlotsAreNumbers ==
  /\ Slots \subseteq Nat /\ NoSlot \notin Slots
  /\ IsFiniteSet(Slots) /\ Cardinality(Slots) = Cardinality(Peers)
<1>1. Cardinality(Peers) \in Nat
  BY ConstantsAssumption, FS_CardinalityType
<1>2. Cardinality(Peers) - 1 \in Int
  BY <1>1
<1>3. IsFiniteSet(Slots) /\ Cardinality(Slots) = Cardinality(Peers)
  BY <1>1, <1>2, FS_Interval DEF Slots
<1> QED BY <1>1, <1>3 DEF Slots, NoSlot

LEMMA LowestExists ==
  ASSUME NEW S \in SUBSET Nat, S # {}
  PROVE  \E s \in S : \A t \in S : s <= t
<1>1. PICK s \in S : \A t \in S : ~ (<<t, s>> \in OpToRel(<, Nat))
  BY NatLessThanWellFounded, WFMin
<1>2. ASSUME NEW t \in S PROVE s <= t
  <2>1. ~ (t < s)
    BY <1>1 DEF OpToRel
  <2> QED BY <2>1
<1> QED BY <1>2

\* A slot a peer has, or a departed peer's marks hold, is its own.
LEMMA SlotHasOwner ==
  ASSUME MarkInv, NEW q \in Peers, NEW s \in Slots, slot[q] = s \/ still_marked(departed)[q] = s
  PROVE  Own(q) = s
<1>1. CASE slot[q] = s
  BY <1>1, SlotsAreNumbers DEF Own
<1>2. CASE still_marked(departed)[q] = s
  <2>1. departed[q] = s
    BY <1>2, SlotsAreNumbers DEF still_marked
  <2>2. slot[q] = NoSlot
    BY <2>1, SlotsAreNumbers DEF MarkInv, peers
  <2> QED BY <2>1, <2>2 DEF Own
<1> QED BY <1>1, <1>2

\* There are as many slots as peers: one is free for a peer that has none.
LEMMA FreeSlotExists ==
  ASSUME MarkInv, NEW p \in Peers, Own(p) = NoSlot
  PROVE  \E s \in Slots : \A q \in Peers : slot[q] # s /\ still_marked(departed)[q] # s
<1> SUFFICES ASSUME \A s \in Slots : \E q \in Peers : slot[q] = s \/ still_marked(departed)[q] = s
             PROVE  FALSE
  OBVIOUS
<1> DEFINE owner == [s \in Slots |-> CHOOSE q \in Peers : Own(q) = s]
<1>1. \A s \in Slots : owner[s] \in Peers \ {p} /\ Own(owner[s]) = s
  <2> SUFFICES ASSUME NEW s \in Slots PROVE owner[s] \in Peers \ {p} /\ Own(owner[s]) = s
    OBVIOUS
  <2>1. \E q \in Peers : Own(q) = s
    BY SlotHasOwner
  <2>2. owner[s] \in Peers /\ Own(owner[s]) = s
    BY <2>1
  <2> QED BY <2>2, SlotsAreNumbers
<1>2. owner \in [Slots -> Peers \ {p}]
  BY <1>1
<1>3. IsFiniteSet(Peers \ {p}) /\ Cardinality(Peers \ {p}) < Cardinality(Slots)
  <2>1. IsFiniteSet(Peers) /\ Cardinality(Peers) \in Nat
    BY ConstantsAssumption, FS_CardinalityType
  <2>2. IsFiniteSet(Peers \ {p}) /\ Cardinality(Peers \ {p}) = Cardinality(Peers) - 1
    BY <2>1, FS_RemoveElement
  <2> QED BY <2>1, <2>2, SlotsAreNumbers
<1> HIDE DEF owner
<1>4. \E x, y \in Slots : x # y /\ owner[x] = owner[y]
  <2> DEFINE others == Peers \ {p}
  <2>1. IsFiniteSet(Slots) /\ IsFiniteSet(others) /\ Cardinality(others) < Cardinality(Slots)
    BY <1>3, SlotsAreNumbers
  <2>2. owner \in [Slots -> others]
    BY <1>2
  <2> HIDE DEF others
  <2> QED BY <2>1, <2>2, FS_PigeonHole
<1> QED BY <1>1, <1>4

LEMMA FreeSlotIsFree ==
  ASSUME MarkInv, NEW p \in Peers, Own(p) = NoSlot,
         NEW s, s = free_peer_slot(slot, still_marked(departed))
  PROVE  s \in Slots /\ \A q \in Peers : slot[q] # s /\ still_marked(departed)[q] # s
<1> DEFINE D == still_marked(departed)
           taken == {slot[q] : q \in Peers} \cup {D[q] : q \in Peers}
<1>1. Slots \ taken # {} /\ Slots \ taken \in SUBSET Nat
  BY FreeSlotExists, SlotsAreNumbers
<1>2. \E t \in Slots \ taken : \A u \in Slots \ taken : t <= u
  BY <1>1, LowestExists
<1>3. s = CHOOSE t \in Slots \ taken : \A u \in Slots \ taken : t <= u
  BY DEF free_peer_slot
<1>4. s \in Slots \ taken
  BY <1>2, <1>3
<1> QED BY <1>4

-----------------------------------------------------------------------------
(***************************************************************************)
(* A hash's mark is its slot's.                                            *)
(***************************************************************************)

OwnMarks ==
  \A m \in Msgs, p \in Peers :
    MarkOf(m, p) = IF Own(p) \in handled[m] THEN "handled"
                   ELSE IF Own(p) \in unhandled[m] THEN "unhandled" ELSE "none"

LEMMA MarksAreOwn == MarkInv => OwnMarks
BY SlotsAreNumbers DEF MarkInv, OwnMarks, MarkOf, MarksOf, Own

LEMMA MarksAreOwnNext == MarkInv' => OwnMarks'
BY MarksAreOwn, PTL

\* A peer has a slot of its own, and no other's marks are under it.
LEMMA PeerSlots ==
  ASSUME MarkInv
  PROVE  /\ \A p \in peers : p \in Peers /\ slot[p] \in Slots /\ Own(p) = slot[p]
         /\ \A p \in peers, q \in Peers : p # q => Own(q) # slot[p]
BY SlotsAreNumbers DEF MarkInv, peers, Own

-----------------------------------------------------------------------------
(***************************************************************************)
(* Messages stored, handled and dropped.                                   *)
(***************************************************************************)

LEMMA HandledKeepsMarks ==
  ASSUME MarkInv, NEW m \in Msgs, NEW from, NEW queued,
         \A s \in queued : s \notin handled[m] /\ \E p \in peers : s = slot[p],
         mark_handled_for(from, m, queued),
         entries' = entries \cup {m}, UNCHANGED peering
  PROVE  MarkInv'
<1> DEFINE mine == {slot[p] : p \in peers \cap {from}}
<1>1. /\ handled' = [handled EXCEPT ![m] = @ \cup mine]
      /\ unhandled' = [unhandled EXCEPT ![m] = (@ \cup queued) \ mine]
  BY DEF mark_handled_for
<1>2. /\ mine \subseteq Slots /\ queued \subseteq Slots
      /\ \A s \in mine \cup queued : \E p \in Peers : Own(p) = s
  BY PeerSlots
<1>3. slot' = slot /\ departed' = departed /\ peers' = peers /\ \A p : Own(p)' = Own(p)
  BY DEF peering, peers, Own
<1> HIDE DEF mine
<1>4. handled' \in [Msgs -> SUBSET Slots] /\ unhandled' \in [Msgs -> SUBSET Slots]
  BY <1>1, <1>2 DEF MarkInv
<1>5. \A n \in Msgs : handled'[n] \cap unhandled'[n] = {}
  BY <1>1 DEF MarkInv
<1>6. \A n \in Msgs : \A s \in handled'[n] \cup unhandled'[n] : n \in entries' /\ \E p \in Peers : Own(p) = s
  BY <1>1, <1>2 DEF MarkInv
<1>7. entries' \subseteq Msgs
  BY DEF MarkInv
<1> QED BY <1>3, <1>4, <1>5, <1>6, <1>7 DEF MarkInv

LEMMA StoreRefines ==
  ASSUME MarkInv, NEW u, NEW m \in Msgs, store_message(u, m)
  PROVE  MarkInv' /\ ByHash!Next
<1> DEFINE from == batch[u].from
           queued == {slot[p] : p \in peers \ {from}}
           others == IF from \in Peers THEN {from} ELSE {}
<1>1. /\ m \notin entries /\ entries' = entries \cup {m}
      /\ mark_handled_for(from, m, queued)
      /\ UNCHANGED <<slot, departed>> /\ file' = file
  BY DEF store_message, KnownHere, peering
<1>2. MarkInv'
  <2>1. \A s \in queued : s \notin handled[m] /\ \E p \in peers : s = slot[p]
    BY <1>1 DEF MarkInv
  <2> HIDE DEF from, queued
  <2> QED BY <1>1, <2>1, HandledKeepsMarks DEF peering
<1>3. peers' = peers /\ \A p : Own(p)' = Own(p)
  BY <1>1 DEF peers, Own
<1>4. handled[m] = {} /\ unhandled[m] = {}
  BY <1>1 DEF MarkInv
<1>5. /\ handled' = [handled EXCEPT ![m] = {slot[p] : p \in peers \cap {from}}]
      /\ unhandled' = [unhandled EXCEPT ![m] = queued \ {slot[p] : p \in peers \cap {from}}]
  BY <1>1, <1>4 DEF mark_handled_for
<1>6. OwnMarks /\ OwnMarks'
  BY <1>2, MarksAreOwn, MarksAreOwnNext
<1>7. ASSUME NEW n \in Msgs, n # m, NEW p \in Peers PROVE MarkOf(n, p)' = MarkOf(n, p)
  <2>1. handled'[n] = handled[n] /\ unhandled'[n] = unhandled[n]
    BY <1>5, <1>7 DEF MarkInv
  <2> QED BY <2>1, <1>3, <1>6 DEF OwnMarks
<1>8. ASSUME NEW p \in Peers
      PROVE  MarkOf(m, p)' = IF p \notin peers THEN "none" ELSE IF p \in others THEN "handled" ELSE "unhandled"
  <2>1. handled'[m] = {slot[q] : q \in peers \cap {from}} /\ unhandled'[m] = queued \ handled'[m]
    BY <1>5 DEF MarkInv
  <2>2. MarkOf(m, p)' = IF Own(p) \in handled'[m] THEN "handled"
                        ELSE IF Own(p) \in unhandled'[m] THEN "unhandled" ELSE "none"
    BY <1>3, <1>6 DEF OwnMarks
  <2>3. CASE p \notin peers
    <3>1. \A q \in peers : Own(p) # slot[q]
      BY <2>3, PeerSlots
    <3> QED BY <2>1, <2>2, <2>3, <3>1
  <2>4. CASE p \in peers
    <3>1. Own(p) = slot[p] /\ \A q \in peers : q # p => slot[q] # slot[p]
      BY <2>4, PeerSlots
    <3> QED BY <2>1, <2>2, <2>4, <3>1
  <2> QED BY <2>3, <2>4
<1>9. Marks' = [Marks EXCEPT ![m] = [p \in Peers |-> IF p \notin peers THEN "none"
                                                     ELSE IF p \in others THEN "handled" ELSE "unhandled"]]
  BY <1>7, <1>8 DEF Marks
<1>10. others \in {{}} \cup {{p} : p \in Peers}
  OBVIOUS
<1>11. ByHash!Store(m, others)
  BY <1>1, <1>3, <1>9 DEF ByHash!Store, Marks
<1> QED BY <1>2, <1>10, <1>11 DEF ByHash!Next

\* What is known already is handled for who brings it; a peer is handed what
\* was queued for it.
LEMMA HandleRefines ==
  ASSUME MarkInv, NEW m \in entries, NEW p \in peers,
         mark_handled_for(p, m, {}), UNCHANGED <<entries, peering, file>>
  PROVE  MarkInv' /\ ByHash!Next
<1>1. m \in Msgs /\ p \in Peers /\ entries' = entries \cup {m}
  BY PeerSlots DEF MarkInv
<1>2. MarkInv'
  BY <1>1, HandledKeepsMarks
<1>3. OwnMarks /\ OwnMarks'
  BY <1>2, MarksAreOwn, MarksAreOwnNext
<1>4. peers' = peers /\ \A q : Own(q)' = Own(q)
  BY DEF peers, peering, Own
<1>5. /\ handled' = [handled EXCEPT ![m] = @ \cup {slot[p]}]
      /\ unhandled' = [unhandled EXCEPT ![m] = @ \ {slot[p]}]
  BY DEF mark_handled_for
<1>6. ASSUME NEW n \in Msgs, NEW q \in Peers, n # m \/ q # p PROVE MarkOf(n, q)' = MarkOf(n, q)
  <2>1. CASE n # m
    <3>1. handled'[n] = handled[n] /\ unhandled'[n] = unhandled[n]
      BY <1>5, <2>1 DEF MarkInv
    <3> QED BY <3>1, <1>3, <1>4 DEF OwnMarks
  <2>2. CASE q # p
    <3>1. Own(q) # slot[p]
      BY <2>2, PeerSlots
    <3>2. Own(q) \in handled'[n] <=> Own(q) \in handled[n]
      BY <1>5, <3>1 DEF MarkInv
    <3>3. Own(q) \in unhandled'[n] <=> Own(q) \in unhandled[n]
      BY <1>5, <3>1 DEF MarkInv
    <3> QED BY <3>2, <3>3, <1>3, <1>4 DEF OwnMarks
  <2> QED BY <1>6, <2>1, <2>2
<1>7. MarkOf(m, p)' = "handled"
  <2>1. Own(p) \in handled'[m]
    BY <1>1, <1>5, PeerSlots DEF MarkInv
  <2> QED BY <2>1, <1>1, <1>3, <1>4 DEF OwnMarks
<1>8. Marks' = [Marks EXCEPT ![m][p] = "handled"]
  <2>1. Marks[m] = [q \in Peers |-> MarkOf(m, q)]
    BY <1>1 DEF Marks
  <2>2. [Marks[m] EXCEPT ![p] = "handled"] = [q \in Peers |-> MarkOf(m, q)']
    BY <1>6, <1>7, <1>1, <2>1
  <2>3. Marks' = [Marks EXCEPT ![m] = [q \in Peers |-> MarkOf(m, q)']]
    BY <1>6, <1>1 DEF Marks
  <2> QED BY <2>2, <2>3
<1>9. ByHash!Handle(m, p)
  BY <1>4, <1>8 DEF ByHash!Handle, Marks
<1> QED BY <1>1, <1>2, <1>9 DEF ByHash!Next

\* With a message its marks go.
LEMMA RemoveRefines ==
  ASSUME MarkInv, NEW gone \in SUBSET entries, remove(gone), UNCHANGED <<peering, file>>
  PROVE  MarkInv' /\ ByHash!Next
<1>1. /\ entries' = entries \ gone
      /\ handled' = [m \in Msgs |-> IF m \in gone THEN {} ELSE handled[m]]
      /\ unhandled' = [m \in Msgs |-> IF m \in gone THEN {} ELSE unhandled[m]]
  BY DEF remove
<1>2. slot' = slot /\ departed' = departed /\ peers' = peers /\ \A p : Own(p)' = Own(p)
  BY DEF peering, peers, Own
<1>3. MarkInv'
  BY <1>1, <1>2 DEF MarkInv
<1>4. OwnMarks /\ OwnMarks'
  BY <1>3, MarksAreOwn, MarksAreOwnNext
<1>5. ASSUME NEW m \in Msgs, NEW p \in Peers
      PROVE  MarkOf(m, p)' = IF m \in gone THEN "none" ELSE MarkOf(m, p)
  BY <1>1, <1>2, <1>4 DEF OwnMarks
<1>6. Marks' = [m \in Msgs |-> IF m \in gone THEN [p \in Peers |-> "none"] ELSE Marks[m]]
  BY <1>5 DEF Marks
<1>7. ByHash!Drop(gone)
  BY <1>1, <1>2, <1>6 DEF ByHash!Drop, ByHash!Unmarked, Marks
<1> QED BY <1>3, <1>7 DEF ByHash!Next

-----------------------------------------------------------------------------
(***************************************************************************)
(* Peers come and go.                                                      *)
(***************************************************************************)

\* A step that leaves the marks where they are and gives them the same owners.
SameMarks ==
  /\ UNCHANGED <<entries, marks, file>>
  /\ \A p \in Peers : \/ Own(p)' = Own(p)
                      \/ \A s \in {Own(p), Own(p)'} : Marked(s) = {}

LEMMA SameMarksUnchanged ==
  ASSUME MarkInv, MarkInv', SameMarks
  PROVE  Marks' = Marks
<1>1. OwnMarks /\ OwnMarks'
  BY MarksAreOwn, MarksAreOwnNext
<1>2. handled' = handled /\ unhandled' = unhandled
  BY DEF SameMarks, marks
<1>3. ASSUME NEW m \in Msgs, NEW p \in Peers PROVE MarkOf(m, p)' = MarkOf(m, p)
  <2>1. CASE Own(p)' = Own(p)
    BY <1>1, <1>2, <2>1 DEF OwnMarks
  <2>2. CASE \A s \in {Own(p), Own(p)'} : Marked(s) = {}
    <3>1. \A s \in {Own(p), Own(p)'} : s \notin handled[m] /\ s \notin unhandled[m]
      BY <2>2 DEF Marked
    <3> QED BY <1>1, <1>2, <3>1 DEF OwnMarks
  <2> QED BY <2>1, <2>2 DEF SameMarks
<1> QED BY <1>3 DEF Marks

\* What nobody owns marks nothing.
LEMMA FreeIsUnmarked ==
  ASSUME MarkInv, NEW s, \A p \in Peers : Own(p) # s
  PROVE  Marked(s) = {}
BY DEF MarkInv, Marked

LEMMA PeeredRefines ==
  ASSUME MarkInv, NEW p \in Peers, Peered(p)
  PROVE  MarkInv' /\ ByHash!Next
<1>1. p \notin peers /\ slot[p] = NoSlot /\ UNCHANGED <<entries, marks, file>>
  BY DEF Peered, peers, stored
<1>2. handled' = handled /\ unhandled' = unhandled /\ \A s : Marked(s)' = Marked(s)
  BY <1>1 DEF marks, Marked
<1>3. PICK s \in Slots :
        /\ slot' = [slot EXCEPT ![p] = s]
        /\ departed'[p] = NoSlot
        /\ \A q \in Peers : slot[q] # s /\ (q # p => departed'[q] # s)
        /\ departed' \in [Peers -> Slots \cup {NoSlot}]
        /\ \A q \in Peers : departed'[q] # departed[q] => departed'[q] = NoSlot /\ (q = p \/ Marked(departed[q]) = {})
        /\ Own(p) = s \/ (Own(p) = NoSlot /\ \A q \in Peers : Own(q) = s => q # p /\ Marked(s) = {})
  <2>1. CASE departed[p] # NoSlot
    <3>1. slot' = [slot EXCEPT ![p] = departed[p]] /\ departed' = [departed EXCEPT ![p] = NoSlot]
      BY <2>1 DEF Peered
    <3>2. Own(p) = departed[p] /\ departed[p] \in Slots
      BY <1>1, <2>1 DEF Own, MarkInv
    <3>3. \A q \in Peers : q # p => Own(q) # departed[p]
      BY <2>1, <3>2 DEF MarkInv
    <3>4. \A q \in Peers : slot[q] # departed[p] /\ (q # p => departed[q] # departed[p])
      BY <1>1, <2>1, <3>3 DEF Own, MarkInv, peers
    <3> QED BY <3>1, <3>2, <3>4 DEF MarkInv
  <2>2. CASE departed[p] = NoSlot
    <3> DEFINE D == still_marked(departed)
               s == free_peer_slot(slot, D)
    <3>1. departed' = D /\ slot' = [slot EXCEPT ![p] = s]
      BY <2>2 DEF Peered
    <3>2. Own(p) = NoSlot
      BY <1>1, <2>2 DEF Own
    <3>3. s \in Slots /\ \A q \in Peers : slot[q] # s /\ D[q] # s
      BY <3>2, FreeSlotIsFree
    <3>4. /\ D \in [Peers -> Slots \cup {NoSlot}]
          /\ \A q \in Peers : D[q] # departed[q] => D[q] = NoSlot /\ Marked(departed[q]) = {}
          /\ D[p] = NoSlot
      BY <2>2 DEF still_marked, MarkInv
    <3>5. ASSUME NEW q \in Peers, Own(q) = s PROVE q # p /\ Marked(s) = {}
      <4>1. departed[q] = s /\ D[q] # departed[q]
        BY <3>3, <3>5 DEF Own
      <4> QED BY <3>2, <3>3, <3>4, <3>5, <4>1, SlotsAreNumbers
    <3> HIDE DEF D, s
    <3> QED BY <3>1, <3>2, <3>3, <3>4, <3>5
  <2> QED BY <2>1, <2>2
<1>4. Own(p)' = s /\ \A q \in Peers : q # p => Own(q)' = (IF slot[q] # NoSlot THEN slot[q] ELSE departed'[q])
  BY <1>3, SlotsAreNumbers DEF MarkInv, Own
<1>5. peers' = peers \cup {p}
  BY <1>1, <1>3, SlotsAreNumbers DEF MarkInv, peers
<1>6. \A q \in Peers : q # p => Own(q)' = Own(q) \/ (Own(q)' = NoSlot /\ Marked(Own(q)) = {})
  BY <1>3, <1>4 DEF Own
<1>7. Marked(NoSlot) = {} /\ (Own(p) = NoSlot => Marked(s) = {})
  <2>1. Marked(NoSlot) = {}
    BY SlotsAreNumbers DEF MarkInv, Marked
  <2>2. ASSUME Own(p) = NoSlot PROVE Marked(s) = {}
    <3>1. CASE \E q \in Peers : Own(q) = s
      BY <1>3, <2>2, <3>1, SlotsAreNumbers
    <3>2. CASE \A q \in Peers : Own(q) # s
      BY <3>2, FreeIsUnmarked
    <3> QED BY <3>1, <3>2
  <2> QED BY <2>1, <2>2
<1>8. SameMarks
  <2>1. \A q \in Peers : \/ Own(q)' = Own(q)
                         \/ \A t \in {Own(q), Own(q)'} : Marked(t) = {}
    BY <1>3, <1>4, <1>6, <1>7
  <2> QED BY <1>1, <2>1 DEF SameMarks
<1>9. MarkInv'
  <2>1. slot' \in [Peers -> Slots \cup {NoSlot}] /\ departed' \in [Peers -> Slots \cup {NoSlot}]
    BY <1>3 DEF MarkInv
  <2>2. \A q \in peers' : departed'[q] = NoSlot
    BY <1>3, <1>5 DEF MarkInv, peers
  <2>3. \A q, r \in Peers : q # r /\ Own(q)' # NoSlot => Own(q)' # Own(r)'
    <3>1. \A q \in Peers : q # p => Own(q)' # s
      BY <1>3, <1>4
    <3>2. \A q, r \in Peers : q # p /\ r # p /\ q # r /\ Own(q)' # NoSlot => Own(q)' # Own(r)'
      BY <1>6 DEF MarkInv
    <3> QED BY <1>4, <3>1, <3>2
  <2>4. ASSUME NEW m \in Msgs, NEW t \in handled[m] \cup unhandled[m]
        PROVE  \E q \in Peers : Own(q)' = t
    <3>1. PICK q \in Peers : Own(q) = t
      BY DEF MarkInv
    <3>2. Marked(t) # {}
      BY DEF Marked
    <3> QED BY <1>8, <3>1, <3>2 DEF SameMarks
  <2> QED BY <1>1, <1>2, <2>1, <2>2, <2>3, <2>4 DEF MarkInv
<1>10. ByHash!Peered(p)
  BY <1>1, <1>5, <1>8, <1>9, SameMarksUnchanged DEF ByHash!Peered, Marks
<1> QED BY <1>9, <1>10 DEF ByHash!Next

LEMMA UnpeeredRefines ==
  ASSUME MarkInv, NEW p \in Peers, Unpeered(p)
  PROVE  MarkInv' /\ ByHash!Next
<1>1. /\ p \in peers /\ slot[p] \in Slots /\ Own(p) = slot[p] /\ departed[p] = NoSlot
      /\ UNCHANGED <<entries, marks, file>>
  BY PeerSlots DEF Unpeered, stored, MarkInv
<1>2. handled' = handled /\ unhandled' = unhandled /\ \A s : Marked(s)' = Marked(s)
  BY <1>1 DEF marks, Marked
<1>3. /\ slot' = [slot EXCEPT ![p] = NoSlot]
      /\ departed' = [departed EXCEPT ![p] = IF Marked(slot[p]) # {} THEN slot[p] ELSE NoSlot]
  BY <1>1 DEF Unpeered
<1>4. \A q \in Peers : q # p => Own(q)' = Own(q)
  BY <1>3 DEF MarkInv, Own
<1>5. Own(p)' = Own(p) \/ (Own(p)' = NoSlot /\ Marked(Own(p)) = {})
  BY <1>1, <1>3 DEF MarkInv, Own
<1>6. peers' = peers \ {p}
  BY <1>1, <1>3 DEF MarkInv, peers
<1>7. SameMarks
  <2>1. Marked(NoSlot) = {}
    BY SlotsAreNumbers DEF MarkInv, Marked
  <2> QED BY <2>1, <1>1, <1>4, <1>5 DEF SameMarks
<1>8. MarkInv'
  <2>1. slot' \in [Peers -> Slots \cup {NoSlot}] /\ departed' \in [Peers -> Slots \cup {NoSlot}]
    BY <1>1, <1>3 DEF MarkInv
  <2>2. \A q \in peers' : departed'[q] = NoSlot
    BY <1>3, <1>6 DEF MarkInv, peers
  <2>3. \A q, r \in Peers : q # r /\ Own(q)' # NoSlot => Own(q)' # Own(r)'
    BY <1>4, <1>5 DEF MarkInv
  <2>4. ASSUME NEW m \in Msgs, NEW t \in handled[m] \cup unhandled[m]
        PROVE  \E q \in Peers : Own(q)' = t
    <3>1. PICK q \in Peers : Own(q) = t
      BY DEF MarkInv
    <3>2. Marked(t) # {}
      BY DEF Marked
    <3> QED BY <1>7, <3>1, <3>2 DEF SameMarks
  <2> QED BY <1>1, <1>2, <2>1, <2>2, <2>3, <2>4 DEF MarkInv
<1>9. ByHash!Unpeered(p)
  BY <1>1, <1>6, <1>7, <1>8, SameMarksUnchanged DEF ByHash!Unpeered, Marks
<1> QED BY <1>1, <1>8, <1>9 DEF ByHash!Next, peers

-----------------------------------------------------------------------------
(***************************************************************************)
(* The next start.                                                         *)
(***************************************************************************)

Saved(record) ==
  /\ record = [ids |-> record.ids, peers |-> record.peers]
  /\ DOMAIN record.peers \subseteq Peers
  /\ record.peers \in [DOMAIN record.peers -> [Msgs -> Markings]]

LEMMA SaveIsTyped ==
  ASSUME MarkInv
  PROVE  /\ Saved(save_all)
         /\ save_all.peers = [p \in peers |-> [m \in Msgs |-> Marks[m][p]]]
<1>1. save_all.peers = [p \in peers |-> MarksOf(slot[p])]
  BY DEF save_all
<1>2. \A p \in peers : p \in Peers /\ slot[p] # NoSlot
  BY DEF peers
<1>3. \A s : MarksOf(s) \in [Msgs -> Markings]
  BY DEF MarksOf, Markings
<1>4. \A p \in peers : MarksOf(slot[p]) = [m \in Msgs |-> Marks[m][p]]
  BY <1>2 DEF Marks, MarkOf, MarksOf
<1> QED BY <1>1, <1>2, <1>3, <1>4 DEF Saved, save_all

\* The slots a start gives out are all different.
LEMMA SlotsDiffer ==
  ASSUME NEW now \in SUBSET Peers, NEW f,
         \A p \in now : f[p] \in 0..Cardinality(now) - 1,
         \A s \in 0..Cardinality(now) - 1 : \E p \in now : f[p] = s
  PROVE  \A p, q \in now : f[p] = f[q] => p = q
<1> DEFINE g == [p \in now |-> f[p]]
           T == 0..Cardinality(now) - 1
<1>1. IsFiniteSet(now) /\ Cardinality(now) \in Nat
  BY ConstantsAssumption, FS_Subset, FS_CardinalityType
<1>2. Cardinality(now) = Cardinality(T)
  <2>1. Cardinality(now) - 1 \in Int
    BY <1>1
  <2>2. Cardinality(T) = IF 0 > Cardinality(now) - 1 THEN 0 ELSE (Cardinality(now) - 1) - 0 + 1
    BY <2>1, FS_Interval
  <2> QED BY <1>1, <2>2
<1>3. g \in Surjection(now, T)
  BY DEF Surjection
<1> HIDE DEF T
<1>4. g \in Injection(now, T)
  BY <1>1, <1>2, <1>3, FS_SurjSameCardinalityImpliesInj
<1> QED BY <1>4 DEF Injection, IsInjective

LEMMA StartRefines ==
  ASSUME MarkInv, NEW saved, Saved(saved), Start(saved),
         saved.peers = file.peers \/ saved.peers = [p \in peers |-> [m \in Msgs |-> Marks[m][p]]]
  PROVE  MarkInv' /\ FileInv' /\ ByHash!Next
<1> DEFINE known == DOMAIN saved.peers
           now == known \cup StaticPeers
           named(m, mark) == {slot'[p] : p \in {q \in known : m \in entries /\ saved.peers[q][m] = mark}}
<1>1. known \subseteq now /\ now \subseteq Peers
  BY ConstantsAssumption DEF Saved
<1>2. /\ entries' = entries /\ file' = saved
      /\ slot' \in [Peers -> Slots \cup {NoSlot}]
      /\ departed' = [p \in Peers |-> NoSlot]
      /\ \A p \in Peers : slot'[p] # NoSlot <=> p \in now
      /\ {slot'[p] : p \in now} = 0..Cardinality(now) - 1
  BY DEF Start, load_peers, index_messagestore, stored
<1>3. \A m \in Msgs : handled'[m] = named(m, "handled") /\ unhandled'[m] = named(m, "unhandled")
  BY DEF Start, load_peers, read_peer_record
<1>4. \A p, q \in now : slot'[p] = slot'[q] => p = q
  <2>1. /\ \A p \in now : slot'[p] \in 0..Cardinality(now) - 1
        /\ \A s \in 0..Cardinality(now) - 1 : \E p \in now : slot'[p] = s
    BY <1>2
  <2> HIDE DEF now
  <2> QED BY <1>1, <2>1, SlotsDiffer
<1>5. \A p \in Peers : Own(p)' = IF p \in now THEN slot'[p] ELSE NoSlot
  BY <1>2 DEF Own
<1>6. peers' = now
  BY <1>1, <1>2 DEF peers
<1>7. \A m \in Msgs, mark \in Markings : named(m, mark) \subseteq Slots
  BY <1>1, <1>2
<1>8. FileInv'
  BY <1>2 DEF FileInv, Saved
<1>9. ASSUME NEW m \in Msgs, NEW mark \in {"handled", "unhandled"}, NEW p \in Peers
      PROVE  Own(p)' \in named(m, mark) <=> p \in known /\ m \in entries /\ saved.peers[p][m] = mark
  <2>1. NoSlot \notin named(m, mark)
    BY <1>1, <1>2
  <2> QED BY <1>1, <1>4, <1>5, <2>1
<1>10. MarkInv'
  <2>1. handled' \in [Msgs -> SUBSET Slots] /\ unhandled' \in [Msgs -> SUBSET Slots]
    <3>1. handled' = [m \in Msgs |-> named(m, "handled")] /\ unhandled' = [m \in Msgs |-> named(m, "unhandled")]
      BY DEF Start, load_peers, read_peer_record
    <3> HIDE DEF named
    <3> QED BY <1>7, <3>1 DEF Markings
  <2>2. \A p, q \in Peers : p # q /\ Own(p)' # NoSlot => Own(p)' # Own(q)'
    BY <1>4, <1>5
  <2>3. ASSUME NEW m \in Msgs, NEW mark \in {"handled", "unhandled"}, NEW s \in named(m, mark)
        PROVE  m \in entries /\ \E p \in Peers : Own(p)' = s /\ saved.peers[p][m] = mark
    BY <1>1, <1>5
  <2> HIDE DEF named
  <2>4. \A m \in Msgs : handled'[m] \cap unhandled'[m] = {}
    <3> SUFFICES ASSUME NEW m \in Msgs, NEW s \in handled'[m] \cap unhandled'[m] PROVE FALSE
      OBVIOUS
    <3>1. s \in named(m, "handled") /\ s \in named(m, "unhandled")
      BY <1>3
    <3>2. PICK p \in Peers : Own(p)' = s /\ saved.peers[p][m] = "handled"
      BY <2>3, <3>1
    <3>3. saved.peers[p][m] = "unhandled"
      BY <1>9, <3>1, <3>2
    <3> QED BY <3>2, <3>3
  <2>5. departed' \in [Peers -> Slots \cup {NoSlot}] /\ \A p \in peers' : departed'[p] = NoSlot
    BY <1>1, <1>2, <1>6
  <2>6. \A m \in Msgs : \A s \in handled'[m] \cup unhandled'[m] : m \in entries' /\ \E p \in Peers : Own(p)' = s
    BY <1>2, <1>3, <2>3
  <2> QED BY <1>2, <2>1, <2>2, <2>4, <2>5, <2>6 DEF MarkInv
<1>11. ASSUME NEW m \in Msgs, NEW p \in Peers
       PROVE  MarkOf(m, p)' = IF m \in entries /\ p \in known THEN saved.peers[p][m] ELSE "none"
  <2>1. MarkOf(m, p)' = IF Own(p)' \in named(m, "handled") THEN "handled"
                        ELSE IF Own(p)' \in named(m, "unhandled") THEN "unhandled" ELSE "none"
    BY <1>3, <1>10, MarksAreOwnNext DEF OwnMarks
  <2>2. p \in known => saved.peers[p][m] \in Markings
    BY DEF Saved
  <2> HIDE DEF named
  <2> QED BY <1>9, <2>1, <2>2 DEF Markings
<1>12. ByHash!Restarted(saved.peers)
  <2>1. Marks' = [m \in Msgs |-> [p \in Peers |-> IF m \in entries /\ p \in known THEN saved.peers[p][m] ELSE "none"]]
    BY <1>11 DEF Marks
  <2> QED BY <1>2, <1>6, <2>1 DEF ByHash!Restarted, Marks
<1> QED BY <1>8, <1>10, <1>12 DEF ByHash!Next, Marks

-----------------------------------------------------------------------------
(***************************************************************************)
(* Every step.                                                             *)
(***************************************************************************)

\* What touches neither the messages nor their marks.
LEMMA OtherSteps ==
  ASSUME MarkInv, UNCHANGED <<entries, marks, peering>>, file'.peers = file.peers
  PROVE  MarkInv' /\ UNCHANGED ByHash!vars
<1>1. /\ handled' = handled /\ unhandled' = unhandled /\ slot' = slot /\ departed' = departed
      /\ peers' = peers
  BY DEF marks, peering, peers
<1>2. MarkInv'
  BY <1>1 DEF MarkInv, peers, Own
<1>3. Marks' = Marks
  BY <1>1 DEF Marks, MarkOf, MarksOf
<1> QED BY <1>1, <1>2, <1>3 DEF ByHash!vars, Marks

LEMMA InitRefines == Init => MarkInv /\ FileInv /\ ByHash!Init
<1> SUFFICES ASSUME Init PROVE MarkInv /\ FileInv /\ ByHash!Init
  OBVIOUS
<1>1. peers = StaticPeers
  BY ConstantsAssumption DEF Init, peers
<1>2. \A p, q \in StaticPeers : slot[p] = slot[q] => p = q
  <2>1. /\ \A p \in StaticPeers : slot[p] \in 0..Cardinality(StaticPeers) - 1
        /\ \A s \in 0..Cardinality(StaticPeers) - 1 : \E p \in StaticPeers : slot[p] = s
    BY DEF Init
  <2> QED BY <2>1, ConstantsAssumption, SlotsDiffer
<1>3. MarkInv
  BY <1>2 DEF Init, MarkInv, Own, peers
<1>4. FileInv
  BY DEF Init, FileInv
<1>5. Marks = [m \in Msgs |-> [p \in Peers |-> "none"]]
  <2>1. \A m \in Msgs, p \in Peers : MarkOf(m, p) = "none"
    BY <1>3, MarksAreOwn DEF OwnMarks, Init
  <2> QED BY <2>1 DEF Marks
<1> QED BY <1>1, <1>3, <1>4, <1>5 DEF ByHash!Init, ByHash!Unmarked, Init, Marks

LEMMA StepRefines ==
  ASSUME MarkInv, FileInv, [Next]_vars
  PROVE  MarkInv' /\ FileInv' /\ [ByHash!Next]_(ByHash!vars)
<1>1. ASSUME file' = file PROVE FileInv'
  BY <1>1 DEF FileInv
<1>2. ASSUME NEW u, Setup(u) \/ Deliver(u) PROVE MarkInv' /\ FileInv' /\ UNCHANGED ByHash!vars
  BY <1>1, <1>2, OtherSteps DEF Setup, Deliver, stored
<1>3. ASSUME NEW u, NEW m \in Msgs, store_message(u, m) PROVE MarkInv' /\ FileInv' /\ ByHash!Next
  BY <1>1, <1>3, StoreRefines DEF store_message
<1>4. ASSUME NEW u, NEW m \in Msgs, Duplicate(u, m)
      PROVE  MarkInv' /\ FileInv' /\ [ByHash!Next]_(ByHash!vars)
  <2>1. UNCHANGED <<entries, peering, file>>
    BY <1>4 DEF Duplicate, stored
  <2>2. CASE m \in entries /\ batch[u].from \in peers
    <3>1. mark_handled_for(batch[u].from, m, {})
      BY <1>4, <2>2 DEF Duplicate
    <3> QED BY <1>1, <2>1, <2>2, <3>1, HandleRefines
  <2>3. CASE ~ (m \in entries /\ batch[u].from \in peers)
    <3>1. UNCHANGED marks
      <4>1. CASE m \in entries
        <5>1. {slot[p] : p \in peers \cap {batch[u].from}} = {}
          BY <2>3, <4>1
        <5>2. /\ handled' = [handled EXCEPT ![m] = @ \cup {}]
              /\ unhandled' = [unhandled EXCEPT ![m] = (@ \cup {}) \ {}]
          BY <1>4, <4>1, <5>1 DEF Duplicate, mark_handled_for
        <5> QED BY <5>2 DEF marks, MarkInv
      <4>2. CASE m \notin entries
        BY <1>4, <4>2 DEF Duplicate
      <4> QED BY <4>1, <4>2
    <3> QED BY <1>1, <2>1, <3>1, OtherSteps
  <2> QED BY <2>2, <2>3
<1>5. ASSUME NEW u, NEW m \in Msgs, NotWritten(u, m) PROVE MarkInv' /\ FileInv' /\ UNCHANGED ByHash!vars
  BY <1>1, <1>5, OtherSteps DEF NotWritten, stored
<1>6. ASSUME NEW m \in Msgs, Collected(m) PROVE MarkInv' /\ FileInv' /\ ByHash!Next
  BY <1>1, <1>6, RemoveRefines DEF Collected
<1>7. ASSUME NEW m, GrowsOld(m) PROVE MarkInv' /\ FileInv' /\ UNCHANGED ByHash!vars
  <2>1. file'.peers = file.peers /\ file' = [ids |-> file'.ids, peers |-> file.peers]
    BY <1>7 DEF GrowsOld, FileInv
  <2>2. FileInv'
    BY <2>1 DEF FileInv
  <2> QED BY <1>7, <2>1, <2>2, OtherSteps DEF GrowsOld
<1>8. CASE Evict
  <2>1. PICK gone \in SUBSET entries : remove(gone) /\ UNCHANGED <<peering, file>>
    BY <1>8 DEF Evict
  <2> QED BY <1>1, <2>1, RemoveRefines
<1>9. CASE Clean
  BY <1>1, <1>9, OtherSteps DEF Clean, stored
<1>10. ASSUME NEW p \in Peers, Peered(p) \/ Unpeered(p) PROVE MarkInv' /\ FileInv' /\ ByHash!Next
  BY <1>1, <1>10, PeeredRefines, UnpeeredRefines DEF Peered, Unpeered
<1>11. ASSUME NEW m \in Msgs, NEW p \in Peers, SyncedTo(m, p) PROVE MarkInv' /\ FileInv' /\ ByHash!Next
  <2>1. p \in peers /\ m \in entries /\ mark_handled_for(p, m, {}) /\ UNCHANGED <<entries, peering, file>>
    BY <1>11 DEF SyncedTo, stored
  <2> QED BY <1>1, <2>1, HandleRefines
<1>12. CASE CleanExit
  <2>1. Start(save_all)
    BY <1>12 DEF CleanExit
  <2> QED BY <2>1, SaveIsTyped, StartRefines
<1>13. CASE Crash
  <2>1. Start(file) /\ Saved(file)
    BY <1>13 DEF Crash, FileInv, Saved
  <2> QED BY <2>1, StartRefines
<1>14. CASE UNCHANGED vars
  BY <1>1, <1>14, OtherSteps DEF vars, stored
<1> QED BY <1>2, <1>3, <1>4, <1>5, <1>6, <1>7, <1>8, <1>9, <1>10, <1>11, <1>12, <1>13, <1>14 DEF Next

\* Slots are given out, given up and taken again (lxmf_propagation.rs, Slots,
\* insert_peer, unpeer, write_peer_record): every behaviour of the store is
\* one of LXMF's, where each hash has its marks.
THEOREM SlotsImplementHashes == Spec => MarksByHash
<1>1. MarkInv /\ FileInv /\ [Next]_vars => (MarkInv /\ FileInv)' /\ [ByHash!Next]_(ByHash!vars)
  BY StepRefines
<1> QED BY <1>1, InitRefines, PTL DEF Spec, MarksByHash, ByHash!Spec

-----------------------------------------------------------------------------
(***************************************************************************)
(* One push or wake for a message.                                         *)
(***************************************************************************)

Times == NoTime..Forgettable

Batches == [on : BOOLEAN, from : Peers \cup {Nobody}, todo : SUBSET Msgs, deliver : Msgs \cup {NoMsg}]

StoreTypes ==
  /\ entries \subseteq Msgs
  /\ received \in [Msgs -> Times] /\ processed \in [Msgs -> Times]
  /\ file = [ids |-> file.ids, peers |-> file.peers] /\ file.ids \in [Msgs -> Times]
  /\ \A m \in Msgs : received[m] # NoTime <=> m \in entries
  /\ batch \in [Uploads -> Batches]
  /\ scene \in Scenes
  /\ woken \subseteq Msgs

\* The id of a message whose recipient was pushed or woken is known: no copy
\* of it is stored again.
WokenIsKnown == \A m \in woken : processed[m] # NoTime

\* A message to be delivered was just recorded, for the first time, and is
\* with one upload only.
DeliveredOnce ==
  \A u \in Uploads : batch[u].deliver # NoMsg =>
    /\ batch[u].deliver \notin woken
    /\ processed[batch[u].deliver] = 0
    /\ \A v \in Uploads : v # u => batch[v].deliver # batch[u].deliver

WokenInv == StoreTypes /\ WokenIsKnown /\ DeliveredOnce

LEMMA InitWokenInv == Init => WokenInv
BY ConstantsAssumption DEF Init, WokenInv, StoreTypes, WokenIsKnown, DeliveredOnce, Times, Batches, NoBatch,
   NoTime, Forgettable

\* What changes neither the ids, the batches nor the woken.
LEMMA OthersKeepWokenInv ==
  ASSUME WokenInv, UNCHANGED <<processed, batch, scene, woken>>, file'.ids = file.ids,
         file' = [ids |-> file'.ids, peers |-> file'.peers], entries' \subseteq Msgs,
         received' \in [Msgs -> Times], \A m \in Msgs : received'[m] # NoTime <=> m \in entries'
  PROVE  WokenInv'
BY DEF WokenInv, StoreTypes, WokenIsKnown, DeliveredOnce

LEMMA RestOfBatch ==
  ASSUME NEW b \in Batches, NEW m \in Msgs, NEW deliver \in Msgs \cup {NoMsg}
  PROVE  Rest(b, m, deliver) \in Batches /\ Rest(b, m, deliver).deliver = deliver
BY DEF Rest, Batches

LEMMA BatchKeepsWokenInv ==
  ASSUME WokenInv, NEW u \in Uploads, NEW m \in Msgs,
         store_message(u, m) \/ Duplicate(u, m) \/ NotWritten(u, m)
  PROVE  WokenInv'
<1> USE DEF WokenInv, StoreTypes
<1>1. batch[u] \in Batches /\ batch[u].deliver = NoMsg
  BY DEF store_message, Duplicate, NotWritten
<1>2. CASE store_message(u, m)
  <2>1. /\ processed[m] = NoTime /\ m \notin entries
        /\ entries' = entries \cup {m} /\ received' = [received EXCEPT ![m] = 0]
        /\ processed' = [processed EXCEPT ![m] = 0]
        /\ batch' = [batch EXCEPT ![u] = Rest(batch[u], m, m)]
        /\ UNCHANGED <<file, scene, woken>>
    BY <1>2 DEF store_message, KnownHere
  <2>2. m \notin woken
    BY <2>1 DEF WokenIsKnown
  <2>3. 0 \in Times /\ 0 # NoTime
    BY DEF Times, NoTime, Forgettable
  <2>4. batch' \in [Uploads -> Batches] /\ batch'[u].deliver = m /\ \A v \in Uploads \ {u} : batch'[v] = batch[v]
    BY <2>1, <1>1, RestOfBatch
  <2>5. StoreTypes'
    BY <2>1, <2>3, <2>4
  <2>6. WokenIsKnown'
    BY <2>1, <2>3 DEF WokenIsKnown
  <2>7. \A v \in Uploads \ {u} : batch[v].deliver # m
    BY <2>1, <2>3, ConstantsAssumption DEF DeliveredOnce
  <2>8. DeliveredOnce'
    <3> SUFFICES ASSUME NEW v \in Uploads, batch'[v].deliver # NoMsg
                 PROVE  /\ batch'[v].deliver \notin woken /\ processed'[batch'[v].deliver] = 0
                        /\ \A w \in Uploads : w # v => batch'[w].deliver # batch'[v].deliver
      BY <2>1 DEF DeliveredOnce
    <3>1. CASE v = u
      BY <3>1, <2>1, <2>2, <2>4, <2>7
    <3>2. CASE v # u
      <4>1. batch'[v] = batch[v]
        BY <3>2, <2>4
      <4>2. batch[v].deliver \in Msgs
        BY <4>1 DEF Batches
      <4> QED BY <3>2, <4>1, <4>2, <2>1, <2>4, <2>7 DEF DeliveredOnce
    <3> QED BY <3>1, <3>2
  <2> QED BY <2>5, <2>6, <2>8
<1>3. CASE Duplicate(u, m) \/ NotWritten(u, m)
  <2>1. /\ batch' = [batch EXCEPT ![u] = Rest(batch[u], m, NoMsg)]
        /\ UNCHANGED <<stored, processed, file, scene, woken>>
    BY <1>3 DEF Duplicate, NotWritten
  <2>2. batch' \in [Uploads -> Batches] /\ \A v \in Uploads : batch'[v].deliver = batch[v].deliver
    BY <2>1, <1>1, RestOfBatch
  <2> QED BY <2>1, <2>2 DEF stored, WokenIsKnown, DeliveredOnce
<1> QED BY <1>2, <1>3

LEMMA UploadKeepsWokenInv ==
  ASSUME WokenInv, NEW u \in Uploads, Setup(u) \/ Deliver(u)
  PROVE  WokenInv'
<1> USE DEF WokenInv, StoreTypes
<1>1. \A v \in Uploads : v # u => batch'[v] = batch[v]
  BY DEF Setup, Deliver
<1>2. batch'[u].deliver = NoMsg /\ batch'[u] \in Batches /\ batch' \in [Uploads -> Batches]
  <2>1. CASE Setup(u)
    <3>1. batch' = [batch EXCEPT ![u] = [on |-> TRUE, todo |-> u.messages, deliver |-> NoMsg,
                                    from |-> IF u.sender \in peers THEN u.sender ELSE Nobody]]
      BY <2>1 DEF Setup
    <3>2. (IF u.sender \in peers THEN u.sender ELSE Nobody) \in Peers \cup {Nobody} /\ u.messages \in SUBSET Msgs
      BY ConstantsAssumption DEF peers
    <3> QED BY <3>1, <3>2 DEF Batches
  <2>2. CASE Deliver(u)
    <3>1. batch' = [batch EXCEPT ![u] = [batch[u] EXCEPT !.deliver = NoMsg, !.on = batch[u].todo # {}]]
      BY <2>2 DEF Deliver
    <3>2. batch[u] \in Batches
      OBVIOUS
    <3>3. [batch[u] EXCEPT !.deliver = NoMsg, !.on = batch[u].todo # {}] \in Batches
      BY <3>2 DEF Batches
    <3>4. [batch[u] EXCEPT !.deliver = NoMsg, !.on = batch[u].todo # {}].deliver = NoMsg
      BY <3>2 DEF Batches
    <3> QED BY <3>1, <3>3, <3>4
  <2> QED BY <2>1, <2>2
<1>3. UNCHANGED <<stored, processed, file, scene>>
  BY DEF Setup, Deliver
<1>4. woken \subseteq woken' /\ \A m \in woken' \ woken : m = batch[u].deliver /\ m # NoMsg
  BY DEF Setup, Deliver
<1>5. StoreTypes'
  <2>1. woken' \subseteq Msgs
    BY <1>4 DEF Batches
  <2> QED BY <2>1, <1>2, <1>3 DEF stored
<1>6. WokenIsKnown'
  <2>1. ASSUME NEW m \in woken' PROVE processed'[m] # NoTime
    <3>1. CASE m \in woken
      BY <3>1, <1>3 DEF WokenIsKnown
    <3>2. CASE m \notin woken
      BY <3>2, <1>3, <1>4 DEF DeliveredOnce, NoTime
    <3> QED BY <3>1, <3>2
  <2> QED BY <2>1 DEF WokenIsKnown
<1>7. DeliveredOnce'
  BY <1>1, <1>2, <1>3, <1>4 DEF DeliveredOnce
<1> QED BY <1>5, <1>6, <1>7

LEMMA AgeingKeepsWokenInv ==
  ASSUME WokenInv, NEW m \in Msgs, GrowsOld(m)
  PROVE  WokenInv'
<1> USE DEF WokenInv, StoreTypes
<1> DEFINE older(t) == IF t \in {NoTime, Forgettable} THEN t ELSE t + 1
<1>1. /\ \A u \in Uploads : batch[u].deliver # m
      /\ received' = [received EXCEPT ![m] = older(@)]
      /\ processed' = [processed EXCEPT ![m] = older(@)]
      /\ file' = [file EXCEPT !.ids[m] = older(@)]
      /\ UNCHANGED <<entries, batch, woken, scene>>
  BY DEF GrowsOld
<1>2. \A t \in Times : older(t) \in Times /\ (older(t) = NoTime <=> t = NoTime)
  BY DEF Times, NoTime, Forgettable
<1> HIDE DEF older
<1>3. /\ received' \in [Msgs -> Times] /\ processed' \in [Msgs -> Times]
      /\ file'.ids \in [Msgs -> Times] /\ file' = [ids |-> file'.ids, peers |-> file'.peers]
  BY <1>1, <1>2
<1>4. \A n \in Msgs : (received'[n] = NoTime <=> received[n] = NoTime) /\ (processed'[n] = NoTime <=> processed[n] = NoTime)
  BY <1>1, <1>2
<1>5. StoreTypes'
  BY <1>1, <1>3, <1>4
<1>6. WokenIsKnown'
  BY <1>1, <1>4 DEF WokenIsKnown
<1>7. DeliveredOnce'
  BY <1>1 DEF DeliveredOnce
<1> QED BY <1>5, <1>6, <1>7

LEMMA RemoveKeepsWokenInv ==
  ASSUME WokenInv, NEW gone \in SUBSET entries, remove(gone), UNCHANGED <<processed, batch, file, scene, woken>>
  PROVE  WokenInv'
<1>1. /\ received' \in [Msgs -> Times] /\ entries' \subseteq Msgs
      /\ \A m \in Msgs : received'[m] # NoTime <=> m \in entries'
  BY DEF remove, WokenInv, StoreTypes, Times, NoTime, Forgettable
<1> QED BY <1>1, OthersKeepWokenInv DEF WokenInv, StoreTypes

\* An id is forgotten with what is remembered of its push; what is being
\* delivered is not of that age.
LEMMA CleanKeepsWokenInv == WokenInv /\ Clean => WokenInv'
<1> SUFFICES ASSUME WokenInv, Clean PROVE WokenInv'
  OBVIOUS
<1> USE DEF WokenInv, StoreTypes
<1> DEFINE gone == {m \in Msgs : processed[m] >= Forgettable}
<1>1. /\ processed' = [m \in Msgs |-> IF m \in gone THEN NoTime ELSE processed[m]]
      /\ woken' = woken \ gone
      /\ UNCHANGED <<stored, batch, file, scene>>
  BY DEF Clean
<1>2. StoreTypes'
  BY <1>1 DEF stored, Times, NoTime, Forgettable
<1>3. WokenIsKnown'
  BY <1>1 DEF WokenIsKnown
<1>4. \A u \in Uploads : batch[u].deliver # NoMsg => batch[u].deliver \in Msgs \ gone
  <2> SUFFICES ASSUME NEW u \in Uploads, batch[u].deliver # NoMsg PROVE batch[u].deliver \in Msgs \ gone
    OBVIOUS
  <2>1. batch[u].deliver \in Msgs
    BY DEF Batches
  <2>2. processed[batch[u].deliver] = 0
    BY DEF DeliveredOnce
  <2> QED BY <2>1, <2>2 DEF Forgettable
<1>5. DeliveredOnce'
  BY <1>1, <1>4 DEF DeliveredOnce
<1> QED BY <1>2, <1>3, <1>5

\* What a start reads back of an id.
LEMMA StartReads ==
  ASSUME StoreTypes, NEW saved, saved.ids \in [Msgs -> Times], NEW m \in Msgs
  PROVE  /\ load_locally_processed(saved)[m] \in Times
         /\ saved.ids[m] # NoTime /\ saved.ids[m] < Forgettable => load_locally_processed(saved)[m] # NoTime
         /\ saved.ids[m] = NoTime /\ received[m] \in 0..Forgettable - 1 => load_locally_processed(saved)[m] # NoTime
<1>1. saved.ids[m] \in Times /\ received[m] \in Times /\ (received[m] # NoTime <=> m \in entries)
  BY DEF StoreTypes
<1> QED BY <1>1 DEF load_locally_processed, Times, NoTime, Forgettable

LEMMA StartKeepsWokenInv ==
  ASSUME WokenInv, NEW saved, saved = [ids |-> saved.ids, peers |-> saved.peers], saved.ids \in [Msgs -> Times],
         Start(saved), woken' \subseteq woken, \A m \in woken' : load_locally_processed(saved)[m] # NoTime
  PROVE  WokenInv'
<1> USE DEF WokenInv, StoreTypes
<1>1. /\ UNCHANGED stored /\ processed' = load_locally_processed(saved) /\ file' = saved
      /\ batch' = [u \in Uploads |-> NoBatch] /\ UNCHANGED scene
  BY DEF Start, index_messagestore
<1>2. processed' \in [Msgs -> Times]
  <2>1. processed' = [m \in Msgs |-> load_locally_processed(saved)[m]]
    BY <1>1 DEF load_locally_processed
  <2> QED BY <2>1, StartReads
<1>3. batch' \in [Uploads -> Batches] /\ \A u \in Uploads : batch'[u].deliver = NoMsg
  BY <1>1 DEF Batches, NoBatch
<1>4. StoreTypes'
  BY <1>1, <1>2, <1>3 DEF stored
<1>5. WokenIsKnown'
  BY <1>1 DEF WokenIsKnown
<1> QED BY <1>3, <1>4, <1>5 DEF DeliveredOnce

LEMMA CleanExitKeepsWokenInv == WokenInv /\ CleanExit => WokenInv'
<1> SUFFICES ASSUME WokenInv, CleanExit PROVE WokenInv'
  OBVIOUS
<1> USE DEF WokenInv, StoreTypes
<1>1. save_all = [ids |-> save_all.ids, peers |-> save_all.peers] /\ save_all.ids \in [Msgs -> Times]
  BY DEF save_all
<1>2. ASSUME NEW m \in woken' PROVE load_locally_processed(save_all)[m] # NoTime
  <2>1. m \in woken /\ m \in Msgs /\ processed[m] < Forgettable /\ processed[m] # NoTime
    BY <1>2 DEF CleanExit, WokenIsKnown
  <2>2. save_all.ids[m] = processed[m]
    BY <2>1 DEF save_all
  <2> QED BY <1>1, <2>1, <2>2, StartReads
<1> QED BY <1>1, <1>2, StartKeepsWokenInv DEF CleanExit

LEMMA CrashKeepsWokenInv == WokenInv /\ Crash => WokenInv'
<1> SUFFICES ASSUME WokenInv, Crash PROVE WokenInv'
  OBVIOUS
<1> USE DEF WokenInv, StoreTypes
<1>1. file.ids \in [Msgs -> Times] /\ Start(file) /\ woken' \subseteq woken
  BY DEF Crash
<1>2. ASSUME NEW m \in woken' PROVE load_locally_processed(file)[m] # NoTime
  <2>1. m \in Msgs /\ (IF file.ids[m] = NoTime THEN received[m] ELSE file.ids[m]) \in 0..Forgettable - 1
    BY <1>2 DEF Crash
  <2>2. CASE file.ids[m] = NoTime
    BY <1>1, <2>1, <2>2, StartReads
  <2>3. CASE file.ids[m] # NoTime
    <3>1. file.ids[m] < Forgettable
      BY <2>1, <2>3 DEF Forgettable
    <3> QED BY <1>1, <2>1, <2>3, <3>1, StartReads
  <2> QED BY <2>2, <2>3
<1> QED BY <1>1, <1>2, StartKeepsWokenInv

LEMMA StepKeepsWokenInv == WokenInv /\ [Next]_vars => WokenInv'
<1> SUFFICES ASSUME WokenInv, [Next]_vars PROVE WokenInv'
  OBVIOUS
<1>0. scene.uploads \subseteq Uploads /\ scene.ageing \subseteq Msgs
  BY ConstantsAssumption DEF WokenInv, StoreTypes
<1>1. ASSUME NEW u \in scene.uploads, Setup(u) \/ Deliver(u) PROVE WokenInv'
  BY <1>0, <1>1, UploadKeepsWokenInv
<1>2. ASSUME NEW u \in scene.uploads, NEW m \in Msgs, store_message(u, m) \/ Duplicate(u, m) \/ NotWritten(u, m)
      PROVE  WokenInv'
  BY <1>0, <1>2, BatchKeepsWokenInv
<1>3. ASSUME NEW m \in Msgs, Collected(m) PROVE WokenInv'
  BY <1>3, RemoveKeepsWokenInv DEF Collected
<1>4. ASSUME NEW m \in scene.ageing, GrowsOld(m) PROVE WokenInv'
  BY <1>0, <1>4, AgeingKeepsWokenInv
<1>5. CASE Evict
  <2>1. PICK gone \in SUBSET entries : remove(gone) /\ UNCHANGED <<processed, batch, file, scene, woken>>
    BY <1>5 DEF Evict
  <2> QED BY <2>1, RemoveKeepsWokenInv
<1>6. CASE Clean
  BY <1>6, CleanKeepsWokenInv
<1>7. CASE UNCHANGED <<stored, processed, batch, file, scene, woken>>
  BY <1>7, OthersKeepWokenInv DEF WokenInv, StoreTypes, stored
<1>8. ASSUME NEW p \in Peers, Peered(p) \/ Unpeered(p)
      PROVE  UNCHANGED <<stored, processed, batch, file, scene, woken>>
  BY <1>8 DEF Peered, Unpeered
<1>9. ASSUME NEW m \in Msgs, NEW p \in Peers, SyncedTo(m, p)
      PROVE  UNCHANGED <<stored, processed, batch, file, scene, woken>>
  BY <1>9 DEF SyncedTo
<1>10. CASE CleanExit
  BY <1>10, CleanExitKeepsWokenInv
<1>11. CASE Crash
  BY <1>11, CrashKeepsWokenInv
<1>12. CASE UNCHANGED vars
  BY <1>12, <1>7 DEF vars, stored
<1> QED BY <1>1, <1>2, <1>3, <1>4, <1>5, <1>6, <1>7, <1>8, <1>9, <1>10, <1>11, <1>12 DEF Next

\* However many uploads and peers bring a message (lxmf_propagation.rs,
\* ingest_propagation_batch: the check against the known ids and the record of
\* the new one are one acquisition of the node): for any batches, evictions,
\* exits and crashes, a recipient is pushed or woken once for it, until its id
\* is forgotten or lost.
THEOREM RecipientWokenOnce == Spec => WokenOnce
<1>1. ASSUME WokenInv
      PROVE  \A u \in Uploads : batch[u].deliver # NoMsg /\ batch'[u].deliver # batch[u].deliver /\ restarts' = restarts
               => batch[u].deliver \notin woken
  BY <1>1 DEF WokenInv, DeliveredOnce
<1> QED BY InitWokenInv, StepKeepsWokenInv, <1>1, PTL DEF Spec, WokenOnce

-----------------------------------------------------------------------------
(***************************************************************************)
(* Types of PropStore.                                                     *)
(***************************************************************************)

\* Of two messages held one was received first.
OrderInv ==
  /\ before \subseteq entries \X entries
  /\ \A m, n \in entries : m # n => (<<m, n>> \in before <=> <<n, m>> \notin before)

LEMMA StoreKeepsOrder ==
  ASSUME OrderInv, NEW u, NEW m, store_message(u, m)
  PROVE  OrderInv'
<1>1. m \notin entries /\ entries' = entries \cup {m} /\ before' = before \cup (entries \X {m})
  BY DEF store_message, KnownHere
<1>2. before' \subseteq entries' \X entries'
  BY <1>1 DEF OrderInv
<1>3. ASSUME NEW n \in entries', NEW o \in entries', n # o PROVE <<n, o>> \in before' <=> <<o, n>> \notin before'
  <2>1. CASE n = m
    <3>1. o \in entries /\ <<o, n>> \in before' /\ <<n, o>> \notin before'
      BY <1>1, <1>3, <2>1 DEF OrderInv
    <3> QED BY <3>1
  <2>2. CASE o = m
    <3>1. n \in entries /\ <<n, o>> \in before' /\ <<o, n>> \notin before'
      BY <1>1, <1>3, <2>2 DEF OrderInv
    <3> QED BY <3>1
  <2>3. CASE n # m /\ o # m
    <3>1. n \in entries /\ o \in entries
      BY <1>1, <2>3
    <3>2. (<<n, o>> \in before' <=> <<n, o>> \in before) /\ (<<o, n>> \in before' <=> <<o, n>> \in before)
      BY <1>1, <2>3
    <3> QED BY <1>3, <3>1, <3>2 DEF OrderInv
  <2> QED BY <2>1, <2>2, <2>3
<1> QED BY <1>2, <1>3 DEF OrderInv

LEMMA RemoveKeepsOrder ==
  ASSUME OrderInv, NEW gone, remove(gone)
  PROVE  OrderInv'
<1>1. entries' = entries \ gone /\ before' = {o \in before : o[1] \notin gone /\ o[2] \notin gone}
  BY DEF remove
<1>2. before' \subseteq entries' \X entries'
  BY <1>1 DEF OrderInv
<1>3. \A m, n \in entries' : <<m, n>> \in before' <=> <<m, n>> \in before
  BY <1>1
<1> QED BY <1>1, <1>2, <1>3 DEF OrderInv

LEMMA StepKeepsOrder == OrderInv /\ [Next]_vars => OrderInv'
<1> SUFFICES ASSUME OrderInv, [Next]_vars PROVE OrderInv'
  OBVIOUS
<1>1. CASE UNCHANGED <<entries, before>>
  BY <1>1 DEF OrderInv
<1>2. ASSUME NEW u, NEW m \in Msgs, store_message(u, m) PROVE OrderInv'
  BY <1>2, StoreKeepsOrder
<1>3. ASSUME NEW m \in Msgs, Collected(m) PROVE OrderInv'
  BY <1>3, RemoveKeepsOrder DEF Collected
<1>4. CASE Evict
  BY <1>4, RemoveKeepsOrder DEF Evict
<1>5. ASSUME NEW u, Setup(u) \/ Deliver(u) PROVE UNCHANGED <<entries, before>>
  BY <1>5 DEF Setup, Deliver, stored
<1>6. ASSUME NEW u, NEW m, Duplicate(u, m) \/ NotWritten(u, m) PROVE UNCHANGED <<entries, before>>
  BY <1>6 DEF Duplicate, NotWritten, stored
<1>7. ASSUME NEW p, Peered(p) \/ Unpeered(p) PROVE UNCHANGED <<entries, before>>
  BY <1>7 DEF Peered, Unpeered, stored
<1>8. ASSUME NEW m, NEW p, SyncedTo(m, p) PROVE UNCHANGED <<entries, before>>
  BY <1>8 DEF SyncedTo, stored
<1>9. ASSUME NEW m, GrowsOld(m) PROVE UNCHANGED <<entries, before>>
  BY <1>9 DEF GrowsOld
<1>10. CASE Clean \/ CleanExit \/ Crash \/ UNCHANGED vars
  BY <1>1, <1>10 DEF Clean, CleanExit, Crash, Start, index_messagestore, vars, stored
<1> QED BY <1>1, <1>2, <1>3, <1>4, <1>5, <1>6, <1>7, <1>8, <1>9, <1>10 DEF Next

StartsInv == scene \in Scenes /\ restarts \in 0..scene.restarts

LEMMA StepKeepsStarts == StartsInv /\ [Next]_vars => StartsInv'
<1> SUFFICES ASSUME StartsInv, [Next]_vars PROVE StartsInv'
  OBVIOUS
<1>1. scene.restarts \in Nat
  BY ConstantsAssumption DEF StartsInv
<1>2. CASE UNCHANGED <<scene, restarts>>
  BY <1>2 DEF StartsInv
<1>3. CASE CleanExit \/ Crash
  <2>1. scene' = scene /\ restarts' = restarts + 1 /\ restarts < scene.restarts
    BY <1>3 DEF CleanExit, Crash, Start
  <2> QED BY <1>1, <2>1 DEF StartsInv
<1>4. ASSUME NEW u, Setup(u) \/ Deliver(u) PROVE UNCHANGED <<scene, restarts>>
  BY <1>4 DEF Setup, Deliver
<1>5. ASSUME NEW u, NEW m, store_message(u, m) \/ Duplicate(u, m) \/ NotWritten(u, m) PROVE UNCHANGED <<scene, restarts>>
  BY <1>5 DEF store_message, Duplicate, NotWritten
<1>6. ASSUME NEW p, Peered(p) \/ Unpeered(p) PROVE UNCHANGED <<scene, restarts>>
  BY <1>6 DEF Peered, Unpeered
<1>7. ASSUME NEW m, Collected(m) \/ GrowsOld(m) \/ (\E p \in Peers : SyncedTo(m, p)) PROVE UNCHANGED <<scene, restarts>>
  BY <1>7 DEF Collected, GrowsOld, SyncedTo
<1>8. CASE Evict \/ Clean \/ UNCHANGED vars
  BY <1>2, <1>8 DEF Evict, Clean, vars
<1> QED BY <1>2, <1>3, <1>4, <1>5, <1>6, <1>7, <1>8 DEF Next

\* What TypeOK says of slots and marks is MarkInv's: a slot is one peer's, and
\* none takes one that a departed peer's marks hold.
LEMMA SlotsAreTyped ==
  ASSUME MarkInv
  PROVE  /\ \A m \in Msgs :
              /\ handled[m] \cup unhandled[m] \subseteq (IF m \in entries THEN Slots ELSE {})
              /\ handled[m] \cap unhandled[m] = {}
         /\ \A p, q \in Peers :
              /\ p # q /\ slot[p] # NoSlot => slot[p] # slot[q]
              /\ p \in peers => departed[p] = NoSlot
              /\ slot[p] # NoSlot /\ slot[p] = departed[q] => Marked(slot[p]) = {}
<1>1. \A m \in Msgs :
        /\ handled[m] \cup unhandled[m] \subseteq (IF m \in entries THEN Slots ELSE {})
        /\ handled[m] \cap unhandled[m] = {}
  BY DEF MarkInv
<1>2. ASSUME NEW p \in Peers, NEW q \in Peers, p # q, slot[p] # NoSlot PROVE slot[p] # slot[q]
  <2>1. Own(p) = slot[p] /\ Own(q) # Own(p)
    BY <1>2 DEF MarkInv, Own
  <2> QED BY <1>2, <2>1 DEF Own
<1>3. \A p \in peers : departed[p] = NoSlot
  BY DEF MarkInv
<1>4. ASSUME NEW p \in Peers, NEW q \in Peers, slot[p] # NoSlot, slot[p] = departed[q] PROVE FALSE
  <2>1. q \notin peers
    BY <1>3, <1>4
  <2>2. Own(q) = departed[q] /\ Own(p) = slot[p] /\ p # q
    BY <1>4, <2>1 DEF Own, peers
  <2> QED BY <1>4, <2>2 DEF MarkInv
<1> QED BY <1>1, <1>2, <1>3, <1>4

\* Types for any messages, peers, uploads and restarts: what is held is held
\* with its time and its place in the order, marks are of held messages, a
\* slot is one peer's, present or departed (PropagationEntries, peers,
\* departed_slots).
THEOREM StoreTypeCorrect == Spec => []TypeOK
<1>1. Init => OrderInv /\ StartsInv
  BY ConstantsAssumption DEF Init, OrderInv, StartsInv
<1>2. MarkInv /\ WokenInv /\ OrderInv /\ StartsInv => TypeOK
  <2> SUFFICES ASSUME MarkInv, WokenInv, OrderInv, StartsInv PROVE TypeOK
    OBVIOUS
  <2>1. /\ slot \in [Peers -> Slots \cup {NoSlot}] /\ departed \in [Peers -> Slots \cup {NoSlot}]
        /\ entries \subseteq Msgs
    BY DEF MarkInv
  <2>2. /\ received \in [Msgs -> NoTime..Forgettable] /\ processed \in [Msgs -> NoTime..Forgettable]
        /\ \A m \in Msgs : received[m] # NoTime <=> m \in entries
        /\ woken \subseteq Msgs
    BY DEF WokenInv, StoreTypes, Times
  <2> QED BY <2>1, <2>2, SlotsAreTyped DEF OrderInv, StartsInv, TypeOK
<1>3. MarkInv /\ FileInv /\ [Next]_vars => MarkInv' /\ FileInv'
  BY StepRefines
<1> QED BY <1>1, <1>2, <1>3, InitRefines, InitWokenInv, StepKeepsWokenInv, StepKeepsOrder, StepKeepsStarts, PTL DEF Spec

-----------------------------------------------------------------------------
(***************************************************************************)
(* BackupChain: the pairs a node has in hand for its backup.               *)
(***************************************************************************)

BackupRow == [pair : Pairs, owner : Nodes, age : Int]

Batch(p) == p \in [from : Nodes, to : {p.to}, pairs : SUBSET Pairs, up : BOOLEAN]

\* The sorts of what a node has in hand or may adopt.
HandInv ==
  /\ pending \in [Nodes -> SUBSET Pairs]
  /\ \A p \in pushes : Batch(p)
  /\ backup \in [Nodes -> SUBSET BackupRow]

LEMMA InitHand == ChainInit => HandInv
BY DEF ChainInit, HandInv

-----------------------------------------------------------------------------

LEMMA OldRowsTyped ==
  ASSUME HandInv, NEW n \in Nodes, NEW adopted \in SUBSET offline_rows(n), NEW to
  PROVE  UNION {ChainExtension(adopted, t) : t \in to} \subseteq Pairs
<1>1. \A r \in adopted : r.pair \in Pairs
  BY DEF HandInv, BackupRow, offline_rows, prune_stale_backups
<1> QED BY <1>1 DEF ChainExtension

LEMMA TickKeepsHand ==
  ASSUME HandInv, NEW n \in Nodes, Tick(n)
  PROVE  HandInv'
<1>1. PICK to \in Backups(n), adopted \in SUBSET offline_rows(n), path \in BOOLEAN :
        LET more == UNION {ChainExtension(adopted, t) : t \in to} IN
        /\ path => Cardinality(pushes) < MostPushes
        /\ selected' = IF Designated[n] = <<>> THEN [selected EXCEPT ![n] = to] ELSE selected
        /\ backup' = [backup EXCEPT ![n] = prune_stale_backups(n)]
        /\ pending' = [pending EXCEPT ![n] =
             IF to = {} THEN @ ELSE Requeued(@, path) \cup Requeued(more, path)]
        /\ pushes' = pushes \cup UNION {Sent(n, t, pending[n], path) \cup Sent(n, t, more, path) : t \in to}
        /\ UNCHANGED <<own, silence>>
  BY DEF Tick
<1> DEFINE more == UNION {ChainExtension(adopted, t) : t \in to}
<1>2. more \subseteq Pairs
  BY OldRowsTyped
<1>3. pending[n] \subseteq Pairs /\ prune_stale_backups(n) \subseteq BackupRow
  BY DEF HandInv, prune_stale_backups
<1>4. pending' \in [Nodes -> SUBSET Pairs]
  <2>1. (IF to = {} THEN pending[n]
         ELSE Requeued(pending[n], path) \cup Requeued(more, path)) \subseteq Pairs
    BY <1>2, <1>3 DEF Requeued
  <2> HIDE DEF more
  <2> QED BY <1>1, <2>1 DEF HandInv, more
<1>5. backup' \in [Nodes -> SUBSET BackupRow]
  BY <1>1, <1>3 DEF HandInv
<1>6. \A p \in pushes' : Batch(p)
  <2> HIDE DEF more
  <2>1. pushes' = pushes \cup
             UNION {Sent(n, t, pending[n], path) \cup Sent(n, t, more, path) : t \in to}
    BY <1>1 DEF more
  <2>2. ASSUME NEW t, NEW pairs \in SUBSET Pairs, NEW p \in Sent(n, t, pairs, path)
        PROVE  Batch(p)
    <3>1. [from |-> n, to |-> t, pairs |-> pairs, up |-> FALSE]
            \in [from : Nodes, to : {t}, pairs : SUBSET Pairs, up : BOOLEAN]
      OBVIOUS
    <3>2. p = [from |-> n, to |-> t, pairs |-> pairs, up |-> FALSE]
      BY <2>2 DEF Sent
    <3>3. p.to = t
      BY <3>2
    <3> QED BY <3>1, <3>2, <3>3 DEF Batch
  <2> QED BY <1>2, <1>3, <2>1, <2>2 DEF HandInv
<1> QED BY <1>4, <1>5, <1>6 DEF HandInv

\* A push whose link comes up is the same push.
LEMMA LinkUp ==
  ASSUME NEW p, Batch(p), Established(p)
  PROVE  \E q : /\ pushes' = (pushes \ {p}) \cup {q}
               /\ Batch(q) /\ q.from = p.from /\ q.pairs = p.pairs
<1> DEFINE q == [p EXCEPT !.up = TRUE]
<1>1. q \in [from : Nodes, to : {p.to}, pairs : SUBSET Pairs, up : BOOLEAN]
  BY DEF Batch
<1>2. q.from = p.from /\ q.pairs = p.pairs
  BY DEF Batch
<1>3. pushes' = (pushes \ {p}) \cup {q}
  BY DEF Established
<1> HIDE DEF q
<1>4. Batch(q)
  BY <1>1 DEF Batch
<1> QED BY <1>2, <1>3, <1>4

\* Rows taken from a push, and queued again by its callbacks.
LEMMA PushKeepsHand ==
  ASSUME HandInv, NEW p \in pushes,
         Established(p) \/ PushLost(p) \/ PushFailed(p) \/ (\E answered \in BOOLEAN : BackupPush(p, answered))
  PROVE  HandInv'
<1>1. Batch(p) /\ p.from \in Nodes /\ p.pairs \subseteq Pairs
  BY DEF HandInv, Batch
<1>2. \A q \in pushes' : Batch(q)
  <2>1. CASE Established(p)
    BY <1>1, <2>1, LinkUp DEF HandInv
  <2>2. CASE ~ Established(p)
    BY <2>2 DEF HandInv, PushLost, PushFailed, BackupPush
  <2> QED BY <2>1, <2>2
<1>3. pending' \in [Nodes -> SUBSET Pairs]
  <2>1. pending' = pending \/ pending' = [pending EXCEPT ![p.from] = @ \cup p.pairs]
    BY DEF Established, PushLost, PushFailed, BackupPush, Again
  <2> QED BY <1>1, <2>1 DEF HandInv
<1>4. backup' \in [Nodes -> SUBSET BackupRow]
  <2>1. CASE backup' = backup
    BY <2>1 DEF HandInv
  <2>2. CASE \E answered \in BOOLEAN : BackupPush(p, answered)
    <3>1. ASSUME p.to \in Nodes
          PROVE  Refreshed(p.to, p.from, {q \in p.pairs : ~ is_distro_pair(p.to, q)}) \subseteq BackupRow
      BY <1>1, <3>1 DEF Refreshed, HandInv, BackupRow
    <3> QED BY <2>2, <3>1 DEF BackupPush, HandInv
  <2> QED BY <2>1, <2>2 DEF Established, PushLost, PushFailed
<1> QED BY <1>2, <1>3, <1>4 DEF HandInv

LEMMA StepKeepsHand ==
  ASSUME HandInv, [ChainNext]_chain_vars
  PROVE  HandInv'
<1>1. ASSUME NEW n \in Nodes, NEW pair \in Pairs,
             Subscribe(n, pair) \/ Unsubscribe(n, pair) \/ ExpireStale(n, pair)
      PROVE  HandInv'
  <2>1. pending' \in [Nodes -> SUBSET Pairs]
    <3>1. pending' = pending \/ pending' = [pending EXCEPT ![n] = @ \cup {pair}]
      BY <1>1 DEF Subscribe, queue_push, Unsubscribe, ExpireStale
    <3> QED BY <3>1 DEF HandInv
  <2>2. backup' \in [Nodes -> SUBSET BackupRow]
    BY <1>1 DEF HandInv, Subscribe, Unsubscribe, unsubscribe, ExpireStale
  <2>3. pushes' = pushes
    BY <1>1 DEF Subscribe, Unsubscribe, ExpireStale
  <2> QED BY <2>1, <2>2, <2>3 DEF HandInv
<1>2. ASSUME NEW n \in Nodes, Tick(n) PROVE HandInv'
  BY <1>2, TickKeepsHand
<1>3. ASSUME NEW n \in Nodes, Restart(n) PROVE HandInv'
  BY <1>3 DEF HandInv, Restart
<1>4. ASSUME NEW p \in pushes,
             Established(p) \/ PushLost(p) \/ PushFailed(p) \/ (\E answered \in BOOLEAN : BackupPush(p, answered))
      PROVE  HandInv'
  BY <1>4, PushKeepsHand
<1>5. CASE Elapse
  <2>1. ASSUME NEW n \in Nodes, NEW r \in backup[n]
        PROVE  [r EXCEPT !.age = Older(r.age, Ttl + 1)] \in BackupRow
    <3>1. r \in BackupRow
      BY DEF HandInv
    <3>2. Older(r.age, Ttl + 1) \in Int
      BY <3>1, ChainAssumption DEF BackupRow, Older
    <3> QED BY <3>1, <3>2 DEF BackupRow
  <2>2. backup' \in [Nodes -> SUBSET BackupRow]
    BY <1>5, <2>1 DEF Elapse
  <2> QED BY <1>5, <2>2 DEF HandInv, Elapse
<1>6. ASSUME NEW n \in Nodes, NEW p \in Nodes, Hear(n, p) \/ ForgetPeer(n, p) PROVE HandInv'
  BY <1>6 DEF HandInv, Hear, ForgetPeer
<1>7. CASE UNCHANGED chain_vars
  BY <1>7 DEF HandInv, chain_vars
<1> QED BY <1>1, <1>2, <1>3, <1>4, <1>5, <1>6, <1>7 DEF ChainNext

-----------------------------------------------------------------------------
(***************************************************************************)
(* Out of a node's hands.                                                  *)
(***************************************************************************)

\* What a tick takes off the queue goes into a push or back onto it.
LEMMA TickLosesNothing ==
  ASSUME HandInv, NEW m \in Nodes, Tick(m), NEW n \in Nodes
  PROVE  InHand(n) \subseteq InHand(n)'
<1>1. PICK to \in Backups(m), adopted \in SUBSET offline_rows(m), path \in BOOLEAN :
        LET more == UNION {ChainExtension(adopted, t) : t \in to} IN
        /\ path => Cardinality(pushes) < MostPushes
        /\ selected' = IF Designated[m] = <<>> THEN [selected EXCEPT ![m] = to] ELSE selected
        /\ backup' = [backup EXCEPT ![m] = prune_stale_backups(m)]
        /\ pending' = [pending EXCEPT ![m] =
             IF to = {} THEN @ ELSE Requeued(@, path) \cup Requeued(more, path)]
        /\ pushes' = pushes \cup UNION {Sent(m, t, pending[m], path) \cup Sent(m, t, more, path) : t \in to}
        /\ UNCHANGED <<own, silence>>
  BY DEF Tick
<1> DEFINE more == UNION {ChainExtension(adopted, t) : t \in to}
<1>2. /\ pending'[m] = IF to = {} THEN pending[m]
                       ELSE Requeued(pending[m], path) \cup Requeued(more, path)
      /\ n # m => pending'[n] = pending[n]
  BY <1>1 DEF HandInv
<1>3. pushes \subseteq pushes'
  BY <1>1
<1>4. ASSUME NEW pair \in pending[n], pair \notin pending'[n]
      PROVE  \E p \in pushes' : p.from = n /\ pair \in p.pairs
  <2>1. n = m
    BY <1>2, <1>4
  <2>2. to # {} /\ path
    BY <1>2, <1>4, <2>1 DEF Requeued
  <2>3. PICK t \in to : TRUE
    BY <2>2
  <2>4. [from |-> m, to |-> t, pairs |-> pending[m], up |-> FALSE] \in Sent(m, t, pending[m], path)
    BY <1>4, <2>1, <2>2 DEF Sent
  <2>5. [from |-> m, to |-> t, pairs |-> pending[m], up |-> FALSE] \in pushes'
    <3>1. Sent(m, t, pending[m], path) \subseteq pushes'
      BY <1>1, <2>3
    <3> QED BY <2>4, <3>1
  <2> QED BY <1>4, <2>1, <2>5
<1> QED BY <1>3, <1>4 DEF InHand

\* A push that ends leaves the others, and takes none of the queue.
LEMMA PushEnds ==
  ASSUME HandInv, NEW p \in pushes,
         PushFailed(p) \/ BackupPush(p, FALSE),
         NEW n \in Nodes
  PROVE  InHand(n) \subseteq InHand(n)'
<1> USE DEF Batch
<1>1. pushes' = pushes \ {p} /\ pending' = [pending EXCEPT ![p.from] = @ \cup p.pairs] /\ p.from \in Nodes
  BY DEF PushFailed, BackupPush, Again, HandInv
<1>2. pending[n] \subseteq pending'[n] /\ (p.from = n => p.pairs \subseteq pending'[n])
  BY <1>1 DEF HandInv
<1> QED BY <1>1, <1>2 DEF InHand

LEMMA LinkUpLosesNothing ==
  ASSUME HandInv, NEW p \in pushes, Established(p), NEW n \in Nodes
  PROVE  InHand(n) \subseteq InHand(n)'
<1>1. Batch(p) /\ pending' = pending
  BY DEF HandInv, Established
<1>2. PICK q : /\ pushes' = (pushes \ {p}) \cup {q}
               /\ q.from = p.from /\ q.pairs = p.pairs
  BY <1>1, LinkUp
<1>3. ASSUME NEW r \in pushes, r.from = n, NEW pair \in r.pairs
      PROVE  \E t \in pushes' : t.from = n /\ pair \in t.pairs
  BY <1>2, <1>3
<1> QED BY <1>1, <1>3 DEF InHand

LEMMA PushTaken ==
  ASSUME NEW p \in pushes, PushLost(p) \/ BackupPush(p, TRUE),
         NEW n \in Nodes, NEW pair \in InHand(n) \ InHand(n)'
  PROVE  p.from = n /\ pair \in p.pairs
<1>1. pushes' = pushes \ {p} /\ pending' = pending
  BY DEF PushLost, BackupPush
<1> QED BY <1>1 DEF InHand

-----------------------------------------------------------------------------
(***************************************************************************)
(* BackupChain: types, one row of a pair and owner, one selected backup.   *)
(***************************************************************************)

OneRow(S) == S \subseteq Row /\ \A r, q \in S : r.pair = q.pair /\ r.owner = q.owner => r = q

OneBackup(n) ==
  /\ selected[n] = {} \/ \E p \in Nodes : selected[n] = {p}
  /\ Designated[n] # <<>> => selected[n] = {}

ChainInv ==
  /\ HandInv
  /\ own \in [Nodes -> SUBSET Pairs]
  /\ backup \in [Nodes -> SUBSET Row] /\ \A n \in Nodes : OneRow(backup[n])
  /\ pushes \subseteq Push
  /\ silence \in [Nodes -> [Nodes -> 0 .. Unknown]]
  /\ selected \in [Nodes -> SUBSET Nodes] /\ \A n \in Nodes : OneBackup(n)

LEMMA SilenceRange == Offline \in Nat /\ Unknown \in Nat /\ Unknown = Offline + 1
BY ChainAssumption DEF Unknown

LEMMA InitChain == ChainInit => ChainInv
BY InitHand, ChainAssumption DEF ChainInit, ChainInv, OneRow, OneBackup, Unknown

LEMMA BackupsAreNodes ==
  ASSUME ChainInv, NEW n \in Nodes
  PROVE  resolve_backup(n) \subseteq Nodes
<1>1. CASE Designated[n] # <<>>
  <2>1. Designated[n] \in Seq(Nodes) /\ 1 \in DOMAIN Designated[n]
    BY <1>1, ChainAssumption
  <2> QED BY <1>1, <2>1 DEF resolve_backup
<1>2. CASE Designated[n] = <<>>
  <2>1. alive(n) \subseteq Nodes /\ selected[n] \subseteq Nodes
    BY DEF ChainInv, alive
  <2> QED BY <1>2, <2>1 DEF resolve_backup
<1> QED BY <1>1, <1>2

LEMMA TickKeepsChain ==
  ASSUME ChainInv, NEW n \in Nodes, Tick(n)
  PROVE  ChainInv'
<1>1. PICK to \in Backups(n), adopted \in SUBSET offline_rows(n), path \in BOOLEAN :
        LET more == UNION {ChainExtension(adopted, t) : t \in to} IN
        /\ path => Cardinality(pushes) < MostPushes
        /\ selected' = IF Designated[n] = <<>> THEN [selected EXCEPT ![n] = to] ELSE selected
        /\ backup' = [backup EXCEPT ![n] = prune_stale_backups(n)]
        /\ pending' = [pending EXCEPT ![n] =
             IF to = {} THEN @ ELSE Requeued(@, path) \cup Requeued(more, path)]
        /\ pushes' = pushes \cup UNION {Sent(n, t, pending[n], path) \cup Sent(n, t, more, path) : t \in to}
        /\ UNCHANGED <<own, silence>>
  BY DEF Tick
<1> DEFINE more == UNION {ChainExtension(adopted, t) : t \in to}
<1>2. to = {} \/ \E t \in Nodes : to = {t}
  BY BackupsAreNodes DEF Backups
<1>3. more \subseteq Pairs /\ pending[n] \subseteq Pairs
  BY OldRowsTyped DEF ChainInv, HandInv
<1>4. pushes' \subseteq Push
  <2> HIDE DEF more
  <2>1. pushes' = pushes \cup
             UNION {Sent(n, t, pending[n], path) \cup Sent(n, t, more, path) : t \in to}
    BY <1>1 DEF more
  <2>2. ASSUME NEW t \in to, NEW pairs \in SUBSET Pairs PROVE Sent(n, t, pairs, path) \subseteq Push
    <3>1. t \in Nodes
      BY <1>2
    <3>2. [from |-> n, to |-> t, pairs |-> pairs, up |-> FALSE] \in Push
      BY <3>1 DEF Push
    <3> QED BY <3>2 DEF Sent
  <2> QED BY <1>3, <2>1, <2>2 DEF ChainInv
<1>5. backup' \in [Nodes -> SUBSET Row] /\ \A m \in Nodes : OneRow(backup'[m])
  <2>1. prune_stale_backups(n) \subseteq backup[n]
    BY DEF prune_stale_backups
  <2> QED BY <1>1, <2>1 DEF ChainInv, OneRow
<1>6. selected' \in [Nodes -> SUBSET Nodes] /\ \A m \in Nodes : OneBackup(m)'
  BY <1>1, <1>2 DEF ChainInv, OneBackup
<1>7. HandInv'
  BY TickKeepsHand DEF ChainInv
<1> QED BY <1>1, <1>4, <1>5, <1>6, <1>7 DEF ChainInv

\* A push renews the row there is or makes one.
LEMMA RefreshedOnce ==
  ASSUME NEW n \in Nodes, OneRow(backup[n]), NEW owner \in Nodes, NEW pairs \in SUBSET Pairs
  PROVE  OneRow(Refreshed(n, owner, pairs))
<1>1. \A q \in pairs : [pair |-> q, owner |-> owner, age |-> 0] \in Row
  BY ChainAssumption DEF Row
<1> QED BY <1>1 DEF OneRow, Refreshed, Row

LEMMA PushKeepsChain ==
  ASSUME ChainInv, NEW p \in pushes,
         Established(p) \/ PushLost(p) \/ PushFailed(p) \/ (\E answered \in BOOLEAN : BackupPush(p, answered))
  PROVE  ChainInv'
<1>1. p \in Push
  BY DEF ChainInv
<1>2. backup' \in [Nodes -> SUBSET Row] /\ \A m \in Nodes : OneRow(backup'[m])
  <2>1. CASE backup' = backup
    BY <2>1 DEF ChainInv
  <2>2. CASE \E answered \in BOOLEAN : BackupPush(p, answered)
    <3> DEFINE new == Refreshed(p.to, p.from, {q \in p.pairs : ~ is_distro_pair(p.to, q)})
    <3>1. backup' = [backup EXCEPT ![p.to] = new]
      BY <2>2 DEF BackupPush
    <3>2. OneRow(new)
      BY <1>1, RefreshedOnce DEF ChainInv, Push
    <3> HIDE DEF new
    <3>3. new \subseteq Row
      BY <3>2 DEF OneRow
    <3> QED BY <3>1, <3>2, <3>3 DEF ChainInv
  <2> QED BY <2>1, <2>2 DEF Established, PushLost, PushFailed
<1>3. UNCHANGED <<own, silence, selected>> /\ pushes' \subseteq Push
  <2>1. [p EXCEPT !.up = TRUE] \in Push
    BY <1>1 DEF Push
  <2> QED BY <1>1, <2>1 DEF Established, PushLost, PushFailed, BackupPush, ChainInv
<1>4. HandInv'
  BY PushKeepsHand DEF ChainInv
<1> QED BY <1>2, <1>3, <1>4 DEF ChainInv, OneBackup

LEMMA ElapseKeepsChain ==
  ASSUME ChainInv, Elapse, HandInv'
  PROVE  ChainInv'
<1>1. ASSUME NEW r \in Row PROVE [r EXCEPT !.age = Older(r.age, Ttl + 1)] \in Row
  <2>1. Older(r.age, Ttl + 1) \in 0 .. Ttl + 1
    BY ChainAssumption DEF Row, Older
  <2> QED BY <2>1 DEF Row
<1>2. backup' \in [Nodes -> SUBSET Row]
  <2>1. ASSUME NEW n \in Nodes
        PROVE  {[r EXCEPT !.age = Older(r.age, Ttl + 1)] : r \in backup[n]} \in SUBSET Row
    <3>1. backup[n] \subseteq Row
      BY DEF ChainInv
    <3> QED BY <1>1, <3>1
  <2> QED BY <2>1 DEF Elapse
<1>3. ASSUME NEW n \in Nodes PROVE OneRow(backup'[n])
  <2>1. backup'[n] = {[r EXCEPT !.age = Older(r.age, Ttl + 1)] : r \in backup[n]}
    BY DEF Elapse
  <2>2. OneRow(backup[n]) /\ backup'[n] \subseteq Row
    BY <1>2 DEF ChainInv
  <2>3. ASSUME NEW s \in backup[n], NEW q \in backup[n],
               [s EXCEPT !.age = Older(s.age, Ttl + 1)].pair = [q EXCEPT !.age = Older(q.age, Ttl + 1)].pair,
               [s EXCEPT !.age = Older(s.age, Ttl + 1)].owner = [q EXCEPT !.age = Older(q.age, Ttl + 1)].owner
        PROVE  s = q
    <3>1. s \in Row /\ q \in Row
      BY <2>2 DEF OneRow
    <3>2. s.pair = q.pair /\ s.owner = q.owner
      BY <2>3, <3>1 DEF Row
    <3> QED BY <2>2, <3>2 DEF OneRow
  <2> QED BY <2>1, <2>2, <2>3 DEF OneRow
<1>4. silence' \in [Nodes -> [Nodes -> 0 .. Unknown]]
  <2>1. ASSUME NEW n \in Nodes, NEW p \in Nodes
        PROVE  (IF silence[n][p] = Unknown THEN Unknown ELSE Older(silence[n][p], Offline))
                 \in 0 .. Unknown
    <3>1. silence[n][p] \in 0 .. Unknown
      BY DEF ChainInv
    <3> QED BY <3>1, SilenceRange DEF Older
  <2> QED BY <2>1 DEF Elapse
<1>5. UNCHANGED <<own, pushes, selected>>
  BY DEF Elapse
<1> QED BY <1>2, <1>3, <1>4, <1>5 DEF ChainInv, OneBackup

LEMMA StepKeepsChain ==
  ASSUME ChainInv, [ChainNext]_chain_vars
  PROVE  ChainInv'
<1>1. HandInv'
  BY StepKeepsHand DEF ChainInv
<1>2. ASSUME NEW n \in Nodes, NEW pair \in Pairs,
             Subscribe(n, pair) \/ Unsubscribe(n, pair) \/ ExpireStale(n, pair)
      PROVE  ChainInv'
  <2>1. UNCHANGED <<pushes, silence, selected>>
    BY <1>2 DEF Subscribe, Unsubscribe, ExpireStale
  <2>2. own' \in [Nodes -> SUBSET Pairs]
    BY <1>2 DEF ChainInv, Subscribe, subscribe, Unsubscribe, unsubscribe, ExpireStale
  <2>3. backup' \in [Nodes -> SUBSET Row] /\ \A m \in Nodes : OneRow(backup'[m])
    <3>1. PICK rows \in SUBSET backup[n] : backup' = [backup EXCEPT ![n] = rows]
      <4>1. backup' = backup => backup' = [backup EXCEPT ![n] = backup[n]]
        BY DEF ChainInv
      <4>2. {r \in backup[n] : r.pair # pair} \in SUBSET backup[n]
        OBVIOUS
      <4>3. \/ backup' = backup
            \/ backup' = [backup EXCEPT ![n] = {r \in backup[n] : r.pair # pair}]
        BY <1>2 DEF Subscribe, Unsubscribe, unsubscribe, ExpireStale
      <4> QED BY <4>1, <4>2, <4>3
    <3>2. OneRow(rows) /\ rows \in SUBSET Row
      BY DEF ChainInv, OneRow
    <3> QED BY <3>1, <3>2 DEF ChainInv
  <2> QED BY <1>1, <2>1, <2>2, <2>3 DEF ChainInv, OneBackup
<1>3. ASSUME NEW n \in Nodes, Tick(n) PROVE ChainInv'
  BY <1>3, TickKeepsChain
<1>4. ASSUME NEW n \in Nodes, Restart(n) PROVE ChainInv'
  <2>1. /\ UNCHANGED <<own, backup>> /\ pushes' \subseteq pushes
        /\ selected' = [selected EXCEPT ![n] = {}]
        /\ silence' = silence \/ silence' = [silence EXCEPT ![n] = [p \in Nodes |-> Unknown]]
    BY <1>4 DEF Restart
  <2>2. silence' \in [Nodes -> [Nodes -> 0 .. Unknown]]
    <3>1. Unknown \in 0 .. Unknown
      BY SilenceRange
    <3>2. [p \in Nodes |-> Unknown] \in [Nodes -> 0 .. Unknown]
      BY <3>1
    <3> QED BY <2>1, <3>2 DEF ChainInv
  <2>3. selected' \in [Nodes -> SUBSET Nodes] /\ \A m \in Nodes : OneBackup(m)'
    BY <2>1 DEF ChainInv, OneBackup
  <2> QED BY <1>1, <2>1, <2>2, <2>3 DEF ChainInv
<1>5. ASSUME NEW p \in pushes,
             Established(p) \/ PushLost(p) \/ PushFailed(p) \/ (\E answered \in BOOLEAN : BackupPush(p, answered))
      PROVE  ChainInv'
  BY <1>5, PushKeepsChain
<1>6. ASSUME NEW n \in Nodes, NEW p \in Nodes, Hear(n, p) \/ ForgetPeer(n, p) PROVE ChainInv'
  <2>1. UNCHANGED <<own, backup, pending, pushes, selected>>
    BY <1>6 DEF Hear, ForgetPeer
  <2>2. silence' \in [Nodes -> [Nodes -> 0 .. Unknown]]
    <3>1. Unknown \in 0 .. Unknown /\ 0 \in 0 .. Unknown
      BY SilenceRange
    <3>2. PICK s \in 0 .. Unknown : silence' = [silence EXCEPT ![n][p] = s]
      BY <1>6, <3>1 DEF Hear, ForgetPeer
    <3>3. silence[n] \in [Nodes -> 0 .. Unknown]
      BY DEF ChainInv
    <3>4. [silence[n] EXCEPT ![p] = s] \in [Nodes -> 0 .. Unknown]
      BY <3>3
    <3>5. silence' = [silence EXCEPT ![n] = [silence[n] EXCEPT ![p] = s]]
      BY <3>2
    <3> QED BY <3>4, <3>5 DEF ChainInv
  <2> QED BY <1>1, <2>1, <2>2 DEF ChainInv, OneBackup
<1>7. CASE UNCHANGED chain_vars
  BY <1>1, <1>7 DEF ChainInv, OneBackup, chain_vars
<1> QED BY <1>1, <1>2, <1>3, <1>4, <1>5, <1>6, <1>7, ElapseKeepsChain DEF ChainNext

\* Types, for any nodes and configurations; however pushes, renewals and
\* prunings of several owners interleave, a table has one row of a pair and
\* owner, as its UNIQUE constraint demands (subscription.rs), and a node has
\* one selected backup at most, none where the configuration names one
\* (resolve_backup, destinations.rs).
THEOREM ChainTypeCorrect == ChainSpec => []ChainTypeOK
<1>1. ChainInv /\ [ChainNext]_chain_vars => ChainInv'
  BY StepKeepsChain
<1>2. ChainInv => ChainTypeOK
  <2> SUFFICES ASSUME ChainInv PROVE ChainTypeOK
    OBVIOUS
  <2>1. ASSUME NEW n \in Nodes PROVE Cardinality(selected[n]) <= 1
    <3>1. CASE selected[n] = {}
      BY <3>1, FS_EmptySet
    <3>2. ASSUME NEW p \in Nodes, selected[n] = {p} PROVE Cardinality(selected[n]) <= 1
      BY <3>2, FS_Singleton
    <3> QED BY <3>1, <3>2 DEF ChainInv, OneBackup
  <2> QED BY <2>1 DEF ChainInv, HandInv, OneRow, OneBackup, ChainTypeOK
<1> QED BY InitChain, <1>1, <1>2, PTL DEF ChainSpec

-----------------------------------------------------------------------------
(***************************************************************************)
(* Out of a node's hands, and into the backup's.                           *)
(***************************************************************************)

\* An accepted push is in the backup's table, or is a pair it may not hold.
LEMMA TakenHolds ==
  ASSUME ChainInv, NEW p \in pushes, BackupPush(p, TRUE), NEW pair \in p.pairs
  PROVE  TakenOver(p, pair)'
<1>1. p.to \in Nodes
  BY DEF ChainInv, Push
<1>2. backup'[p.to] = Refreshed(p.to, p.from, {q \in p.pairs : ~ is_distro_pair(p.to, q)})
  BY <1>1 DEF ChainInv, BackupPush
<1>3. ~ is_distro_pair(p.to, pair) => [pair |-> pair, owner |-> p.from, age |-> 0] \in backup'[p.to]
  BY <1>2 DEF Refreshed
<1> QED BY <1>3 DEF TakenOver, is_distro_pair

LEMMA KeptStep ==
  ASSUME ChainInv, [ChainNext]_chain_vars, NEW n \in Nodes, NEW pair \in InHand(n) \ InHand(n)'
  PROVE  \/ Restart(n)
         \/ \E p \in pushes \ pushes' :
              /\ p.from = n /\ pair \in p.pairs
              /\ p.up => BackupPush(p, TRUE) /\ TakenOver(p, pair)'
<1>0. HandInv
  BY DEF ChainInv
<1>1. ASSUME NEW m \in Nodes, NEW q \in Pairs, Subscribe(m, q) PROVE FALSE
  <2>1. pushes' = pushes /\ \A k \in Nodes : pending[k] \subseteq pending'[k]
    BY <1>0, <1>1 DEF Subscribe, queue_push, HandInv
  <2> QED BY <2>1 DEF InHand
<1>2. ASSUME pushes' = pushes, pending' = pending PROVE FALSE
  BY <1>2 DEF InHand
<1>3. ASSUME NEW m \in Nodes, NEW q \in Pairs, Unsubscribe(m, q) \/ ExpireStale(m, q) PROVE FALSE
  BY <1>2, <1>3 DEF Unsubscribe, ExpireStale
<1>4. ASSUME NEW m \in Nodes, Tick(m) PROVE FALSE
  BY <1>0, <1>4, TickLosesNothing
<1>5. ASSUME NEW m \in Nodes, Restart(m) PROVE Restart(n)
  <2>1. CASE m = n
    BY <1>5, <2>1
  <2>2. CASE m # n
    <3>1. pending'[n] = pending[n] /\ pushes' = {p \in pushes : p.from # m}
      BY <1>0, <1>5, <2>2 DEF Restart, HandInv
    <3> QED BY <2>2, <3>1 DEF InHand
  <2> QED BY <2>1, <2>2
<1>6. ASSUME NEW p \in pushes, PushFailed(p) \/ BackupPush(p, FALSE) PROVE FALSE
  BY <1>0, <1>6, PushEnds
<1>7. ASSUME NEW p \in pushes, PushLost(p) \/ BackupPush(p, TRUE)
      PROVE  /\ p \in pushes \ pushes' /\ p.from = n /\ pair \in p.pairs
             /\ p.up => BackupPush(p, TRUE) /\ TakenOver(p, pair)'
  <2>1. p.from = n /\ pair \in p.pairs
    BY <1>7, PushTaken
  <2>2. p \in pushes \ pushes'
    BY <1>7 DEF PushLost, BackupPush
  <2>3. CASE PushLost(p)
    BY <2>1, <2>2, <2>3 DEF PushLost
  <2>4. CASE BackupPush(p, TRUE)
    BY <2>1, <2>2, <2>4, TakenHolds
  <2> QED BY <1>7, <2>3, <2>4
<1>10. ASSUME NEW p \in pushes, Established(p) PROVE FALSE
  BY <1>0, <1>10, LinkUpLosesNothing
<1>8. ASSUME NEW m \in Nodes, NEW p \in Nodes, Hear(m, p) \/ ForgetPeer(m, p) PROVE FALSE
  BY <1>2, <1>8 DEF Hear, ForgetPeer
<1>9. ~Elapse /\ ~UNCHANGED chain_vars
  BY <1>2 DEF Elapse, chain_vars
<1> QED BY <1>1, <1>3, <1>4, <1>5, <1>6, <1>7, <1>8, <1>9, <1>10 DEF ChainNext

\* For any nodes, configurations and timings, a pair leaves a node's hands
\* only with a push that ends: one whose link never came up, or one the backup
\* took over and accepted; or with the process.  Once the link is up, every
\* other end of the push puts the pair back (the tick, the push's callbacks
\* and requeue_backup_pairs, destinations.rs 1587-1670 and 1900-2040).
THEOREM KeptTillTaken ==
  ChainSpec => KeptUntilTaken
<1>1. ChainInv /\ [ChainNext]_chain_vars =>
        [\A n \in Nodes : \A pair \in InHand(n) \ InHand(n)' :
           \/ Restart(n)
           \/ \E p \in pushes \ pushes' :
                /\ p.from = n /\ pair \in p.pairs
                /\ p.up => BackupPush(p, TRUE) /\ TakenOver(p, pair)']_chain_vars
  BY KeptStep
<1>2. ChainInv /\ [ChainNext]_chain_vars => ChainInv'
  BY StepKeepsChain
<1> QED BY <1>1, <1>2, InitChain, PTL DEF ChainSpec, KeptUntilTaken

=============================================================================
