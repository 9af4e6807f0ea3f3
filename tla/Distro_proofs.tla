---------------------------- MODULE Distro_proofs ----------------------------
(***************************************************************************)
(* For every set of devices and of arrivals: a distro's announce is held   *)
(* only while a device is registered, but for the one race the code has,   *)
(* and of sync arrivals an unwoken device holds a bounded backlog.  For    *)
(* any nodes, peers, limits and links: what federation sync stores goes    *)
(* out once (FedSync).                                                     *)
(***************************************************************************)
EXTENDS Distro, FedSync, FiniteSetTheorems, FunctionTheorems, SequenceTheorems, TLAPS

\* AnnounceHasDevice with what the second half of an announce request goes
\* by: while one is judged, a device is registered, or the last one left since.
AnnounceInv ==
  /\ AnnounceHasDevice
  /\ announcing => is_distro \/ raced

LEMMA InitAnnounceInv == Init => AnnounceInv
BY DEF Init, AnnounceInv, AnnounceHasDevice

LEMMA RegistrationKeepsAnnounceInv ==
  ASSUME AnnounceInv, NEW d \in Devices, Register(d) \/ Unregister(d)
  PROVE  AnnounceInv'
<1>1. CASE Register(d)
  BY <1>1 DEF AnnounceInv, AnnounceHasDevice, is_distro, Register
<1>2. CASE Unregister(d)
  <2>1. CASE registered = {d}
    BY <1>2, <2>1 DEF AnnounceInv, AnnounceHasDevice, is_distro, Unregister, announce_left, AnnounceLeft
  <2>2. CASE registered # {d}
    <3>1. registered' # {} /\ raced' = raced /\ announcing' = announcing
      BY <1>2, <2>2 DEF Unregister
    <3> QED BY <3>1 DEF AnnounceInv, AnnounceHasDevice, is_distro
  <2> QED BY <2>1, <2>2
<1> QED BY <1>1, <1>2

LEMMA StepKeepsAnnounceInv == AnnounceInv /\ [Next]_vars => AnnounceInv'
<1> SUFFICES ASSUME AnnounceInv, [Next]_vars PROVE AnnounceInv'
  OBVIOUS
<1>1. ASSUME NEW d \in Devices, Register(d) \/ Unregister(d) PROVE AnnounceInv'
  BY <1>1, RegistrationKeepsAnnounceInv
<1>2. CASE AnnounceJudged
  BY <1>2 DEF AnnounceInv, AnnounceHasDevice, is_distro, AnnounceJudged
<1>3. CASE AnnounceStored
  BY <1>3 DEF AnnounceInv, AnnounceHasDevice, is_distro, AnnounceStored
<1>4. CASE Restart
  BY <1>4 DEF AnnounceInv, AnnounceHasDevice, is_distro, Restart
<1>5. CASE UNCHANGED table_vars
  BY <1>5 DEF table_vars, AnnounceInv, AnnounceHasDevice, is_distro
<1>6. ASSUME NEW j \in Arrivals, Ingest(j) PROVE UNCHANGED table_vars
  BY <1>6 DEF Ingest, Intercept, IngestDistroBlob, FedStored, Snapshot
<1>7. ASSUME NEW j \in Arrivals, NEW d \in Devices, Fan(j, d) \/ Verdict(j, d)
      PROVE  UNCHANGED table_vars
  BY <1>7 DEF Fan, Verdict, Serve, Confirmed, Unproven, HandOff, Wake
<1>8. ASSUME NEW d \in Devices, PullPage(d) \/ PageProved(d) \/ PageReturned(d)
      PROVE  UNCHANGED table_vars
  BY <1>8 DEF PullPage, PageProved, PageReturned
<1>9. CASE UNCHANGED vars
  BY <1>9, <1>5 DEF vars
<1> QED BY <1>1, <1>2, <1>3, <1>4, <1>5, <1>6, <1>7, <1>8, <1>9 DEF Next

\* "Only advertise a route we can actually serve" (destinations.rs, announce_cb;
\* handle_distro_registration): for every history of registrations, announces
\* and restarts, the node holds an announce only while a device is registered,
\* or the last device left while an announce request was judged.
THEOREM AnnounceOnlyServed == Spec => []AnnounceHasDevice
<1>1. AnnounceInv => AnnounceHasDevice
  BY DEF AnnounceInv
<1> QED BY InitAnnounceInv, StepKeepsAnnounceInv, <1>1, PTL DEF Spec

-----------------------------------------------------------------------------
(***************************************************************************)
(* The backlog of a device's own syncs.                                    *)
(***************************************************************************)

\* What bounds the backlog goes by the lengths of the buckets only: whatever
\* arrives twice, and whatever becomes of a page, no entry is told from another.
QueueTypes ==
  /\ queue \in [Devices -> Seq(Arrivals)]
  /\ page \in [Devices -> Seq(Arrivals)]
  /\ unwoken \in [Devices -> SUBSET Arrivals]
  /\ returned \in [Devices -> Nat]

\* The syncs of a device that wait in its bucket, and those in its pull's page.
Waiting(d) == Cardinality(unwoken[d] \cap ToSet(queue[d]))
OnPage(d) == Cardinality(unwoken[d] \cap ToSet(page[d]))

BacklogInv == QueueTypes /\ SyncBacklogBounded

LEMMA BacklogOf ==
  SyncBacklogBounded <=> \A d \in Devices : Waiting(d) < SyncUnwokenLimit + returned[d]
BY DEF SyncBacklogBounded, Waiting

LEMMA ToSetFinite ==
  ASSUME NEW S, NEW s \in Seq(S)
  PROVE  /\ IsFiniteSet(ToSet(s))
         /\ Cardinality(ToSet(s)) \in Nat
         /\ Cardinality(ToSet(s)) <= Len(s)
<1>1. s \in Surjection(1..Len(s), ToSet(s))
  BY DEF Surjection, ToSet
<1>2. IsFiniteSet(1..Len(s)) /\ Cardinality(1..Len(s)) = Len(s)
  <2>1. Len(s) \in Nat
    OBVIOUS
  <2> QED BY <2>1, FS_Interval
<1> QED BY <1>1, <1>2, FS_Surjection, FS_CardinalityType

LEMMA ToSetConcat ==
  ASSUME NEW S, NEW s \in Seq(S), NEW t \in Seq(S)
  PROVE  ToSet(s \o t) = ToSet(s) \cup ToSet(t)
<1>1. /\ Len(s \o t) = Len(s) + Len(t) /\ s \o t \in Seq(S)
      /\ \A i \in 1..Len(s) + Len(t) : (s \o t)[i] = IF i <= Len(s) THEN s[i] ELSE t[i - Len(s)]
  OBVIOUS
<1>2. ASSUME NEW x \in ToSet(t) PROVE x \in ToSet(s \o t)
  <2>1. PICK i \in 1..Len(t) : x = t[i]
    BY DEF ToSet
  <2>2. i + Len(s) \in 1..Len(s) + Len(t) /\ (s \o t)[i + Len(s)] = t[i]
    BY <1>1
  <2> QED BY <2>1, <2>2, <1>1 DEF ToSet
<1>3. ToSet(s) \subseteq ToSet(s \o t)
  BY <1>1 DEF ToSet
<1>4. ToSet(s \o t) \subseteq ToSet(s) \cup ToSet(t)
  BY <1>1 DEF ToSet
<1> QED BY <1>2, <1>3, <1>4

LEMMA ToSetPart ==
  ASSUME NEW S, NEW s \in Seq(S), NEW m \in 1..Len(s) + 1, NEW n \in 0..Len(s)
  PROVE  SubSeq(s, m, n) \in Seq(S) /\ ToSet(SubSeq(s, m, n)) \subseteq ToSet(s)
<1>1. CASE n < m
  <2>1. SubSeq(s, m, n) = << >>
    BY <1>1
  <2> QED BY <2>1 DEF ToSet
<1>2. CASE m <= n
  <2>1. /\ SubSeq(s, m, n) \in Seq(S) /\ Len(SubSeq(s, m, n)) = n - m + 1
        /\ \A i \in 1..n - m + 1 : SubSeq(s, m, n)[i] = s[m + i - 1]
    BY <1>2
  <2> QED BY <2>1, <1>2 DEF ToSet
<1> QED BY <1>1, <1>2

\* What a smaller part of a device's own syncs, or a smaller bucket, counts.
LEMMA FewerInBucket ==
  ASSUME NEW U, NEW V \in SUBSET U, NEW S, NEW s \in Seq(S), NEW R \in SUBSET ToSet(s)
  PROVE  /\ Cardinality(V \cap R) \in Nat /\ Cardinality(U \cap ToSet(s)) \in Nat
         /\ Cardinality(V \cap R) <= Cardinality(U \cap ToSet(s))
<1>1. IsFiniteSet(U \cap ToSet(s))
  BY ToSetFinite, FS_Intersection
<1>2. V \cap R \subseteq U \cap ToSet(s)
  OBVIOUS
<1> QED BY <1>1, <1>2, FS_Subset, FS_CardinalityType

\* A page that comes back unproved adds what it holds of the device's syncs.
LEMMA PageBack ==
  ASSUME NEW S, NEW U, NEW p \in Seq(S), NEW q \in Seq(S)
  PROVE  /\ Cardinality(U \cap ToSet(p)) \in Nat
         /\ Cardinality(U \cap ToSet(q)) \in Nat
         /\ Cardinality(U \cap ToSet(p \o q)) \in Nat
         /\ Cardinality(U \cap ToSet(p \o q)) <= Cardinality(U \cap ToSet(p)) + Cardinality(U \cap ToSet(q))
<1> DEFINE A == U \cap ToSet(p)
           B == U \cap ToSet(q)
<1>1. IsFiniteSet(A) /\ IsFiniteSet(B)
  BY ToSetFinite, FS_Intersection
<1>2. U \cap ToSet(p \o q) = A \cup B
  BY ToSetConcat
<1>3. IsFiniteSet(A \cup B) /\ Cardinality(A \cup B) = Cardinality(A) + Cardinality(B) - Cardinality(A \cap B)
  BY <1>1, FS_Union
<1>4. IsFiniteSet(A \cap B)
  BY <1>1, FS_Intersection
<1>5. Cardinality(A) \in Nat /\ Cardinality(B) \in Nat /\ Cardinality(A \cap B) \in Nat /\ Cardinality(A \cup B) \in Nat
  BY <1>1, <1>3, <1>4, FS_CardinalityType
<1>6. Cardinality(A \cup B) <= Cardinality(A) + Cardinality(B)
  <2> HIDE DEF A, B
  <2> QED BY <1>3, <1>5
<1> QED BY <1>2, <1>5, <1>6

LEMMA InitBacklogInv == Init => BacklogInv
<1> SUFFICES ASSUME Init PROVE BacklogInv
  OBVIOUS
<1>1. QueueTypes
  BY DEF Init, QueueTypes
<1>2. \A d \in Devices : unwoken[d] \cap ToSet(queue[d]) = {} /\ returned[d] = 0
  BY DEF Init
<1> QED BY <1>1, <1>2, ConstantsAssumption, FS_EmptySet DEF BacklogInv, SyncBacklogBounded

\* enqueue appends to the device's bucket; at a limit it takes the oldest of
\* that bucket, or of the fullest, out.
LEMMA EnqueuedBuckets ==
  ASSUME QueueTypes, NEW j \in Arrivals, NEW d \in Devices, NEW after \in Enqueued(j, d)
  PROVE  /\ after \in [Devices -> Seq(Arrivals)]
         /\ \A e \in Devices \ {d} : ToSet(after[e]) \subseteq ToSet(queue[e])
<1> USE DEF QueueTypes
<1>0. \A e \in Devices : queue[e] # <<>> =>
        Tail(queue[e]) \in Seq(Arrivals) /\ ToSet(Tail(queue[e])) \subseteq ToSet(queue[e])
  BY DEF ToSet
<1>1. CASE after = [queue EXCEPT ![d] = Append(Tail(@), j)] /\ queue[d] # <<>>
  BY <1>0, <1>1
<1>2. CASE after = [queue EXCEPT ![d] = Append(@, j)]
  BY <1>2
<1>3. CASE after = queue
  BY <1>3
<1>4. ASSUME NEW e \in Fullest, after = [[queue EXCEPT ![e] = Tail(@)] EXCEPT ![d] = Append(@, j)]
      PROVE  /\ after \in [Devices -> Seq(Arrivals)]
             /\ \A f \in Devices \ {d} : ToSet(after[f]) \subseteq ToSet(queue[f])
  <2>1. e \in Devices /\ queue[e] # <<>>
    BY <1>4 DEF Fullest
  <2>2. Tail(queue[e]) \in Seq(Arrivals) /\ ToSet(Tail(queue[e])) \subseteq ToSet(queue[e])
    BY <1>0, <2>1
  <2>3. [queue EXCEPT ![e] = Tail(@)] \in [Devices -> Seq(Arrivals)]
    BY <2>1, <2>2
  <2>4. after \in [Devices -> Seq(Arrivals)]
    <3> DEFINE room == [queue EXCEPT ![e] = Tail(@)]
    <3>1. room \in [Devices -> Seq(Arrivals)] /\ after = [room EXCEPT ![d] = Append(@, j)]
      BY <1>4, <2>3
    <3> HIDE DEF room
    <3> QED BY <3>1
  <2>5. ASSUME NEW f \in Devices \ {d} PROVE ToSet(after[f]) \subseteq ToSet(queue[f])
    BY <1>4, <2>1, <2>2
  <2> QED BY <2>4, <2>5
<1>5. Len(queue[d]) > 0 => queue[d] # <<>>
  OBVIOUS
<1> QED BY <1>1, <1>2, <1>3, <1>4, <1>5 DEF Enqueued, count_matching

\* The hand-off that reaches the bound pushes, and every entry counted before
\* it is pushed with it; one that does not push leaves a bucket below it.
LEMMA HandOffKeepsBacklogInv ==
  ASSUME BacklogInv, NEW j \in Arrivals, NEW d \in Devices, HandOff(j, d)
  PROVE  BacklogInv'
<1> USE DEF BacklogInv, QueueTypes
<1> DEFINE push(after) == ~Proved(j) \/ AtBound(after, d)
<1>1. PICK after \in Enqueued(j, d) :
        /\ queue' = after
        /\ unwoken' = [e \in Devices |->
             IF e # d THEN unwoken[e] \cap (ToSet(after[e]) \cup ToSet(page[e]))
             ELSE IF push(after) THEN {}
             ELSE (unwoken[d] \cup {j}) \cap (ToSet(after[d]) \cup ToSet(page[d]))]
        /\ returned' = [returned EXCEPT ![d] = IF push(after) THEN 0 ELSE @]
  BY DEF HandOff
<1>2. /\ after \in [Devices -> Seq(Arrivals)]
      /\ \A e \in Devices \ {d} : ToSet(after[e]) \subseteq ToSet(queue[e])
  BY EnqueuedBuckets
<1>3. page' = page
  BY DEF HandOff
<1>4. QueueTypes'
  BY <1>1, <1>2, <1>3
<1>5. ASSUME NEW e \in Devices \ {d}
      PROVE  Waiting(e)' < SyncUnwokenLimit + returned'[e]
  <2>1. unwoken'[e] \subseteq unwoken[e] /\ ToSet(queue'[e]) \subseteq ToSet(queue[e]) /\ returned'[e] = returned[e]
    BY <1>1, <1>2
  <2>2. Waiting(e)' <= Waiting(e) /\ Waiting(e)' \in Nat /\ Waiting(e) \in Nat
    BY <2>1, FewerInBucket DEF Waiting
  <2>3. Waiting(e) < SyncUnwokenLimit + returned[e]
    BY BacklogOf
  <2> QED BY <2>1, <2>2, <2>3, ConstantsAssumption
<1>6. CASE push(after)
  <2>1. unwoken'[d] = {} /\ returned'[d] = 0
    BY <1>1, <1>6
  <2>2. Waiting(d)' < SyncUnwokenLimit + returned'[d]
    BY <2>1, FS_EmptySet, ConstantsAssumption DEF Waiting
  <2> QED BY <2>2, <1>4, <1>5 DEF SyncBacklogBounded, Waiting
<1>7. CASE ~push(after)
  <2>1. Len(after[d]) < SyncUnwokenLimit
    BY <1>2, <1>7, ConstantsAssumption DEF AtBound, un_pulled_after, UnPulledAfter
  <2>2. queue'[d] = after[d] /\ returned'[d] = returned[d]
    BY <1>1, <1>7
  <2>3. /\ Cardinality(ToSet(after[d])) <= Len(after[d]) /\ IsFiniteSet(ToSet(after[d]))
        /\ Cardinality(ToSet(after[d])) \in Nat
    BY <1>2, ToSetFinite
  <2>4. Waiting(d)' <= Cardinality(ToSet(after[d])) /\ Waiting(d)' \in Nat
    BY <2>2, <2>3, FS_Intersection, FS_CardinalityType DEF Waiting
  <2>5. Waiting(d)' < SyncUnwokenLimit + returned'[d]
    BY <2>1, <2>2, <2>3, <2>4, <1>2, ConstantsAssumption
  <2> QED BY <2>5, <1>4, <1>5 DEF SyncBacklogBounded, Waiting
<1> QED BY <1>6, <1>7

\* A pull takes entries out, a proof takes them away, and what comes back
\* unproved is counted.
LEMMA PullKeepsBacklogInv ==
  ASSUME BacklogInv, NEW d \in Devices, PullPage(d) \/ PageProved(d) \/ PageReturned(d)
  PROVE  BacklogInv'
<1> USE DEF BacklogInv, QueueTypes
<1>0. \A e \in Devices : Waiting(e) \in Nat /\ Waiting(e) < SyncUnwokenLimit + returned[e]
  BY BacklogOf, FewerInBucket DEF Waiting
<1>1. CASE PullPage(d)
  <2>1. PICK n : /\ n = (IF Len(queue[d]) < PageSize THEN Len(queue[d]) ELSE PageSize)
                 /\ page' = [page EXCEPT ![d] = SubSeq(queue[d], 1, n)]
                 /\ queue' = [queue EXCEPT ![d] = SubSeq(@, n + 1, Len(@))]
                 /\ unwoken' = unwoken /\ returned' = returned
    BY <1>1 DEF PullPage
  <2>2. /\ n \in 0..Len(queue[d]) /\ n + 1 \in 1..Len(queue[d]) + 1
        /\ 1 \in 1..Len(queue[d]) + 1 /\ Len(queue[d]) \in 0..Len(queue[d])
    BY <2>1, ConstantsAssumption
  <2>3. /\ SubSeq(queue[d], 1, n) \in Seq(Arrivals)
        /\ SubSeq(queue[d], n + 1, Len(queue[d])) \in Seq(Arrivals)
        /\ ToSet(SubSeq(queue[d], n + 1, Len(queue[d]))) \subseteq ToSet(queue[d])
    BY <2>2, ToSetPart
  <2>4. QueueTypes'
    BY <2>1, <2>3
  <2>5. ASSUME NEW e \in Devices PROVE Waiting(e)' < SyncUnwokenLimit + returned'[e]
    <3>1. ToSet(queue'[e]) \subseteq ToSet(queue[e]) /\ unwoken'[e] = unwoken[e] /\ returned'[e] = returned[e]
      BY <2>1, <2>3
    <3>2. Waiting(e)' <= Waiting(e) /\ Waiting(e)' \in Nat
      BY <3>1, FewerInBucket DEF Waiting
    <3> QED BY <3>1, <3>2, <1>0, ConstantsAssumption
  <2> QED BY <2>4, <2>5 DEF SyncBacklogBounded, Waiting
<1>2. CASE PageProved(d)
  <2>1. QueueTypes'
    BY <1>2 DEF PageProved
  <2>2. ASSUME NEW e \in Devices PROVE Waiting(e)' < SyncUnwokenLimit + returned'[e]
    <3>1. queue'[e] = queue[e] /\ unwoken'[e] \subseteq unwoken[e] /\ returned'[e] = returned[e]
      BY <1>2 DEF PageProved
    <3>2. Waiting(e)' <= Waiting(e) /\ Waiting(e)' \in Nat
      BY <3>1, FewerInBucket DEF Waiting
    <3> QED BY <3>1, <3>2, <1>0, ConstantsAssumption
  <2> QED BY <2>1, <2>2 DEF SyncBacklogBounded, Waiting
<1>3. CASE PageReturned(d)
  <2>1. OnPage(d) \in Nat
    BY PageBack DEF OnPage
  <2>2. /\ page' = [page EXCEPT ![d] = <<>>]
        /\ queue' = [queue EXCEPT ![d] = page[d] \o @]
        /\ returned' = [returned EXCEPT ![d] = @ + OnPage(d)]
        /\ unwoken' = unwoken
    BY <1>3 DEF PageReturned, OnPage
  <2>3. QueueTypes'
    BY <2>1, <2>2
  <2>4. ASSUME NEW e \in Devices PROVE Waiting(e)' < SyncUnwokenLimit + returned'[e]
    <3>1. CASE e # d
      <4>1. Waiting(e)' = Waiting(e) /\ returned'[e] = returned[e]
        BY <2>2, <3>1 DEF Waiting
      <4> QED BY <4>1, <1>0
    <3>2. CASE e = d
      <4>1. returned'[e] = returned[e] + OnPage(e) /\ queue'[e] = page[e] \o queue[e] /\ unwoken'[e] = unwoken[e]
        BY <2>2, <3>2
      <4>2. Waiting(e)' \in Nat /\ Waiting(e)' <= OnPage(e) + Waiting(e) /\ OnPage(e) \in Nat
        BY <4>1, PageBack DEF Waiting, OnPage
      <4>3. Waiting(e) \in Nat /\ Waiting(e) < SyncUnwokenLimit + returned[e] /\ returned[e] \in Nat
        BY <1>0
      <4>4. SyncUnwokenLimit \in Nat
        BY ConstantsAssumption
      <4> HIDE DEF BacklogInv, QueueTypes
      <4> QED BY <4>1, <4>2, <4>3, <4>4
    <3> QED BY <3>1, <3>2
  <2> QED BY <2>3, <2>4 DEF SyncBacklogBounded, Waiting
<1> QED BY <1>1, <1>2, <1>3

\* At a restart every page comes back.
LEMMA RestartKeepsBacklogInv == BacklogInv /\ Restart => BacklogInv'
<1> SUFFICES ASSUME BacklogInv, Restart PROVE BacklogInv'
  OBVIOUS
<1> USE DEF BacklogInv, QueueTypes
<1>1. /\ queue' = [d \in Devices |-> page[d] \o queue[d]]
      /\ page' = [d \in Devices |-> <<>>]
      /\ returned' = [d \in Devices |-> returned[d] + OnPage(d)]
      /\ unwoken' = unwoken
  BY DEF Restart, OnPage
<1>2. \A d \in Devices : OnPage(d) \in Nat
  BY PageBack DEF OnPage
<1>3. QueueTypes'
  <2>1. returned' \in [Devices -> Nat]
    BY <1>1, <1>2
  <2>2. queue' \in [Devices -> Seq(Arrivals)] /\ page' \in [Devices -> Seq(Arrivals)]
    BY <1>1
  <2> QED BY <2>1, <2>2, <1>1
<1>4. ASSUME NEW d \in Devices PROVE Waiting(d)' < SyncUnwokenLimit + returned'[d]
  <2>1. returned'[d] = returned[d] + OnPage(d) /\ queue'[d] = page[d] \o queue[d] /\ unwoken'[d] = unwoken[d]
    BY <1>1
  <2>2. Waiting(d)' \in Nat /\ Waiting(d) \in Nat /\ Waiting(d)' <= OnPage(d) + Waiting(d)
    BY <2>1, PageBack DEF Waiting, OnPage
  <2>3. Waiting(d) < SyncUnwokenLimit + returned[d] /\ returned[d] \in Nat
    BY BacklogOf
  <2>4. SyncUnwokenLimit \in Nat /\ OnPage(d) \in Nat
    BY <1>2, ConstantsAssumption
  <2> HIDE DEF BacklogInv, QueueTypes
  <2> QED BY <2>1, <2>2, <2>3, <2>4
<1> QED BY <1>3, <1>4 DEF SyncBacklogBounded, Waiting

LEMMA StepKeepsBacklogInv == BacklogInv /\ [Next]_vars => BacklogInv'
<1> SUFFICES ASSUME BacklogInv, [Next]_vars PROVE BacklogInv'
  OBVIOUS
<1>1. CASE UNCHANGED queue_vars
  BY <1>1 DEF queue_vars, BacklogInv, QueueTypes, SyncBacklogBounded
<1>2. ASSUME NEW d \in Devices, Register(d) \/ Unregister(d) PROVE UNCHANGED queue_vars
  BY <1>2 DEF Register, Unregister
<1>3. CASE AnnounceJudged \/ AnnounceStored
  BY <1>3, <1>1 DEF AnnounceJudged, AnnounceStored
<1>4. ASSUME NEW j \in Arrivals, Ingest(j) PROVE UNCHANGED queue_vars
  BY <1>4 DEF Ingest, Intercept, IngestDistroBlob, FedStored, Snapshot
<1>5. ASSUME NEW j \in Arrivals, NEW d \in Devices, Serve(j, d) \/ Wake(j, d) \/ Verdict(j, d)
      PROVE  UNCHANGED queue_vars
  BY <1>5 DEF Verdict, Serve, Confirmed, Unproven, Wake
<1>6. ASSUME NEW j \in Arrivals, NEW d \in Devices, HandOff(j, d) PROVE BacklogInv'
  BY <1>6, HandOffKeepsBacklogInv
<1>7. ASSUME NEW d \in Devices, PullPage(d) \/ PageProved(d) \/ PageReturned(d) PROVE BacklogInv'
  BY <1>7, PullKeepsBacklogInv
<1>8. CASE Restart
  BY <1>8, RestartKeepsBacklogInv
<1>9. CASE UNCHANGED vars
  BY <1>9, <1>1 DEF vars
<1> QED BY <1>1, <1>2, <1>3, <1>4, <1>5, <1>6, <1>7, <1>8, <1>9 DEF Next, Fan

\* "The hand-off that queues the 64th pushes" (handoff.rs,
\* DISTRO_SYNC_UNWOKEN_LIMIT): for any limits, devices and arrivals, in a
\* device's bucket fewer entries than the limit wait that were queued since its
\* last push, beyond those an unproved page or a restart put back.
THEOREM BacklogIsBounded == Spec => []SyncBacklogBounded
<1>1. BacklogInv => SyncBacklogBounded
  BY DEF BacklogInv
<1> QED BY InitBacklogInv, StepKeepsBacklogInv, <1>1, PTL DEF Spec

-----------------------------------------------------------------------------
(***************************************************************************)
(* Types of Distro.                                                        *)
(***************************************************************************)

IngestTypes ==
  /\ registered \subseteq Devices
  /\ {announce, announcing, raced} \subseteq BOOLEAN
  /\ job \in [Arrivals -> {"waiting", "judged", "first", "stored", "fanning", "done"}]
  /\ todo \in [Arrivals -> SUBSET Devices]
  /\ outcome \in [Arrivals -> [Devices -> Outcomes]]
  /\ held \subseteq {arrival[j].blob : j \in Arrivals}

\* Nothing has come of an arrival that was not fanned out, nor of it at a
\* device its fan-out has yet to serve.
Unserved ==
  /\ \A j \in Arrivals : job[j] \in {"waiting", "judged", "first", "stored"}
       => todo[j] = {} /\ \A d \in Devices : outcome[j][d] = "none"
  /\ \A j \in Arrivals : \A d \in todo[j] : outcome[j][d] = "none"

\* What an arrival is at the device it was handed off to.
HandedOff == {"waking", "woken", "quiet", "lost"}

Once(s) == \A i, k \in 1..Len(s) : s[i] = s[k] => i = k

\* An arrival is handed off once for a device, so it is in its bucket or its
\* page once.
QueuedOnce ==
  /\ QueueTypes
  /\ \A d \in Devices :
       /\ Once(queue[d]) /\ Once(page[d])
       /\ ToSet(queue[d]) \cap ToSet(page[d]) = {}
       /\ \A j \in ToSet(queue[d]) \cup ToSet(page[d]) : outcome[j][d] \in HandedOff

DistroTypes == IngestTypes /\ Unserved /\ QueuedOnce

LEMMA OnceAppended ==
  ASSUME NEW S, NEW s \in Seq(S), Once(s), NEW x \in S, x \notin ToSet(s)
  PROVE  Once(Append(s, x)) /\ ToSet(Append(s, x)) = ToSet(s) \cup {x}
<1>1. /\ Len(Append(s, x)) = Len(s) + 1 /\ Len(s) \in Nat
      /\ \A i \in 1..Len(s) : Append(s, x)[i] = s[i]
      /\ Append(s, x)[Len(s) + 1] = x
  BY AppendProperties, LenProperties
<1>2. \A i \in 1..Len(s) : s[i] # x
  BY DEF ToSet
<1>3. \A i \in 1..Len(s) + 1 : i \in 1..Len(s) \/ i = Len(s) + 1
  BY <1>1
<1>4. \A i \in 1..Len(s) : i \in 1..Len(s) + 1
  BY <1>1
<1>5. Len(s) + 1 \in 1..Len(s) + 1
  BY <1>1
<1>6. ToSet(Append(s, x)) = {Append(s, x)[i] : i \in 1..Len(s) + 1}
  BY <1>1 DEF ToSet
<1>7. ToSet(Append(s, x)) = ToSet(s) \cup {x}
  BY <1>1, <1>3, <1>4, <1>5, <1>6 DEF ToSet
<1>8. Once(Append(s, x))
  BY <1>1, <1>2, <1>3 DEF Once
<1> QED BY <1>7, <1>8

LEMMA OnceTail ==
  ASSUME NEW S, NEW s \in Seq(S), Once(s), s # <<>>
  PROVE  Tail(s) \in Seq(S) /\ Once(Tail(s)) /\ ToSet(Tail(s)) \subseteq ToSet(s)
<1>1. /\ Tail(s) \in Seq(S) /\ Len(s) \in Nat /\ Len(Tail(s)) = Len(s) - 1
      /\ \A i \in 1..Len(s) - 1 : Tail(s)[i] = s[i + 1]
  BY HeadTailProperties, LenProperties
<1>2. \A i \in 1..Len(s) - 1 : i + 1 \in 1..Len(s)
  BY <1>1
<1>3. Once(Tail(s))
  <2> SUFFICES ASSUME NEW i \in 1..Len(s) - 1, NEW k \in 1..Len(s) - 1, s[i + 1] = s[k + 1] PROVE i = k
    BY <1>1 DEF Once
  <2>1. i + 1 = k + 1
    BY <1>2 DEF Once
  <2> QED BY <2>1
<1>4. ToSet(Tail(s)) \subseteq ToSet(s)
  BY <1>1, <1>2 DEF ToSet
<1> QED BY <1>1, <1>3, <1>4

\* A page and the rest of the bucket it is taken from have nothing in common.
LEMMA OnceCut ==
  ASSUME NEW S, NEW s \in Seq(S), Once(s), NEW n \in 0..Len(s)
  PROVE  /\ Once(SubSeq(s, 1, n)) /\ Once(SubSeq(s, n + 1, Len(s)))
         /\ ToSet(SubSeq(s, 1, n)) \cap ToSet(SubSeq(s, n + 1, Len(s))) = {}
<1>1. /\ Len(s) \in Nat
      /\ Len(SubSeq(s, 1, n)) = n /\ Len(SubSeq(s, n + 1, Len(s))) = Len(s) - n
      /\ \A i \in 1..n : SubSeq(s, 1, n)[i] = s[i]
      /\ \A i \in 1..Len(s) - n : SubSeq(s, n + 1, Len(s))[i] = s[n + i]
  <2>1. Len(s) \in Nat
    BY LenProperties
  <2>2. Len(SubSeq(s, 1, n)) = n /\ \A i \in 1..n : SubSeq(s, 1, n)[i] = s[i]
    BY <2>1
  <2>3. /\ Len(SubSeq(s, n + 1, Len(s))) = Len(s) - n
        /\ \A i \in 1..Len(s) - n : SubSeq(s, n + 1, Len(s))[i] = s[n + i]
    BY <2>1
  <2> QED BY <2>1, <2>2, <2>3
<1>2. \A i \in 1..n : i \in 1..Len(s)
  BY <1>1
<1>3. \A i \in 1..Len(s) - n : n + i \in 1..Len(s) /\ n + i \notin 1..n
  BY <1>1
<1>4. Once(SubSeq(s, 1, n))
  BY <1>1, <1>2 DEF Once
<1>5. Once(SubSeq(s, n + 1, Len(s)))
  <2> SUFFICES ASSUME NEW i \in 1..Len(s) - n, NEW k \in 1..Len(s) - n, s[n + i] = s[n + k] PROVE i = k
    BY <1>1 DEF Once
  <2>1. n + i = n + k
    BY <1>3 DEF Once
  <2> QED BY <2>1
<1>6. ASSUME NEW x \in ToSet(SubSeq(s, 1, n)), x \in ToSet(SubSeq(s, n + 1, Len(s))) PROVE FALSE
  <2>1. SubSeq(s, 1, n) \in Seq(S) /\ SubSeq(s, n + 1, Len(s)) \in Seq(S)
    BY <1>1, ToSetPart
  <2>2. DOMAIN SubSeq(s, 1, n) = 1..n /\ DOMAIN SubSeq(s, n + 1, Len(s)) = 1..Len(s) - n
    BY <1>1, <2>1
  <2>3. PICK i \in 1..n : x = SubSeq(s, 1, n)[i]
    BY <2>2 DEF ToSet
  <2>4. PICK k \in 1..Len(s) - n : x = SubSeq(s, n + 1, Len(s))[k]
    BY <1>6, <2>2 DEF ToSet
  <2>5. s[i] = s[n + k]
    BY <1>1, <2>3, <2>4
  <2>6. i = n + k
    BY <1>2, <1>3, <2>5 DEF Once
  <2> QED BY <2>6, <1>3
<1> QED BY <1>4, <1>5, <1>6

LEMMA OnceJoined ==
  ASSUME NEW S, NEW s \in Seq(S), NEW t \in Seq(S), Once(s), Once(t), ToSet(s) \cap ToSet(t) = {}
  PROVE  Once(s \o t)
<1>1. /\ Len(s) \in Nat /\ Len(t) \in Nat /\ Len(s \o t) = Len(s) + Len(t)
      /\ \A i \in 1..Len(s) + Len(t) : (s \o t)[i] = IF i <= Len(s) THEN s[i] ELSE t[i - Len(s)]
  OBVIOUS
<1>2. \A i \in 1..Len(s), k \in 1..Len(t) : s[i] # t[k]
  BY DEF ToSet
<1> SUFFICES ASSUME NEW i \in 1..Len(s) + Len(t), NEW k \in 1..Len(s) + Len(t),
                    (s \o t)[i] = (s \o t)[k]
             PROVE  i = k
  BY <1>1 DEF Once
<1>3. CASE i <= Len(s) /\ k <= Len(s)
  <2>1. i \in 1..Len(s) /\ k \in 1..Len(s) /\ s[i] = s[k]
    BY <1>1, <1>3
  <2> QED BY <2>1 DEF Once
<1>4. CASE i > Len(s) /\ k > Len(s)
  <2>1. i - Len(s) \in 1..Len(t) /\ k - Len(s) \in 1..Len(t) /\ t[i - Len(s)] = t[k - Len(s)]
    BY <1>1, <1>4
  <2>2. i - Len(s) = k - Len(s)
    BY <2>1 DEF Once
  <2> QED BY <1>1, <2>2
<1>5. CASE i <= Len(s) /\ k > Len(s)
  <2>1. i \in 1..Len(s) /\ k - Len(s) \in 1..Len(t) /\ s[i] = t[k - Len(s)]
    BY <1>1, <1>5
  <2> QED BY <2>1, <1>2
<1>6. CASE i > Len(s) /\ k <= Len(s)
  <2>1. k \in 1..Len(s) /\ i - Len(s) \in 1..Len(t) /\ s[k] = t[i - Len(s)]
    BY <1>1, <1>6
  <2> QED BY <2>1, <1>2
<1> QED BY <1>1, <1>3, <1>4, <1>5, <1>6

\* enqueue adds the arrival to the device's bucket and nowhere else.
LEMMA EnqueuedOnce ==
  ASSUME QueueTypes, NEW j \in Arrivals, NEW d \in Devices, NEW after \in Enqueued(j, d),
         \A e \in Devices : Once(queue[e]), j \notin ToSet(queue[d])
  PROVE  /\ \A e \in Devices : Once(after[e])
         /\ \A e \in Devices : ToSet(after[e]) \subseteq ToSet(queue[e]) \cup (IF e = d THEN {j} ELSE {})
<1> USE DEF QueueTypes
<1>0. \A e \in Devices : queue[e] # <<>> =>
        /\ Tail(queue[e]) \in Seq(Arrivals) /\ Once(Tail(queue[e]))
        /\ ToSet(Tail(queue[e])) \subseteq ToSet(queue[e])
  BY OnceTail
<1>1. CASE after = [queue EXCEPT ![d] = Append(Tail(@), j)] /\ queue[d] # <<>>
  <2>1. /\ Once(Append(Tail(queue[d]), j))
        /\ ToSet(Append(Tail(queue[d]), j)) = ToSet(Tail(queue[d])) \cup {j}
    <3> DEFINE rest == Tail(queue[d])
    <3>1. rest \in Seq(Arrivals) /\ Once(rest) /\ j \notin ToSet(rest)
      BY <1>0, <1>1
    <3> HIDE DEF rest
    <3>2. Once(Append(rest, j)) /\ ToSet(Append(rest, j)) = ToSet(rest) \cup {j}
      BY <3>1, OnceAppended
    <3> QED BY <3>2 DEF rest
  <2> QED BY <1>0, <1>1, <2>1
<1>2. CASE after = [queue EXCEPT ![d] = Append(@, j)]
  <2>1. Once(Append(queue[d], j)) /\ ToSet(Append(queue[d], j)) = ToSet(queue[d]) \cup {j}
    <3>1. queue[d] \in Seq(Arrivals) /\ Once(queue[d]) /\ j \notin ToSet(queue[d])
      OBVIOUS
    <3> QED BY <3>1, OnceAppended
  <2> QED BY <1>2, <2>1
<1>3. CASE after = queue
  BY <1>3
<1>4. ASSUME NEW e \in Fullest, after = [[queue EXCEPT ![e] = Tail(@)] EXCEPT ![d] = Append(@, j)]
      PROVE  /\ \A f \in Devices : Once(after[f])
             /\ \A f \in Devices : ToSet(after[f]) \subseteq ToSet(queue[f]) \cup (IF f = d THEN {j} ELSE {})
  <2> DEFINE room == [queue EXCEPT ![e] = Tail(@)]
  <2>1. e \in Devices /\ queue[e] # <<>>
    BY <1>4 DEF Fullest
  <2>2. /\ room \in [Devices -> Seq(Arrivals)]
        /\ \A f \in Devices : Once(room[f]) /\ ToSet(room[f]) \subseteq ToSet(queue[f])
    BY <1>0, <2>1
  <2>3. after = [room EXCEPT ![d] = Append(@, j)]
    BY <1>4
  <2> HIDE DEF room
  <2>4. Once(Append(room[d], j)) /\ ToSet(Append(room[d], j)) = ToSet(room[d]) \cup {j}
    BY <2>2, OnceAppended
  <2> QED BY <2>2, <2>3, <2>4
<1>5. Len(queue[d]) > 0 => queue[d] # <<>>
  OBVIOUS
<1> QED BY <1>1, <1>2, <1>3, <1>4, <1>5 DEF Enqueued, count_matching

LEMMA HandOffKeepsTypes ==
  ASSUME DistroTypes, NEW j \in Arrivals, NEW d \in Devices, HandOff(j, d), QueueTypes'
  PROVE  DistroTypes'
<1> USE DEF DistroTypes
<1>1. PICK after \in Enqueued(j, d), o \in {"waking", "quiet"} :
        queue' = after /\ outcome' = [outcome EXCEPT ![j] = [@ EXCEPT ![d] = o]]
  BY DEF HandOff
<1>2. outcome[j][d] = "unconfirmed" /\ UNCHANGED <<table_vars, ingest_vars, page>>
  BY DEF HandOff
<1>3. /\ outcome' \in [Arrivals -> [Devices -> Outcomes]]
      /\ outcome'[j][d] = o
      /\ \A i \in Arrivals, e \in Devices : i # j \/ e # d => outcome'[i][e] = outcome[i][e]
  <2>1. o \in Outcomes
    BY DEF Outcomes
  <2> QED BY <1>1, <2>1 DEF IngestTypes
<1>4. IngestTypes'
  BY <1>2, <1>3 DEF IngestTypes, table_vars, ingest_vars
<1>5. Unserved'
  <2>1. \A i \in Arrivals, e \in Devices : outcome[i][e] = "none" => outcome'[i][e] = "none"
    BY <1>2, <1>3
  <2>2. job' = job /\ todo' = todo /\ \A i \in Arrivals : todo[i] \subseteq Devices
    BY <1>2 DEF IngestTypes, ingest_vars
  <2> QED BY <2>1, <2>2 DEF Unserved
<1>6. j \notin ToSet(queue[d]) /\ j \notin ToSet(page[d])
  BY <1>2 DEF QueuedOnce, HandedOff
<1>7. /\ \A e \in Devices : Once(after[e])
      /\ \A e \in Devices : ToSet(after[e]) \subseteq ToSet(queue[e]) \cup (IF e = d THEN {j} ELSE {})
  BY <1>6, EnqueuedOnce DEF QueuedOnce
<1>8. ASSUME NEW e \in Devices
      PROVE  /\ Once(queue'[e]) /\ Once(page'[e])
             /\ ToSet(queue'[e]) \cap ToSet(page'[e]) = {}
             /\ \A i \in ToSet(queue'[e]) \cup ToSet(page'[e]) : outcome'[i][e] \in HandedOff
  <2>1. page' = page /\ queue' = after
    BY <1>1, <1>2
  <2>2. ToSet(queue[e]) \subseteq Arrivals /\ ToSet(page[e]) \subseteq Arrivals
    BY DEF QueuedOnce, QueueTypes, ToSet
  <2>3. o \in HandedOff
    BY DEF HandedOff
  <2>4. \A i \in ToSet(queue[e]) \cup ToSet(page[e]) : outcome'[i][e] \in HandedOff
    <3>1. \A i \in ToSet(queue[e]) \cup ToSet(page[e]) : i \in Arrivals /\ outcome[i][e] \in HandedOff
      BY <2>2 DEF QueuedOnce
    <3>2. ASSUME NEW i \in ToSet(queue[e]) \cup ToSet(page[e]) PROVE outcome'[i][e] \in HandedOff
      <4>1. CASE i = j /\ e = d
        BY <1>3, <2>3, <4>1
      <4>2. CASE i # j \/ e # d
        BY <1>3, <3>1, <4>2
      <4> QED BY <4>1, <4>2
    <3> QED BY <3>2
  <2>5. e = d => outcome'[j][e] \in HandedOff /\ j \notin ToSet(page[e])
    BY <1>3, <1>6, <2>3
  <2>6. ToSet(queue[e]) \cap ToSet(page[e]) = {} /\ Once(page[e])
    BY DEF QueuedOnce
  <2>7. Once(after[e]) /\ ToSet(after[e]) \subseteq ToSet(queue[e]) \cup (IF e = d THEN {j} ELSE {})
    BY <1>7
  <2> QED BY <2>1, <2>4, <2>5, <2>6, <2>7
<1> QED BY <1>4, <1>5, <1>8 DEF QueuedOnce

\* A step that leaves the buckets alone changes no outcome of what is queued,
\* but for another of those.
LEMMA BucketsStay ==
  ASSUME QueuedOnce, UNCHANGED queue_vars,
         \A j \in Arrivals, d \in Devices : outcome[j][d] \in HandedOff => outcome'[j][d] \in HandedOff
  PROVE  QueuedOnce'
<1>1. queue' = queue /\ page' = page /\ QueueTypes'
  BY DEF queue_vars, QueuedOnce, QueueTypes
<1>2. \A d \in Devices : ToSet(queue[d]) \subseteq Arrivals /\ ToSet(page[d]) \subseteq Arrivals
  BY DEF QueuedOnce, QueueTypes, ToSet
<1> QED BY <1>1, <1>2 DEF QueuedOnce

LEMMA TableKeepsTypes ==
  ASSUME DistroTypes,
         (\E d \in Devices : Register(d) \/ Unregister(d)) \/ AnnounceJudged \/ AnnounceStored
  PROVE  DistroTypes'
<1> USE DEF DistroTypes
<1>1. UNCHANGED <<ingest_vars, outcome, queue_vars>>
  BY DEF Register, Unregister, AnnounceJudged, AnnounceStored
<1>2. registered' \subseteq Devices /\ {announce', announcing', raced'} \subseteq BOOLEAN
  BY DEF IngestTypes, Register, Unregister, AnnounceJudged, AnnounceStored, announce_left, AnnounceLeft
<1>3. IngestTypes' /\ Unserved'
  BY <1>1, <1>2 DEF IngestTypes, Unserved, ingest_vars
<1>4. QueuedOnce'
  BY <1>1, BucketsStay
<1> QED BY <1>3, <1>4

LEMMA IngestKeepsTypes ==
  ASSUME DistroTypes, NEW j \in Arrivals, Ingest(j)
  PROVE  DistroTypes'
<1> USE DEF DistroTypes
<1>1. UNCHANGED <<table_vars, arrival, outcome, queue_vars>>
  BY DEF Ingest, Intercept, IngestDistroBlob, FedStored, Snapshot
<1>2. QueuedOnce'
  BY <1>1, BucketsStay
<1>3. held' \subseteq held \cup {arrival[j].blob}
  BY DEF Ingest, Intercept, IngestDistroBlob, FedStored, Snapshot
<1>4. CASE Intercept(j) \/ IngestDistroBlob(j) \/ FedStored(j)
  <2>1. PICK now \in {"judged", "done", "first", "stored"} : job' = [job EXCEPT ![j] = now]
    BY <1>4 DEF Intercept, IngestDistroBlob, FedStored
  <2>2. job[j] \in {"waiting", "judged"} /\ todo' = todo
    BY <1>4 DEF Intercept, IngestDistroBlob, FedStored
  <2>3. job' \in [Arrivals -> {"waiting", "judged", "first", "stored", "fanning", "done"}]
    BY <2>1 DEF IngestTypes
  <2>4. IngestTypes'
    BY <1>1, <1>3, <2>2, <2>3 DEF IngestTypes, table_vars
  <2>5. Unserved'
    BY <1>1, <2>1, <2>2 DEF IngestTypes, Unserved
  <2> QED BY <1>2, <2>4, <2>5
<1>5. CASE Snapshot(j)
  <2>1. PICK now \in {"fanning", "done"} : job' = [job EXCEPT ![j] = now]
    BY <1>5 DEF Snapshot
  <2>2. job[j] \in {"first", "stored"} /\ todo' = [todo EXCEPT ![j] = registered] /\ held' = held
    BY <1>5 DEF Snapshot
  <2>3. IngestTypes'
    BY <1>1, <2>1, <2>2 DEF IngestTypes, table_vars
  <2>4. Unserved'
    BY <1>1, <2>1, <2>2 DEF IngestTypes, Unserved
  <2> QED BY <1>2, <2>3, <2>4
<1> QED BY <1>4, <1>5 DEF Ingest

LEMMA ServiceKeepsTypes ==
  ASSUME DistroTypes, NEW j \in Arrivals, NEW d \in Devices,
         Serve(j, d) \/ Wake(j, d) \/ Verdict(j, d)
  PROVE  DistroTypes'
<1> USE DEF DistroTypes
<1>1. UNCHANGED <<table_vars, arrival, held, queue_vars>>
  BY DEF Verdict, Serve, Wake, Confirmed, Unproven, ingest_vars
<1>2. PICK o \in Outcomes :
        /\ outcome' = [outcome EXCEPT ![j] = [@ EXCEPT ![d] = o]]
        /\ outcome[j][d] \in HandedOff => o \in HandedOff
  <2>1. CASE Serve(j, d)
    <3>1. outcome[j][d] = "none"
      BY <2>1 DEF Serve, Unserved
    <3> QED BY <2>1, <3>1 DEF Serve, HandedOff, Outcomes
  <2>2. CASE Wake(j, d)
    BY <2>2 DEF Wake, HandedOff, Outcomes
  <2>3. CASE Verdict(j, d)
    BY <2>3 DEF Verdict, Confirmed, Unproven, unproven_hook, Hooked, HandedOff, Outcomes
  <2> QED BY <2>1, <2>2, <2>3
<1>3. /\ outcome' \in [Arrivals -> [Devices -> Outcomes]]
      /\ outcome'[j][d] = o
      /\ \A i \in Arrivals, e \in Devices : i # j \/ e # d => outcome'[i][e] = outcome[i][e]
  BY <1>2 DEF IngestTypes
<1>4. QueuedOnce'
  BY <1>1, <1>2, <1>3, BucketsStay
<1>5. CASE Serve(j, d)
  <2>1. /\ todo' = [todo EXCEPT ![j] = @ \ {d}]
        /\ job' = [job EXCEPT ![j] = IF todo[j] = {d} THEN "done" ELSE @]
        /\ job[j] = "fanning"
    BY <1>5 DEF Serve
  <2>2. IngestTypes'
    BY <1>1, <1>3, <2>1 DEF IngestTypes, table_vars
  <2>3. \A i \in Arrivals : i # j => job'[i] = job[i] /\ todo'[i] = todo[i]
    BY <2>1 DEF IngestTypes
  <2>4. job'[j] \in {"fanning", "done"} /\ todo'[j] = todo[j] \ {d}
    BY <2>1 DEF IngestTypes
  <2>5. \A i \in Arrivals : todo[i] \subseteq Devices
    BY DEF IngestTypes
  <2>6. Unserved'
    BY <1>3, <2>3, <2>4, <2>5 DEF Unserved
  <2> QED BY <1>4, <2>2, <2>6
<1>6. CASE ~Serve(j, d)
  <2>1. UNCHANGED <<job, todo>> /\ outcome[j][d] # "none"
    BY <1>6 DEF Wake, Verdict, Confirmed, Unproven, ingest_vars
  <2>2. IngestTypes'
    BY <1>1, <1>3, <2>1 DEF IngestTypes, table_vars
  <2>3. \A i \in Arrivals : todo[i] \subseteq Devices
    BY DEF IngestTypes
  <2>4. Unserved'
    BY <1>3, <2>1, <2>3 DEF Unserved
  <2> QED BY <1>4, <2>2, <2>4
<1> QED BY <1>5, <1>6

LEMMA PullKeepsTypes ==
  ASSUME DistroTypes, QueueTypes', NEW d \in Devices, PullPage(d) \/ PageProved(d) \/ PageReturned(d)
  PROVE  DistroTypes'
<1> USE DEF DistroTypes
<1>1. UNCHANGED <<table_vars, ingest_vars, outcome>>
  BY DEF PullPage, PageProved, PageReturned
<1>2. IngestTypes' /\ Unserved'
  BY <1>1 DEF IngestTypes, Unserved, table_vars, ingest_vars
<1>3. queue \in [Devices -> Seq(Arrivals)] /\ page \in [Devices -> Seq(Arrivals)]
  BY DEF QueuedOnce, QueueTypes
<1>4. /\ \A e \in Devices \ {d} : queue'[e] = queue[e] /\ page'[e] = page[e]
      /\ Once(queue'[d]) /\ Once(page'[d]) /\ ToSet(queue'[d]) \cap ToSet(page'[d]) = {}
      /\ ToSet(queue'[d]) \cup ToSet(page'[d]) \subseteq ToSet(queue[d]) \cup ToSet(page[d])
  <2>1. CASE PullPage(d)
    <3> DEFINE n == IF Len(queue[d]) < PageSize THEN Len(queue[d]) ELSE PageSize
    <3>1. /\ page' = [page EXCEPT ![d] = SubSeq(queue[d], 1, n)]
          /\ queue' = [queue EXCEPT ![d] = SubSeq(@, n + 1, Len(@))]
      BY <2>1 DEF PullPage
    <3>2. /\ n \in 0..Len(queue[d]) /\ n + 1 \in 1..Len(queue[d]) + 1
          /\ 1 \in 1..Len(queue[d]) + 1 /\ Len(queue[d]) \in 0..Len(queue[d])
      BY <1>3, ConstantsAssumption
    <3> HIDE DEF n
    <3>3. /\ ToSet(SubSeq(queue[d], 1, n)) \subseteq ToSet(queue[d])
          /\ ToSet(SubSeq(queue[d], n + 1, Len(queue[d]))) \subseteq ToSet(queue[d])
      BY <1>3, <3>2, ToSetPart
    <3>4. /\ Once(SubSeq(queue[d], 1, n)) /\ Once(SubSeq(queue[d], n + 1, Len(queue[d])))
          /\ ToSet(SubSeq(queue[d], 1, n)) \cap ToSet(SubSeq(queue[d], n + 1, Len(queue[d]))) = {}
      BY <1>3, <3>2, OnceCut DEF QueuedOnce
    <3> QED BY <1>3, <3>1, <3>3, <3>4
  <2>2. CASE PageProved(d)
    BY <1>3, <2>2 DEF PageProved, QueuedOnce, Once, ToSet
  <2>3. CASE PageReturned(d)
    <3>1. page' = [page EXCEPT ![d] = <<>>] /\ queue' = [queue EXCEPT ![d] = page[d] \o @]
      BY <2>3 DEF PageReturned
    <3>2. Once(page[d] \o queue[d]) /\ ToSet(page[d] \o queue[d]) = ToSet(page[d]) \cup ToSet(queue[d])
      BY <1>3, OnceJoined, ToSetConcat DEF QueuedOnce
    <3>3. Once(<<>>) /\ ToSet(<<>>) = {}
      BY DEF Once, ToSet
    <3> QED BY <1>3, <3>1, <3>2, <3>3
  <2> QED BY <2>1, <2>2, <2>3
<1>5. QueuedOnce'
  BY <1>1, <1>4 DEF QueuedOnce
<1> QED BY <1>2, <1>5

\* At a restart what a device's fan-out or hand-off was at is lost; what was
\* queued for it is in its bucket, a page's entries included.
LEMMA RestartKeepsTypes ==
  ASSUME DistroTypes, QueueTypes', Restart
  PROVE  DistroTypes'
<1> USE DEF DistroTypes
<1>1. UNCHANGED <<registered, announce, raced, arrival, held>> /\ announcing' = FALSE
  BY DEF Restart
<1>2. /\ outcome' = [j \in Arrivals |-> [d \in Devices |->
           IF d \in todo[j] \/ outcome[j][d] \in Outcomes \ (Final \cup {"none"})
             THEN "lost" ELSE outcome[j][d]]]
      /\ todo' = [j \in Arrivals |-> {}]
      /\ job' = [j \in Arrivals |-> IF job[j] = "waiting" THEN "waiting" ELSE "done"]
  BY DEF Restart
<1>3. outcome' \in [Arrivals -> [Devices -> Outcomes]]
  <2>1. "lost" \in Outcomes
    BY DEF Outcomes
  <2> QED BY <1>2, <2>1 DEF IngestTypes
<1>4. IngestTypes'
  BY <1>1, <1>2, <1>3 DEF IngestTypes
<1>5. Unserved'
  BY <1>2 DEF Unserved
<1>6. \A j \in Arrivals, d \in Devices : outcome[j][d] \in HandedOff => outcome'[j][d] \in HandedOff
  <2> SUFFICES ASSUME NEW j \in Arrivals, NEW d \in Devices, outcome[j][d] \in HandedOff
               PROVE  outcome'[j][d] \in HandedOff
    OBVIOUS
  <2>1. outcome'[j][d] \in {"lost", outcome[j][d]}
    BY <1>2
  <2> QED BY <2>1 DEF HandedOff
<1>7. ASSUME NEW d \in Devices
      PROVE  /\ Once(queue'[d]) /\ Once(page'[d])
             /\ ToSet(queue'[d]) \cap ToSet(page'[d]) = {}
             /\ \A j \in ToSet(queue'[d]) \cup ToSet(page'[d]) : outcome'[j][d] \in HandedOff
  <2>1. queue[d] \in Seq(Arrivals) /\ page[d] \in Seq(Arrivals)
    BY DEF QueuedOnce, QueueTypes
  <2>2. queue'[d] = page[d] \o queue[d] /\ page'[d] = <<>>
    BY DEF Restart
  <2>3. Once(page[d] \o queue[d]) /\ ToSet(page[d] \o queue[d]) = ToSet(page[d]) \cup ToSet(queue[d])
    <3>1. Once(page[d]) /\ Once(queue[d]) /\ ToSet(page[d]) \cap ToSet(queue[d]) = {}
      BY DEF QueuedOnce
    <3>2. Once(page[d] \o queue[d])
      BY <2>1, <3>1, OnceJoined
    <3> QED BY <2>1, <3>2, ToSetConcat
  <2>4. Once(<<>>) /\ ToSet(<<>>) = {}
    BY DEF Once, ToSet
  <2>5. ToSet(queue[d]) \subseteq Arrivals /\ ToSet(page[d]) \subseteq Arrivals
    BY <2>1 DEF ToSet
  <2> QED BY <1>6, <2>2, <2>3, <2>4, <2>5 DEF QueuedOnce
<1> QED BY <1>4, <1>5, <1>7 DEF QueuedOnce

\* Types for any devices, arrivals, limits and restarts: a message is queued
\* for a device once, in its bucket or in the page its pull holds, since it is
\* handed off once (distro_fanout, distro_hand_off, settle_page).
THEOREM DistroTypeCorrect == Spec => []TypeOK
<1>1. Init => DistroTypes /\ QueueTypes
  <2> SUFFICES ASSUME Init PROVE DistroTypes /\ QueueTypes
    OBVIOUS
  <2>1. QueueTypes
    BY InitBacklogInv DEF BacklogInv
  <2>2. IngestTypes /\ Unserved
    <3>1. registered \subseteq Devices /\ announce = FALSE /\ announcing = FALSE /\ raced = FALSE /\ held = {}
      BY RegisteredAssumption DEF Init
    <3>2. /\ job = [j \in Arrivals |-> "waiting"] /\ todo = [j \in Arrivals |-> {}]
          /\ outcome = [j \in Arrivals |-> [d \in Devices |-> "none"]]
      BY DEF Init
    <3>3. outcome \in [Arrivals -> [Devices -> Outcomes]]
      BY <3>2 DEF Outcomes
    <3> QED BY <3>1, <3>2, <3>3 DEF IngestTypes, Unserved
  <2>3. \A d \in Devices : Once(queue[d]) /\ Once(page[d]) /\ ToSet(queue[d]) = {} /\ ToSet(page[d]) = {}
    BY DEF Init, Once, ToSet
  <2> QED BY <2>1, <2>2, <2>3 DEF DistroTypes, QueuedOnce
<1>2. DistroTypes /\ BacklogInv /\ BacklogInv' /\ [Next]_vars => DistroTypes'
  <2> SUFFICES ASSUME DistroTypes, BacklogInv, BacklogInv', [Next]_vars PROVE DistroTypes'
    OBVIOUS
  <2>1. QueueTypes'
    BY DEF BacklogInv
  <2>2. ASSUME UNCHANGED vars PROVE DistroTypes'
    <3>1. UNCHANGED <<table_vars, ingest_vars, outcome, queue_vars>>
      BY <2>2 DEF vars
    <3>2. QueuedOnce'
      BY <3>1, BucketsStay DEF DistroTypes
    <3> QED BY <3>1, <3>2 DEF DistroTypes, IngestTypes, Unserved, table_vars, ingest_vars
  <2>3. CASE Next
    BY <2>1, <2>3, TableKeepsTypes, IngestKeepsTypes, HandOffKeepsTypes, ServiceKeepsTypes,
       PullKeepsTypes, RestartKeepsTypes DEF Next, Fan
  <2> QED BY <2>2, <2>3
<1>3. DistroTypes => TypeOK
  BY DEF DistroTypes, IngestTypes, QueuedOnce, QueueTypes, TypeOK
<1> QED BY <1>1, <1>2, <1>3, InitBacklogInv, StepKeepsBacklogInv, PTL DEF Spec

-----------------------------------------------------------------------------
(***************************************************************************)
(* FedSync: what was stored and has yet to go out.                         *)
(***************************************************************************)

\* A session's part in what has yet to go out at n.
Brings(s, n, b) == s.node = n /\ s.step = "fan-out" /\ b \in s.want
Bringing(n, b) == {s \in sessions : Brings(s, n, b)}

Hands(n, b) == IF b \in sending[n] THEN 1 ELSE 0

\* A blob is stored only after it was published, so that a publish always finds
\* it new; a session is known by its node and its link.
FedSorts ==
  /\ store \in [Nodes -> Seq(made)] /\ made \subseteq Blobs
  /\ unsent \in [Nodes -> [Blobs -> Int]]
  /\ sending \in [Nodes -> SUBSET made]
  /\ IsFiniteSet(sessions) /\ sessions \subseteq Session
  /\ \A s, t \in sessions : s.node = t.node /\ s.id = t.id => s = t

Accounted == \A n \in Nodes, b \in Blobs : unsent[n][b] = Cardinality(Bringing(n, b)) + Hands(n, b)

FedInv == FedSorts /\ Accounted

LEMMA BringingFinite ==
  ASSUME FedSorts, NEW n, NEW b
  PROVE  IsFiniteSet(Bringing(n, b)) /\ Cardinality(Bringing(n, b)) \in Nat
BY FS_Subset, FS_CardinalityType DEF FedSorts, Bringing

\* One session goes on: what it brought is replaced by what it brings.
LEMMA SessionGoesOn ==
  ASSUME FedSorts, NEW s \in sessions, NEW t \in Session, t.node = s.node, t.id = s.id,
         Becomes(s, t)
  PROVE  /\ IsFiniteSet(sessions') /\ sessions' \subseteq Session
         /\ \A r, q \in sessions' : r.node = q.node /\ r.id = q.id => r = q
         /\ \A n \in Nodes, b \in Blobs :
              Cardinality(Bringing(n, b)') = Cardinality(Bringing(n, b)) - (IF Brings(s, n, b) THEN 1 ELSE 0)
                                                                        + (IF Brings(t, n, b) THEN 1 ELSE 0)
<1>1. CASE Finished(t)
  <2>1. sessions' = sessions \ {s}
    BY <1>1 DEF Becomes
  <2>2. \A n \in Nodes, b \in Blobs : ~Brings(t, n, b)
    BY <1>1 DEF Finished, Brings
  <2>3. ASSUME NEW n \in Nodes, NEW b \in Blobs
        PROVE  Cardinality(Bringing(n, b)') = Cardinality(Bringing(n, b)) - (IF Brings(s, n, b) THEN 1 ELSE 0)
    <3> DEFINE F == Bringing(n, b)
    <3>1. Bringing(n, b)' = F \ {s}
      BY <2>1 DEF Bringing, Brings
    <3>2. IsFiniteSet(F) /\ Cardinality(F) \in Nat /\ (s \in F <=> Brings(s, n, b))
      BY BringingFinite DEF Bringing
    <3> HIDE DEF F
    <3>3. Cardinality(F \ {s}) = IF s \in F THEN Cardinality(F) - 1 ELSE Cardinality(F)
      BY <3>2, FS_RemoveElement
    <3>4. Cardinality(F \ {s}) = Cardinality(F) - (IF Brings(s, n, b) THEN 1 ELSE 0)
      BY <3>2, <3>3
    <3> QED BY <3>1, <3>4 DEF F
  <2>4. IsFiniteSet(sessions')
    BY <2>1, FS_RemoveElement DEF FedSorts
  <2>5. ASSUME NEW n \in Nodes, NEW b \in Blobs PROVE Cardinality(Bringing(n, b)) \in Nat
    BY BringingFinite
  <2> QED BY <2>1, <2>2, <2>3, <2>4, <2>5 DEF FedSorts
<1>2. CASE ~Finished(t)
  <2>1. sessions' = (sessions \ {s}) \cup {t}
    BY <1>2 DEF Becomes
  <2>2. t \notin sessions \ {s}
    BY DEF FedSorts
  <2>3. ASSUME NEW n \in Nodes, NEW b \in Blobs
        PROVE  Cardinality(Bringing(n, b)') = Cardinality(Bringing(n, b)) - (IF Brings(s, n, b) THEN 1 ELSE 0)
                                                                         + (IF Brings(t, n, b) THEN 1 ELSE 0)
    <3> DEFINE F == Bringing(n, b)
               R == F \ {s}
    <3>1. /\ Bringing(n, b)' = IF Brings(t, n, b) THEN R \cup {t} ELSE R
          /\ s \in F <=> Brings(s, n, b)
          /\ t \notin R
      BY <2>1, <2>2 DEF Bringing, Brings
    <3>2. IsFiniteSet(F) /\ Cardinality(F) \in Nat
      BY BringingFinite
    <3> HIDE DEF F
    <3>3. IsFiniteSet(R) /\ Cardinality(R) = Cardinality(F) - (IF Brings(s, n, b) THEN 1 ELSE 0)
      BY <3>1, <3>2, FS_RemoveElement
    <3>4. Cardinality(R \cup {t}) = Cardinality(R) + 1
      BY <3>1, <3>3, FS_AddElement
    <3>5. Cardinality(R) \in Int
      BY <3>2, <3>3
    <3>6. Cardinality(Bringing(n, b)') = Cardinality(F) - (IF Brings(s, n, b) THEN 1 ELSE 0)
                                                       + (IF Brings(t, n, b) THEN 1 ELSE 0)
      <4> HIDE DEF R
      <4> QED BY <3>1, <3>2, <3>3, <3>4, <3>5
    <3> QED BY <3>6 DEF F
  <2>4. IsFiniteSet(sessions')
    BY <2>1, FS_RemoveElement, FS_AddElement DEF FedSorts
  <2>5. \A r, q \in sessions' : r.node = q.node /\ r.id = q.id => r = q
    BY <2>1 DEF FedSorts
  <2> QED BY <2>1, <2>3, <2>4, <2>5 DEF FedSorts
<1> QED BY <1>1, <1>2

LEMMA HeldBlobs ==
  ASSUME FedSorts, NEW n \in Nodes
  PROVE  Held(n) \subseteq made /\ Held(n) \subseteq Blobs
BY DEF FedSorts, Held, ToSet

\* A session that changes nothing of what it brings, with stores as they were.
LEMMA BringsTheSame ==
  ASSUME FedInv, NEW s \in sessions, NEW t \in Session, t.node = s.node, t.id = s.id,
         Becomes(s, t), UNCHANGED <<store, made, unsent, sending>>,
         (s.step # "fan-out" /\ t.step # "fan-out") \/ (s.step = t.step /\ s.want = t.want)
  PROVE  FedInv'
<1>1. FedSorts'
  BY SessionGoesOn DEF FedInv, FedSorts
<1>2. ASSUME NEW n \in Nodes, NEW b \in Blobs PROVE unsent'[n][b] = Cardinality(Bringing(n, b)') + Hands(n, b)'
  <2>1. Brings(s, n, b) <=> Brings(t, n, b)
    BY DEF Brings
  <2>2. Cardinality(Bringing(n, b)) \in Nat /\ unsent[n][b] = Cardinality(Bringing(n, b)) + Hands(n, b)
    BY BringingFinite DEF FedInv, Accounted
  <2>3. Cardinality(Bringing(n, b)') = Cardinality(Bringing(n, b)) - (IF Brings(s, n, b) THEN 1 ELSE 0)
                                                                   + (IF Brings(t, n, b) THEN 1 ELSE 0)
    BY SessionGoesOn DEF FedInv
  <2>4. Cardinality(Bringing(n, b)') = Cardinality(Bringing(n, b))
    BY <2>1, <2>2, <2>3
  <2>5. Hands(n, b)' = Hands(n, b) /\ unsent'[n][b] = unsent[n][b]
    BY DEF Hands
  <2> QED BY <2>2, <2>4, <2>5
<1> QED BY <1>1, <1>2 DEF FedInv, Accounted

\* Its step and its link are all a session changes before its answer comes.
Changed(s, step, want, up, watched) ==
  [s EXCEPT !.step = step, !.want = want, !.up = up, !.watched = watched]

Steps == {"linking", "offer", "get", "fan-out", "over"}

LEMMA ChangedIsSession ==
  ASSUME NEW s \in Session, NEW step \in Steps, NEW want \in SUBSET Blobs, NEW up \in BOOLEAN,
         NEW watched \in BOOLEAN
  PROVE  /\ Changed(s, step, want, up, watched) \in Session
         /\ Changed(s, step, want, up, watched).node = s.node /\ Changed(s, step, want, up, watched).id = s.id
         /\ Changed(s, step, want, up, watched).step = step /\ Changed(s, step, want, up, watched).want = want
BY DEF Changed, Session, Steps

LEMMA QuietChange ==
  ASSUME FedInv, UNCHANGED <<store, made, unsent, sending>>, NEW s \in sessions,
         NEW step \in Steps, NEW want \in SUBSET Blobs, NEW up \in BOOLEAN, NEW watched \in BOOLEAN,
         Becomes(s, Changed(s, step, want, up, watched)),
         (s.step # "fan-out" /\ step # "fan-out") \/ (s.step = step /\ s.want = want)
  PROVE  FedInv'
<1> DEFINE t == Changed(s, step, want, up, watched)
<1>1. s \in Session
  BY DEF FedInv, FedSorts
<1>2. t \in Session /\ t.node = s.node /\ t.id = s.id /\ t.step = step /\ t.want = want
  BY <1>1, ChangedIsSession
<1>3. Becomes(s, t)
  OBVIOUS
<1> HIDE DEF t
<1> QED BY <1>2, <1>3, BringsTheSame

LEMMA QuietSteps ==
  ASSUME FedInv, NEW s \in sessions,
         \/ LinkUp(s) \/ OfferNotSent(s) \/ OfferAnswered(s) \/ GetNotSent(s)
         \/ RequestFailed(s) \/ LinkDies(s) \/ ClosedCallback(s)
  PROVE  FedInv'
<1>0. s \in Session
  BY DEF FedInv, FedSorts
<1>1. UNCHANGED <<store, made, unsent, sending>>
  BY DEF LinkUp, OfferNotSent, OfferAnswered, GetNotSent, RequestFailed, LinkDies,
     ClosedCallback, publishing
<1>2. /\ s.step \in Steps /\ s.want \in SUBSET Blobs
      /\ s.up \in BOOLEAN /\ s.watched \in BOOLEAN
  BY <1>0 DEF Session, Steps
<1>3. ASSUME NEW step \in {"offer", "get"}, NEW want \in SUBSET Blobs, s.step # "fan-out",
             Becomes(s, [s EXCEPT !.step = step, !.want = want])
      PROVE  FedInv'
  <2>1. [s EXCEPT !.step = step, !.want = want] = Changed(s, step, want, s.up, s.watched)
    BY <1>0 DEF Session, Changed
  <2>2. Becomes(s, Changed(s, step, want, s.up, s.watched))
    BY <1>3, <2>1
  <2>3. /\ step \in Steps
        /\ (s.step # "fan-out" /\ step # "fan-out") \/ (s.step = step /\ s.want = want)
    BY <1>3 DEF Steps
  <2>4. s.up \in BOOLEAN /\ s.watched \in BOOLEAN
    BY <1>2
  <2> QED BY <1>1, <2>2, <2>3, <2>4, QuietChange
<1>4. ASSUME s.step # "fan-out", Becomes(s, torn_down(s)) PROVE FedInv'
  <2>1. torn_down(s) = Changed(s, "over", {}, FALSE, s.watched)
    BY <1>0 DEF torn_down, Session, Changed
  <2>2. Becomes(s, Changed(s, "over", {}, FALSE, s.watched))
    BY <1>4, <2>1
  <2>3. /\ "over" \in Steps /\ {} \in SUBSET Blobs /\ FALSE \in BOOLEAN
        /\ (s.step # "fan-out" /\ "over" # "fan-out") \/ (s.step = "over" /\ s.want = {})
    BY <1>4 DEF Steps
  <2>4. s.watched \in BOOLEAN
    BY <1>2
  <2> QED BY <1>1, <2>2, <2>3, <2>4, QuietChange
<1>5. CASE LinkDies(s)
  <2> DEFINE step == IF s.step = "linking" THEN "over" ELSE s.step
  <2>1. [s EXCEPT !.up = FALSE, !.step = IF @ = "linking" THEN "over" ELSE @]
        = Changed(s, step, s.want, FALSE, s.watched)
    BY <1>0 DEF Session, Changed
  <2>2. Becomes(s, Changed(s, step, s.want, FALSE, s.watched))
    BY <1>5, <2>1 DEF LinkDies
  <2>3. /\ step \in Steps
        /\ (s.step # "fan-out" /\ step # "fan-out") \/ (s.step = step /\ s.want = s.want)
    BY <1>2 DEF Steps
  <2> HIDE DEF step
  <2> QED BY <1>1, <1>2, <2>2, <2>3, QuietChange
<1>6. CASE ClosedCallback(s)
  <2>1. [s EXCEPT !.watched = FALSE] = Changed(s, s.step, s.want, s.up, FALSE)
    BY <1>0 DEF Session, Changed
  <2>2. Becomes(s, Changed(s, s.step, s.want, s.up, FALSE))
    BY <1>6, <2>1 DEF ClosedCallback
  <2> QED BY <1>1, <1>2, <2>2, QuietChange
<1>7. CASE LinkUp(s)
  <2>1. [s EXCEPT !.step = "offer"] = [s EXCEPT !.step = "offer", !.want = s.want]
    BY <1>0 DEF Session
  <2>2. s.step # "fan-out" /\ Becomes(s, [s EXCEPT !.step = "offer", !.want = s.want])
    BY <1>7, <2>1 DEF LinkUp
  <2> QED BY <1>2, <1>3, <2>2
<1>8. CASE OfferAnswered(s)
  <2>1. s.step # "fan-out"
    BY <1>8 DEF OfferAnswered
  <2>2. s.peer \in Nodes
    BY <1>0 DEF Session
  <2>3. gap_from_peer(s.node, s.peer) \in SUBSET Blobs
    BY <2>2, HeldBlobs DEF FedInv, gap_from_peer
  <2> QED BY <1>3, <1>4, <1>8, <2>1, <2>3 DEF OfferAnswered, teardown_sync
<1>9. CASE OfferNotSent(s) \/ GetNotSent(s) \/ RequestFailed(s)
  BY <1>4, <1>9 DEF OfferNotSent, GetNotSent, RequestFailed, teardown_sync
<1> QED BY <1>5, <1>6, <1>7, <1>8, <1>9

\* What a store holds is finite and was published.
LEMMA HeldIsFinite ==
  ASSUME FedSorts, NEW n \in Nodes
  PROVE  IsFiniteSet(Held(n))
<1> DEFINE f == store[n]
           T == Held(n)
<1>1. f \in Seq(made) /\ Len(f) \in Nat /\ DOMAIN f = 1 .. Len(f)
  BY DEF FedSorts
<1>2. T = {f[i] : i \in 1 .. Len(f)}
  BY <1>1 DEF Held, ToSet
<1>3. f \in [1 .. Len(f) -> T]
  BY <1>1, <1>2
<1>4. f \in Surjection(1 .. Len(f), T)
  BY <1>2, <1>3 DEF Surjection
<1>5. IsFiniteSet(1 .. Len(f))
  BY <1>1, FS_Interval
<1> HIDE DEF f, T
<1>6. IsFiniteSet(T)
  BY <1>4, <1>5, FS_Surjection
<1> QED BY <1>6 DEF T

\* Stores keep to what was published.
LEMMA EvictKeepsBlobs ==
  ASSUME NEW S, NEW s \in Seq(S), NEW capacity \in Nat
  PROVE  evict_to_fit(s, capacity) \in Seq(S)
<1> DEFINE m == IF Len(s) > capacity THEN Len(s) - capacity + 1 ELSE 1
<1>1. m \in Int /\ m >= 1 /\ Len(s) \in Int
  OBVIOUS
<1>2. \A i \in m .. Len(s) : s[i] \in S
  <2> SUFFICES ASSUME NEW i \in m .. Len(s) PROVE s[i] \in S
    OBVIOUS
  <2>1. i \in 1 .. Len(s)
    BY <1>1
  <2> QED BY <2>1
<1> HIDE DEF m
<1>3. SubSeq(s, m, Len(s)) \in Seq(S)
  BY <1>1, <1>2, SubSeqProperties
<1> QED BY <1>3 DEF evict_to_fit, m

LEMMA StoreKeepsBlobs ==
  ASSUME NEW S, NEW s \in Seq(S), NEW capacity \in Nat, NEW expired \in 0 .. Len(s),
         NEW blobs \in SUBSET S, IsFiniteSet(blobs), NEW order \in SetToSeqs(blobs)
  PROVE  store_with_id(s, capacity, expired, order) \in Seq(S)
<1> DEFINE kept == SubSeq(s, expired + 1, Len(s))
<1>1. expired + 1 \in Int /\ Len(s) \in Int /\ expired + 1 >= 1
  OBVIOUS
<1>2. \A i \in expired + 1 .. Len(s) : s[i] \in S
  <2> SUFFICES ASSUME NEW i \in expired + 1 .. Len(s) PROVE s[i] \in S
    OBVIOUS
  <2>1. i \in 1 .. Len(s)
    BY <1>1
  <2> QED BY <2>1
<1>3. kept \in Seq(S)
  BY <1>1, <1>2, SubSeqProperties
<1>4. order \in Seq(S)
  <2>1. Cardinality(blobs) \in Nat
    BY FS_CardinalityType
  <2>2. order \in [1 .. Cardinality(blobs) -> blobs]
    BY DEF SetToSeqs
  <2> QED BY <2>1, <2>2
<1> HIDE DEF kept
<1>5. kept \o order \in Seq(S)
  BY <1>3, <1>4
<1>6. evict_to_fit(kept \o order, capacity) \in Seq(S)
  BY <1>5, EvictKeepsBlobs
<1> QED BY <1>6 DEF store_with_id, kept

LEMMA StoreGoesOn ==
  ASSUME FedSorts, NEW n \in Nodes, NEW blobs \in SUBSET made', IsFiniteSet(blobs),
         made \subseteq made', made' \subseteq Blobs, Stored(n, blobs)
  PROVE  /\ store' \in [Nodes -> Seq(made')]
         /\ unsent' \in [Nodes -> [Blobs -> Int]]
         /\ \A m \in Nodes, b \in Blobs :
              unsent'[m][b] = unsent[m][b] + (IF m = n /\ b \in blobs \ Held(n) THEN 1 ELSE 0)
<1> DEFINE new == blobs \ Held(n)
<1>1. new \in SUBSET made' /\ IsFiniteSet(new)
  BY FS_Subset
<1>2. \A m \in Nodes : store[m] \in Seq(made')
  BY DEF FedSorts
<1>3. Capacity[n] \in Nat
  BY FedAssumption
<1>4. PICK expired \in 0 .. Len(store[n]), order \in SetToSeqs(new) :
        store' = [store EXCEPT ![n] = store_with_id(@, Capacity[n], expired, order)]
  BY DEF Stored
<1>5. unsent' = [unsent EXCEPT ![n] = [b \in Blobs |-> IF b \in new THEN @[b] + 1 ELSE @[b]]]
  BY DEF Stored
<1> HIDE DEF new
<1>6. store_with_id(store[n], Capacity[n], expired, order) \in Seq(made')
  BY <1>1, <1>2, <1>3, StoreKeepsBlobs
<1>7. store \in [Nodes -> Seq(made)]
  BY DEF FedSorts
<1>8. store' \in [Nodes -> Seq(made')]
  <2> DEFINE stored == store_with_id(store[n], Capacity[n], expired, order)
  <2>1. store' = [store EXCEPT ![n] = stored] /\ stored \in Seq(made')
    BY <1>4, <1>6
  <2> HIDE DEF stored
  <2> QED BY <1>2, <1>7, <2>1
<1>9. unsent \in [Nodes -> [Blobs -> Int]]
  BY DEF FedSorts
<1>10. /\ unsent' \in [Nodes -> [Blobs -> Int]]
       /\ \A m \in Nodes, b \in Blobs :
            unsent'[m][b] = unsent[m][b] + (IF m = n /\ b \in new THEN 1 ELSE 0)
  BY <1>5, <1>9
<1> QED BY <1>8, <1>10 DEF new

\* What went out leaves the account.
LEMMA OutGoes ==
  ASSUME FedSorts, NEW n \in Nodes, NEW blobs \in SUBSET Blobs, WentOut(n, blobs)
  PROVE  /\ unsent' \in [Nodes -> [Blobs -> Int]]
         /\ \A m \in Nodes, b \in Blobs :
              unsent'[m][b] = unsent[m][b] - (IF m = n /\ b \in blobs THEN 1 ELSE 0)
BY DEF FedSorts, WentOut

LEMMA PublishAccounts ==
  ASSUME FedInv, NEW n \in Nodes, NEW b \in Blobs, Publish(n, b)
  PROVE  FedInv'
<1>1. /\ b \notin made /\ made' = made \cup {b} /\ sessions' = sessions
      /\ sending' = [sending EXCEPT ![n] = @ \cup {b}] /\ Stored(n, {b})
  BY DEF Publish
<1>2. FedSorts
  BY DEF FedInv
<1>3. made \subseteq made' /\ made' \subseteq Blobs /\ {b} \in SUBSET made'
  BY <1>1, <1>2 DEF FedSorts
<1>4. IsFiniteSet({b})
  BY FS_Singleton
<1>5. {b} \ Held(n) = {b} /\ b \notin sending[n]
  BY <1>1, <1>2, HeldBlobs DEF FedSorts
<1>6. /\ store' \in [Nodes -> Seq(made')] /\ unsent' \in [Nodes -> [Blobs -> Int]]
      /\ \A m \in Nodes, c \in Blobs : unsent'[m][c] = unsent[m][c] + (IF m = n /\ c \in {b} THEN 1 ELSE 0)
  <2> DEFINE blobs == {b}
  <2>1. blobs \in SUBSET made' /\ IsFiniteSet(blobs) /\ Stored(n, blobs) /\ blobs \ Held(n) = blobs
    BY <1>1, <1>3, <1>4, <1>5
  <2> HIDE DEF blobs
  <2>2. /\ store' \in [Nodes -> Seq(made')] /\ unsent' \in [Nodes -> [Blobs -> Int]]
        /\ \A m \in Nodes, c \in Blobs :
             unsent'[m][c] = unsent[m][c] + (IF m = n /\ c \in blobs \ Held(n) THEN 1 ELSE 0)
    BY <1>2, <1>3, <2>1, StoreGoesOn
  <2>3. blobs \ Held(n) = {b}
    BY <2>1 DEF blobs
  <2> QED BY <2>2, <2>3
<1>7. sending' \in [Nodes -> SUBSET made']
  BY <1>1, <1>2, <1>3 DEF FedSorts
<1>8. FedSorts'
  BY <1>1, <1>2, <1>3, <1>6, <1>7 DEF FedSorts, Session
<1>9. ASSUME NEW m \in Nodes, NEW c \in Blobs
      PROVE  unsent'[m][c] = Cardinality(Bringing(m, c)') + Hands(m, c)'
  <2>1. Bringing(m, c)' = Bringing(m, c)
    BY <1>1 DEF Bringing, Brings
  <2>2. Cardinality(Bringing(m, c)) \in Nat /\ unsent[m][c] = Cardinality(Bringing(m, c)) + Hands(m, c)
    BY <1>2, BringingFinite DEF FedInv, Accounted
  <2>3. Hands(m, c)' = Hands(m, c) + (IF m = n /\ c \in {b} THEN 1 ELSE 0)
    BY <1>1, <1>2, <1>5 DEF Hands, FedSorts
  <2>4. unsent'[m][c] = unsent[m][c] + (IF m = n /\ c \in {b} THEN 1 ELSE 0)
    BY <1>6
  <2>5. Hands(m, c) \in Nat
    BY DEF Hands
  <2> QED BY <2>1, <2>2, <2>3, <2>4, <2>5
<1> QED BY <1>8, <1>9 DEF FedInv, Accounted

LEMMA PublishedAccounts ==
  ASSUME FedInv, NEW n \in Nodes, NEW b \in Blobs, PublishedGoesOut(n, b)
  PROVE  FedInv'
<1>1. /\ b \in sending[n] /\ made' = made /\ store' = store /\ sessions' = sessions
      /\ sending' = [sending EXCEPT ![n] = @ \ {b}] /\ WentOut(n, {b})
  BY DEF PublishedGoesOut
<1>2. FedSorts
  BY DEF FedInv
<1>3. /\ unsent' \in [Nodes -> [Blobs -> Int]]
      /\ \A m \in Nodes, c \in Blobs : unsent'[m][c] = unsent[m][c] - (IF m = n /\ c \in {b} THEN 1 ELSE 0)
  BY <1>1, <1>2, OutGoes
<1>4. sending' \in [Nodes -> SUBSET made']
  BY <1>1, <1>2 DEF FedSorts
<1>5. FedSorts'
  BY <1>1, <1>2, <1>3, <1>4 DEF FedSorts, Session
<1>6. ASSUME NEW m \in Nodes, NEW c \in Blobs
      PROVE  unsent'[m][c] = Cardinality(Bringing(m, c)') + Hands(m, c)'
  <2>1. Bringing(m, c)' = Bringing(m, c)
    BY <1>1 DEF Bringing, Brings
  <2>2. Cardinality(Bringing(m, c)) \in Nat /\ unsent[m][c] = Cardinality(Bringing(m, c)) + Hands(m, c)
    BY <1>2, BringingFinite DEF FedInv, Accounted
  <2>3. Hands(m, c)' = Hands(m, c) - (IF m = n /\ c \in {b} THEN 1 ELSE 0)
    BY <1>1, <1>2 DEF Hands, FedSorts
  <2>4. unsent'[m][c] = unsent[m][c] - (IF m = n /\ c \in {b} THEN 1 ELSE 0)
    BY <1>3
  <2>5. Hands(m, c) \in Nat
    BY DEF Hands
  <2> QED BY <2>1, <2>2, <2>3, <2>4, <2>5
<1> QED BY <1>5, <1>6 DEF FedInv, Accounted

\* An answer: what was not held is stored, and the session brings just that.
LEMMA AnswerAccounts ==
  ASSUME FedInv, NEW s \in sessions, GetAnswered(s)
  PROVE  FedInv'
<1>1. FedSorts /\ s \in Session
  BY DEF FedInv, FedSorts
<1>2. s.node \in Nodes /\ s.peer \in Nodes /\ s.step = "get" /\ s.up \in BOOLEAN /\ s.watched \in BOOLEAN
  BY <1>1 DEF Session, GetAnswered
<1>3. made' = made /\ sending' = sending
  BY DEF GetAnswered, publishing
<1>4. PICK before \in {0, sent[s.peer]} : \E answer \in Answers(s.peer, s.want, before) :
        /\ Stored(s.node, Ingested(s.node, answer))
        /\ Becomes(s, [s EXCEPT !.step = "fan-out", !.want = Ingested(s.node, answer)])
  BY DEF GetAnswered
<1>5. PICK answer \in Answers(s.peer, s.want, before) :
        /\ Stored(s.node, Ingested(s.node, answer))
        /\ Becomes(s, [s EXCEPT !.step = "fan-out", !.want = Ingested(s.node, answer)])
  BY <1>4
<1> DEFINE n == s.node
           new == Ingested(n, answer)
           t == Changed(s, "fan-out", new, s.up, s.watched)
<1>6. answer \subseteq Held(s.peer)
  BY <1>5 DEF Answers
<1>7. new \in SUBSET made /\ new \in SUBSET Blobs /\ IsFiniteSet(new) /\ new \ Held(n) = new
  <2>1. IsFiniteSet(Held(s.peer)) /\ Held(s.peer) \subseteq made /\ Held(s.peer) \subseteq Blobs
    BY <1>1, <1>2, HeldIsFinite, HeldBlobs
  <2>2. new \subseteq Held(s.peer) /\ new \ Held(n) = new
    BY <1>6 DEF Ingested
  <2> QED BY <2>1, <2>2, FS_Subset
<1>8. [s EXCEPT !.step = "fan-out", !.want = new] = t
  BY <1>1 DEF Session, Changed
<1>9. t \in Session /\ t.node = n /\ t.id = s.id /\ t.step = "fan-out" /\ t.want = new
  <2>1. "fan-out" \in Steps
    BY DEF Steps
  <2> HIDE DEF new
  <2> QED BY <1>1, <1>2, <1>7, <2>1, ChangedIsSession
<1>10. Becomes(s, t) /\ Stored(n, new)
  BY <1>5, <1>8
<1> HIDE DEF t, new
<1>11. /\ store' \in [Nodes -> Seq(made')] /\ unsent' \in [Nodes -> [Blobs -> Int]]
       /\ \A m \in Nodes, c \in Blobs : unsent'[m][c] = unsent[m][c] + (IF m = n /\ c \in new THEN 1 ELSE 0)
  <2>1. made \subseteq made' /\ made' \subseteq Blobs /\ new \in SUBSET made'
    BY <1>1, <1>3, <1>7 DEF FedSorts
  <2> QED BY <1>1, <1>2, <1>7, <1>10, <2>1, StoreGoesOn
<1>12. /\ IsFiniteSet(sessions') /\ sessions' \subseteq Session
       /\ \A r, q \in sessions' : r.node = q.node /\ r.id = q.id => r = q
       /\ \A m \in Nodes, c \in Blobs :
            Cardinality(Bringing(m, c)') = Cardinality(Bringing(m, c)) - (IF Brings(s, m, c) THEN 1 ELSE 0)
                                                                      + (IF Brings(t, m, c) THEN 1 ELSE 0)
  BY <1>1, <1>9, <1>10, SessionGoesOn
<1>13. FedSorts'
  BY <1>1, <1>3, <1>11, <1>12 DEF FedSorts, Session
<1>14. ASSUME NEW m \in Nodes, NEW c \in Blobs
       PROVE  unsent'[m][c] = Cardinality(Bringing(m, c)') + Hands(m, c)'
  <2>1. ~Brings(s, m, c) /\ (Brings(t, m, c) <=> m = n /\ c \in new)
    BY <1>2, <1>9 DEF Brings
  <2>2. Cardinality(Bringing(m, c)) \in Nat /\ unsent[m][c] = Cardinality(Bringing(m, c)) + Hands(m, c)
    BY <1>1, BringingFinite DEF FedInv, Accounted
  <2>3. Hands(m, c)' = Hands(m, c) /\ Hands(m, c) \in Nat
    BY <1>3 DEF Hands
  <2>4. unsent'[m][c] = unsent[m][c] + (IF m = n /\ c \in new THEN 1 ELSE 0)
    BY <1>11
  <2>5. Cardinality(Bringing(m, c)') = Cardinality(Bringing(m, c)) + (IF m = n /\ c \in new THEN 1 ELSE 0)
    BY <1>12, <2>1, <2>2
  <2> QED BY <2>2, <2>3, <2>4, <2>5
<1> QED BY <1>13, <1>14 DEF FedInv, Accounted

LEMMA FanOutAccounts ==
  ASSUME FedInv, NEW s \in sessions, FanOut(s)
  PROVE  FedInv'
<1>1. FedSorts /\ s \in Session
  BY DEF FedInv, FedSorts
<1>2. s.node \in Nodes /\ s.want \in SUBSET Blobs /\ s.step = "fan-out" /\ s.watched \in BOOLEAN
  BY <1>1 DEF Session, FanOut
<1>3. made' = made /\ sending' = sending /\ store' = store /\ WentOut(s.node, s.want)
  BY DEF FanOut, publishing
<1> DEFINE n == s.node
           t == Changed(s, "over", {}, FALSE, s.watched)
<1>4. t \in Session /\ t.node = n /\ t.id = s.id /\ t.step = "over"
  BY <1>1 DEF Changed, Session
<1>5. Becomes(s, t)
  <2>1. torn_down(s) = t
    BY <1>1 DEF torn_down, Session, Changed
  <2> QED BY <2>1 DEF FanOut, teardown_sync
<1> HIDE DEF t
<1>6. /\ unsent' \in [Nodes -> [Blobs -> Int]]
      /\ \A m \in Nodes, c \in Blobs : unsent'[m][c] = unsent[m][c] - (IF m = n /\ c \in s.want THEN 1 ELSE 0)
  BY <1>1, <1>2, <1>3, OutGoes
<1>7. /\ IsFiniteSet(sessions') /\ sessions' \subseteq Session
      /\ \A r, q \in sessions' : r.node = q.node /\ r.id = q.id => r = q
      /\ \A m \in Nodes, c \in Blobs :
           Cardinality(Bringing(m, c)') = Cardinality(Bringing(m, c)) - (IF Brings(s, m, c) THEN 1 ELSE 0)
                                                                     + (IF Brings(t, m, c) THEN 1 ELSE 0)
  BY <1>1, <1>4, <1>5, SessionGoesOn
<1>8. FedSorts'
  BY <1>1, <1>3, <1>6, <1>7 DEF FedSorts, Session
<1>9. ASSUME NEW m \in Nodes, NEW c \in Blobs
      PROVE  unsent'[m][c] = Cardinality(Bringing(m, c)') + Hands(m, c)'
  <2>1. ~Brings(t, m, c) /\ (Brings(s, m, c) <=> m = n /\ c \in s.want)
    BY <1>2, <1>4 DEF Brings
  <2>2. Cardinality(Bringing(m, c)) \in Nat /\ unsent[m][c] = Cardinality(Bringing(m, c)) + Hands(m, c)
    BY <1>1, BringingFinite DEF FedInv, Accounted
  <2>3. Hands(m, c)' = Hands(m, c) /\ Hands(m, c) \in Nat
    BY <1>3 DEF Hands
  <2>4. unsent'[m][c] = unsent[m][c] - (IF m = n /\ c \in s.want THEN 1 ELSE 0)
    BY <1>6
  <2>5. Cardinality(Bringing(m, c)') = Cardinality(Bringing(m, c)) - (IF m = n /\ c \in s.want THEN 1 ELSE 0)
    BY <1>7, <2>1, <2>2
  <2> QED BY <2>2, <2>3, <2>4, <2>5
<1> QED BY <1>8, <1>9 DEF FedInv, Accounted

\* A link opened for a peer: its session brings nothing yet, and its id is free.
LEMMA TickAccounts ==
  ASSUME FedInv, NEW n \in Nodes, NEW p \in Nodes, TickPeer(n, p)
  PROVE  FedInv'
<1>1. FedSorts
  BY DEF FedInv
<1>2. UNCHANGED <<store, made, unsent, sending>>
  BY DEF TickPeer, publishing
<1>3. PICK id \in FreeIds(n) : sessions' = sessions \cup {Opened(n, p, id)}
  BY DEF TickPeer
<1> DEFINE t == Opened(n, p, id)
<1>4. t \in Session /\ t.node = n /\ t.id = id /\ t.step = "linking"
  BY <1>3 DEF FreeIds, Opened, Session
<1>5. \A r \in sessions : r.node = n => r.id # id
  BY <1>3 DEF FreeIds
<1>6. sessions' = sessions \cup {t}
  BY <1>3
<1> HIDE DEF t
<1>7. IsFiniteSet(sessions') /\ sessions' \subseteq Session
  BY <1>1, <1>4, <1>6, FS_AddElement DEF FedSorts
<1>8. \A r, q \in sessions' : r.node = q.node /\ r.id = q.id => r = q
  BY <1>1, <1>4, <1>5, <1>6 DEF FedSorts
<1>9. FedSorts'
  BY <1>1, <1>2, <1>7, <1>8 DEF FedSorts, Session
<1>10. ASSUME NEW m \in Nodes, NEW c \in Blobs
       PROVE  unsent'[m][c] = Cardinality(Bringing(m, c)') + Hands(m, c)'
  <2>1. Bringing(m, c)' = Bringing(m, c)
    BY <1>4, <1>6 DEF Bringing, Brings
  <2> QED BY <1>2, <2>1 DEF FedInv, Accounted, Hands
<1> QED BY <1>9, <1>10 DEF FedInv, Accounted

\* A restart forgets sessions, publishes under way and the account together.
LEMMA RestartAccounts ==
  ASSUME FedInv, NEW n \in Nodes, FedRestart(n)
  PROVE  FedInv'
<1>1. FedSorts
  BY DEF FedInv
<1>2. /\ store' = store /\ made' = made /\ sessions' = {s \in sessions : s.node # n}
      /\ sending' = [sending EXCEPT ![n] = {}] /\ unsent' = [unsent EXCEPT ![n] = [b \in Blobs |-> 0]]
  BY DEF FedRestart
<1>3. IsFiniteSet(sessions') /\ sessions' \subseteq sessions
  BY <1>1, <1>2, FS_Subset DEF FedSorts
<1>4. unsent' \in [Nodes -> [Blobs -> Int]] /\ sending' \in [Nodes -> SUBSET made']
  BY <1>1, <1>2 DEF FedSorts
<1>5. FedSorts'
  BY <1>1, <1>2, <1>3, <1>4 DEF FedSorts, Session
<1>6. ASSUME NEW m \in Nodes, NEW c \in Blobs
      PROVE  unsent'[m][c] = Cardinality(Bringing(m, c)') + Hands(m, c)'
  <2>1. CASE m = n
    <3>1. Bringing(m, c)' = {}
      BY <1>2, <2>1 DEF Bringing, Brings
    <3>2. Cardinality(Bringing(m, c)') = 0
      BY <3>1, FS_EmptySet
    <3> QED BY <1>1, <1>2, <2>1, <3>2 DEF Hands, FedSorts
  <2>2. CASE m # n
    <3>1. Bringing(m, c)' = Bringing(m, c)
      BY <1>2, <2>2 DEF Bringing, Brings
    <3>2. unsent'[m][c] = unsent[m][c] /\ Hands(m, c)' = Hands(m, c)
      BY <1>1, <1>2, <2>2 DEF Hands, FedSorts
    <3> QED BY <3>1, <3>2 DEF FedInv, Accounted
  <2> QED BY <2>1, <2>2
<1> QED BY <1>5, <1>6 DEF FedInv, Accounted

LEMMA InitFed == FedInit => FedInv
<1> SUFFICES ASSUME FedInit PROVE FedInv
  OBVIOUS
<1>1. IsFiniteSet(sessions) /\ sessions = {} /\ Cardinality({}) = 0
  BY FS_EmptySet DEF FedInit
<1>2. /\ store = [n \in Nodes |-> <<>>] /\ made = {} /\ sending = [n \in Nodes |-> {}]
      /\ unsent = [n \in Nodes |-> [b \in Blobs |-> 0]]
  BY DEF FedInit
<1>3. store \in [Nodes -> Seq(made)]
  <2>1. <<>> \in Seq(made)
    OBVIOUS
  <2> QED BY <1>2, <2>1
<1>4. FedSorts
  BY <1>1, <1>2, <1>3 DEF FedSorts
<1>5. ASSUME NEW n \in Nodes, NEW b \in Blobs PROVE unsent[n][b] = Cardinality(Bringing(n, b)) + Hands(n, b)
  <2>1. Bringing(n, b) = {}
    BY <1>1 DEF Bringing
  <2> QED BY <1>1, <1>2, <2>1 DEF Hands
<1> QED BY <1>4, <1>5 DEF FedInv, Accounted

LEMMA FedStays ==
  ASSUME FedInv, UNCHANGED <<store, made, unsent, sending, sessions>>
  PROVE  FedInv'
BY DEF FedInv, FedSorts, Accounted, Bringing, Brings, Hands, Session

LEMMA FedInvKept == FedInv /\ [FedNext]_fed_vars => FedInv'
<1> SUFFICES ASSUME FedInv, [FedNext]_fed_vars PROVE FedInv'
  OBVIOUS
<1>1. ASSUME NEW n \in Nodes, NEW b \in Blobs, Publish(n, b) \/ PublishedGoesOut(n, b)
      PROVE  FedInv'
  BY <1>1, PublishAccounts, PublishedAccounts
<1>2. ASSUME NEW n \in Nodes, NEW p \in Nodes,
             Heard(n, p) \/ ForgetPeer(n, p) \/ DueAgain(n, p) \/ Unready(n, p)
      PROVE  FedInv'
  <2>1. UNCHANGED <<store, made, unsent, sending, sessions>>
    BY <1>2 DEF Heard, ForgetPeer, DueAgain, Unready, publishing
  <2> QED BY <2>1, FedStays
<1>3. ASSUME NEW n \in Nodes, NEW p \in Nodes, TickPeer(n, p) PROVE FedInv'
  BY <1>3, TickAccounts
<1>4. ASSUME NEW s \in sessions,
             \/ LinkUp(s) \/ OfferNotSent(s) \/ OfferAnswered(s) \/ GetNotSent(s)
             \/ RequestFailed(s) \/ LinkDies(s) \/ ClosedCallback(s)
      PROVE  FedInv'
  BY <1>4, QuietSteps
<1>5. ASSUME NEW s \in sessions, GetAnswered(s) PROVE FedInv'
  BY <1>5, AnswerAccounts
<1>6. ASSUME NEW s \in sessions, FanOut(s) PROVE FedInv'
  BY <1>6, FanOutAccounts
<1>7. ASSUME NEW n \in Nodes, FedRestart(n) PROVE FedInv'
  BY <1>7, RestartAccounts
<1>8. CASE UNCHANGED fed_vars
  BY <1>8, FedStays DEF fed_vars
<1> QED BY <1>1, <1>2, <1>3, <1>4, <1>5, <1>6, <1>7, <1>8 DEF FedNext

\* "ingest_message_get_response" returns what it newly stored and get_response
\* dispatches each of them after the sync lock (sync.rs:543-577,
\* destinations.rs:1789): for every set of nodes, peers, limits and links, and
\* with publishes, further sessions, lost links and restarts between the two,
\* each stay of a blob in a store goes out once, and none is forgotten but by
\* a restart.
THEOREM EachStayGoesOutOnce ==
  FedSpec => []OncePerStay
<1>1. FedInit => FedInv
  BY InitFed
<1>2. FedInv /\ [FedNext]_fed_vars => FedInv'
  BY FedInvKept
<1>3. FedInv => OncePerStay
  <2> SUFFICES ASSUME FedInv, NEW n \in Nodes, NEW b \in Blobs
               PROVE  unsent[n][b]
                      = Cardinality({s \in sessions : s.node = n /\ s.step = "fan-out" /\ b \in s.want})
                        + IF b \in sending[n] THEN 1 ELSE 0
    BY DEF OncePerStay
  <2>1. Bringing(n, b) = {s \in sessions : s.node = n /\ s.step = "fan-out" /\ b \in s.want}
    BY DEF Bringing, Brings
  <2> QED BY <2>1 DEF FedInv, Accounted, Hands
<1> QED BY <1>1, <1>2, <1>3, PTL DEF FedSpec

-----------------------------------------------------------------------------
(***************************************************************************)
(* FedSync: types, each blob at most once in a store, both limits.         *)
(***************************************************************************)

NoRepeats(s) == \A i, j \in 1 .. Len(s) : s[i] = s[j] => i = j

Fits(s, capacity) == NoRepeats(s) /\ Len(s) <= capacity

FedLimits ==
  /\ FedInv
  /\ known \in [Nodes -> SUBSET Nodes] /\ due \in [Nodes -> SUBSET Nodes]
  /\ sync_links \in [Nodes -> [Nodes -> 0 .. MaxLinks]]
  /\ sent \in [Nodes -> 0 .. SyncLimit]
  /\ \A n \in Nodes : Fits(store[n], Capacity[n])

LEMMA TailHasNoRepeats ==
  ASSUME NEW S, NEW s \in Seq(S), NoRepeats(s), NEW m \in Nat, m >= 1
  PROVE  /\ SubSeq(s, m, Len(s)) \in Seq(S) /\ NoRepeats(SubSeq(s, m, Len(s)))
         /\ Len(SubSeq(s, m, Len(s))) = IF m <= Len(s) THEN Len(s) - m + 1 ELSE 0
         /\ \A i \in 1 .. Len(SubSeq(s, m, Len(s))) :
              \E j \in 1 .. Len(s) : SubSeq(s, m, Len(s))[i] = s[j]
<1> DEFINE t == SubSeq(s, m, Len(s))
<1>1. m \in Int /\ Len(s) \in Int
  OBVIOUS
<1>2. \A i \in m .. Len(s) : s[i] \in S
  <2> SUFFICES ASSUME NEW i \in m .. Len(s) PROVE s[i] \in S
    OBVIOUS
  <2>1. i \in 1 .. Len(s)
    BY <1>1
  <2> QED BY <2>1
<1>3. /\ t \in Seq(S) /\ Len(t) = IF m <= Len(s) THEN Len(s) - m + 1 ELSE 0
      /\ \A i \in 1 .. Len(s) - m + 1 : t[i] = s[m + i - 1]
  BY <1>1, <1>2, SubSeqProperties
<1> HIDE DEF t
<1>4. ASSUME NEW i \in 1 .. Len(t)
      PROVE  m + i - 1 \in 1 .. Len(s) /\ t[i] = s[m + i - 1]
  BY <1>1, <1>3
<1>5. NoRepeats(t)
  <2> SUFFICES ASSUME NEW i \in 1 .. Len(t), NEW j \in 1 .. Len(t), t[i] = t[j] PROVE i = j
    BY DEF NoRepeats
  <2>1. m + i - 1 = m + j - 1
    BY <1>4 DEF NoRepeats
  <2>2. Len(t) \in Nat
    BY <1>3
  <2> QED BY <2>1, <2>2
<1> QED BY <1>3, <1>4, <1>5 DEF t

LEMMA EvictedFits ==
  ASSUME NEW S, NEW s \in Seq(S), NoRepeats(s), NEW capacity \in Nat \ {0}
  PROVE  Fits(evict_to_fit(s, capacity), capacity)
<1> DEFINE m == IF Len(s) > capacity THEN Len(s) - capacity + 1 ELSE 1
           t == SubSeq(s, m, Len(s))
<1>1. Len(s) \in Nat /\ m \in Nat /\ m >= 1
  OBVIOUS
<1>2. Len(t) = IF m <= Len(s) THEN Len(s) - m + 1 ELSE 0
  <2> HIDE DEF m
  <2> QED BY <1>1, TailHasNoRepeats
<1>3. NoRepeats(t)
  <2> HIDE DEF m
  <2> QED BY <1>1, TailHasNoRepeats
<1> HIDE DEF t
<1>4. Len(t) <= capacity
  BY <1>1, <1>2
<1> QED BY <1>3, <1>4 DEF Fits, evict_to_fit, t

LEMMA StoreFits ==
  ASSUME NEW S, NEW s \in Seq(S), NEW capacity \in Nat \ {0}, Fits(s, capacity),
         NEW expired \in 0 .. Len(s), NEW blobs \in SUBSET S, IsFiniteSet(blobs),
         \A i \in 1 .. Len(s) : s[i] \notin blobs, NEW order \in SetToSeqs(blobs)
  PROVE  Fits(store_with_id(s, capacity, expired, order), capacity)
<1> DEFINE kept == SubSeq(s, expired + 1, Len(s))
           all == kept \o order
<1>1. expired + 1 \in Nat /\ expired + 1 >= 1 /\ NoRepeats(s)
  BY DEF Fits
<1>2. kept \in Seq(S) /\ NoRepeats(kept)
  BY <1>1, TailHasNoRepeats
<1>3. \A i \in 1 .. Len(kept) : kept[i] \notin blobs
  <2>1. \A i \in 1 .. Len(kept) : \E j \in 1 .. Len(s) : kept[i] = s[j]
    BY <1>1, TailHasNoRepeats
  <2> HIDE DEF kept
  <2> QED BY <2>1
<1> HIDE DEF kept
<1>4. order \in Seq(S) /\ NoRepeats(order) /\ \A i \in 1 .. Len(order) : order[i] \in blobs
  <2>1. Cardinality(blobs) \in Nat
    BY FS_CardinalityType
  <2>2. /\ order \in [1 .. Cardinality(blobs) -> blobs]
        /\ \A i, j \in 1 .. Cardinality(blobs) : i # j => order[i] # order[j]
    BY DEF SetToSeqs
  <2>3. order \in Seq(S) /\ Len(order) = Cardinality(blobs)
    BY <2>1, <2>2
  <2> QED BY <2>2, <2>3 DEF NoRepeats
<1>5. /\ all \in Seq(S) /\ Len(all) = Len(kept) + Len(order)
      /\ \A i \in 1 .. Len(kept) + Len(order) :
           all[i] = IF i <= Len(kept) THEN kept[i] ELSE order[i - Len(kept)]
  BY <1>2, <1>4, ConcatProperties
<1> HIDE DEF all
<1>6. NoRepeats(all)
  <2> SUFFICES ASSUME NEW i \in 1 .. Len(all), NEW j \in 1 .. Len(all), all[i] = all[j] PROVE i = j
    BY DEF NoRepeats
  <2>1. Len(kept) \in Nat /\ Len(order) \in Nat /\ Len(all) = Len(kept) + Len(order)
    BY <1>2, <1>4, <1>5
  <2>2. CASE i <= Len(kept) /\ j <= Len(kept)
    <3>1. i \in 1 .. Len(kept) /\ j \in 1 .. Len(kept) /\ kept[i] = kept[j]
      BY <1>5, <2>1, <2>2
    <3> QED BY <1>2, <3>1 DEF NoRepeats
  <2>3. CASE ~(i <= Len(kept)) /\ ~(j <= Len(kept))
    <3>1. /\ i - Len(kept) \in 1 .. Len(order) /\ j - Len(kept) \in 1 .. Len(order)
          /\ order[i - Len(kept)] = order[j - Len(kept)]
      BY <1>5, <2>1, <2>3
    <3>2. i - Len(kept) = j - Len(kept)
      BY <1>4, <3>1 DEF NoRepeats
    <3> QED BY <2>1, <3>2
  <2>4. CASE i <= Len(kept) /\ ~(j <= Len(kept))
    <3>1. i \in 1 .. Len(kept) /\ j - Len(kept) \in 1 .. Len(order) /\ kept[i] = order[j - Len(kept)]
      BY <1>5, <2>1, <2>4
    <3> QED BY <1>3, <1>4, <3>1
  <2>5. CASE ~(i <= Len(kept)) /\ j <= Len(kept)
    <3>1. j \in 1 .. Len(kept) /\ i - Len(kept) \in 1 .. Len(order) /\ kept[j] = order[i - Len(kept)]
      BY <1>5, <2>1, <2>5
    <3> QED BY <1>3, <1>4, <3>1
  <2> QED BY <2>2, <2>3, <2>4, <2>5
<1>7. Fits(evict_to_fit(all, capacity), capacity)
  BY <1>5, <1>6, EvictedFits
<1> QED BY <1>7 DEF store_with_id, all, kept

\* Storing leaves every store within its limit.
LEMMA StoredFits ==
  ASSUME FedSorts, NEW n \in Nodes, NEW blobs \in SUBSET Blobs, IsFiniteSet(blobs), Stored(n, blobs),
         \A m \in Nodes : Fits(store[m], Capacity[m])
  PROVE  \A m \in Nodes : Fits(store'[m], Capacity[m])
<1> DEFINE new == blobs \ Held(n)
<1>1. new \in SUBSET Blobs /\ IsFiniteSet(new)
  BY FS_Subset
<1>2. store[n] \in Seq(Blobs) /\ store \in [Nodes -> Seq(made)]
  <2>1. store[n] \in Seq(made) /\ made \subseteq Blobs
    BY DEF FedSorts
  <2>2. store[n] \in [1 .. Len(store[n]) -> Blobs] /\ Len(store[n]) \in Nat
    BY <2>1
  <2> QED BY <2>2 DEF FedSorts
<1>3. \A i \in 1 .. Len(store[n]) : store[n][i] \notin new
  BY <1>2 DEF Held, ToSet
<1>4. PICK expired \in 0 .. Len(store[n]), order \in SetToSeqs(new) :
        store' = [store EXCEPT ![n] = store_with_id(@, Capacity[n], expired, order)]
  BY DEF Stored
<1> HIDE DEF new
<1>5. Capacity[n] \in Nat \ {0}
  BY FedAssumption
<1>6. Fits(store_with_id(store[n], Capacity[n], expired, order), Capacity[n])
  BY <1>1, <1>2, <1>3, <1>5, StoreFits
<1> DEFINE stored == store_with_id(store[n], Capacity[n], expired, order)
<1>7. store' = [store EXCEPT ![n] = stored] /\ Fits(stored, Capacity[n])
  BY <1>4, <1>6
<1> HIDE DEF stored
<1> QED BY <1>2, <1>7

\* An answer is cut to what the hour has left.
LEMMA AnswerWithinHour ==
  ASSUME FedLimits, NEW p \in Nodes, NEW want, NEW before \in {0, sent[p]},
         NEW answer \in Answers(p, want, before)
  PROVE  /\ before + Cardinality(answer) \in 0 .. SyncLimit
         /\ IsFiniteSet(answer) /\ answer \subseteq Held(p)
<1> DEFINE there == Held(p) \cap want
           limit == IF TransferLimit < SyncLimit - before THEN TransferLimit ELSE SyncLimit - before
<1>1. before \in 0 .. SyncLimit /\ SyncLimit \in Nat /\ TransferLimit \in Nat
  BY FedAssumption DEF FedLimits
<1>2. IsFiniteSet(there) /\ Cardinality(there) \in Nat
  BY HeldIsFinite, FS_Subset, FS_CardinalityType DEF FedLimits, FedInv
<1>3. /\ answer \subseteq there
      /\ Cardinality(answer) = IF Cardinality(there) < limit THEN Cardinality(there) ELSE limit
  BY DEF Answers
<1>4. limit \in Nat /\ limit <= SyncLimit - before
  BY <1>1
<1>5. IsFiniteSet(answer) /\ answer \subseteq Held(p)
  BY <1>2, <1>3, FS_Subset
<1> HIDE DEF there, limit
<1>6. Cardinality(answer) \in Nat
  BY <1>5, FS_CardinalityType
<1>7. Cardinality(answer) <= SyncLimit - before
  <2> DEFINE size == Cardinality(there)
             sends == Cardinality(answer)
             left == SyncLimit - before
  <2>1. sends = (IF size < limit THEN size ELSE limit) /\ size \in Nat /\ limit \in Nat /\ limit <= left
    BY <1>2, <1>3, <1>4
  <2>2. left \in Int
    BY <1>1
  <2> HIDE DEF size, sends, left
  <2>3. sends <= left
    BY <2>1, <2>2
  <2> QED BY <2>3 DEF sends, left
<1> QED BY <1>1, <1>5, <1>6, <1>7

LEMMA InitLimits == FedInit => FedLimits
<1> SUFFICES ASSUME FedInit PROVE FedLimits
  OBVIOUS
<1>1. FedInv
  BY InitFed
<1>2. known \in [Nodes -> SUBSET Nodes] /\ due \in [Nodes -> SUBSET Nodes]
  BY FedAssumption DEF FedInit
<1>3. 0 \in 0 .. MaxLinks /\ 0 \in 0 .. SyncLimit
  BY FedAssumption
<1>4. sync_links \in [Nodes -> [Nodes -> 0 .. MaxLinks]] /\ sent \in [Nodes -> 0 .. SyncLimit]
  BY <1>3 DEF FedInit
<1>5. ASSUME NEW n \in Nodes PROVE Fits(store[n], Capacity[n])
  <2>1. store[n] = <<>> /\ Capacity[n] \in Nat
    BY FedAssumption DEF FedInit
  <2> QED BY <2>1 DEF Fits, NoRepeats
<1> QED BY <1>1, <1>2, <1>4, <1>5 DEF FedLimits

LEMMA LimitsKept == FedLimits /\ [FedNext]_fed_vars => FedLimits'
<1> SUFFICES ASSUME FedLimits, [FedNext]_fed_vars PROVE FedLimits'
  OBVIOUS
<1>1. FedInv'
  BY FedInvKept DEF FedLimits
<1>2. Static \in [Nodes -> SUBSET Nodes] /\ Announced \in [Nodes -> SUBSET Nodes]
  BY FedAssumption
<1>3. ASSUME NEW n \in Nodes, NEW b \in Blobs, Publish(n, b) \/ PublishedGoesOut(n, b) PROVE FedLimits'
  <2>1. UNCHANGED <<known, due, sync_links, sent>>
    BY <1>3 DEF Publish, PublishedGoesOut, peers
  <2>2. CASE Publish(n, b)
    <3>1. IsFiniteSet({b}) /\ {b} \in SUBSET Blobs
      BY FS_Singleton
    <3>2. Stored(n, {b})
      BY <2>2 DEF Publish
    <3>3. \A m \in Nodes : Fits(store'[m], Capacity[m])
      BY <3>1, <3>2, StoredFits DEF FedLimits, FedInv
    <3> QED BY <1>1, <2>1, <3>3 DEF FedLimits
  <2>3. CASE PublishedGoesOut(n, b)
    BY <1>1, <2>1, <2>3 DEF FedLimits, PublishedGoesOut
  <2> QED BY <1>3, <2>2, <2>3
<1>4. ASSUME NEW n \in Nodes, NEW p \in Nodes,
             Heard(n, p) \/ ForgetPeer(n, p) \/ DueAgain(n, p) \/ Unready(n, p)
      PROVE  FedLimits'
  <2>1. UNCHANGED <<store, sync_links, sent>>
    BY <1>4 DEF Heard, ForgetPeer, DueAgain, Unready
  <2>2. known' \in [Nodes -> SUBSET Nodes] /\ due' \in [Nodes -> SUBSET Nodes]
    BY <1>4 DEF FedLimits, Heard, ForgetPeer, DueAgain, Unready, Later
  <2> QED BY <1>1, <2>1, <2>2 DEF FedLimits
<1>5. ASSUME NEW n \in Nodes, NEW p \in Nodes, TickPeer(n, p) PROVE FedLimits'
  <2>1. UNCHANGED <<store, known, due, sent>>
    BY <1>5 DEF TickPeer, peers
  <2>2. PICK id \in 1 .. MaxLinks : sync_links' = [sync_links EXCEPT ![n][p] = id]
    BY <1>5 DEF TickPeer, FreeIds
  <2>3. id \in 0 .. MaxLinks
    BY FedAssumption
  <2>4. sync_links' \in [Nodes -> [Nodes -> 0 .. MaxLinks]]
    BY <2>2, <2>3 DEF FedLimits
  <2> QED BY <1>1, <2>1, <2>4 DEF FedLimits
<1>6. ASSUME NEW s \in sessions,
             \/ LinkUp(s) \/ OfferNotSent(s) \/ OfferAnswered(s) \/ GetNotSent(s) \/ GetAnswered(s)
             \/ FanOut(s) \/ RequestFailed(s) \/ LinkDies(s) \/ ClosedCallback(s)
      PROVE  FedLimits'
  <2>1. s.node \in Nodes /\ s.peer \in Nodes
    BY DEF FedLimits, FedInv, FedSorts, Session
  <2>2. known' = known
    BY <1>6 DEF LinkUp, OfferNotSent, OfferAnswered, GetNotSent, GetAnswered, FanOut, RequestFailed, LinkDies,
       ClosedCallback, peers
  <2>3. due' = due \/ due' = [due EXCEPT ![s.node] = @ \ {s.peer}]
    BY <1>6 DEF LinkUp, OfferNotSent, OfferAnswered, GetNotSent, GetAnswered, FanOut, RequestFailed, LinkDies,
       ClosedCallback, peers, teardown_sync, Later
  <2>4. due' \in [Nodes -> SUBSET Nodes]
    BY <2>1, <2>3 DEF FedLimits
  <2>5. sync_links' = sync_links \/ sync_links' = [sync_links EXCEPT ![s.node][s.peer] = 0]
    BY <1>6 DEF LinkUp, OfferNotSent, OfferAnswered, GetNotSent, GetAnswered, FanOut, RequestFailed, LinkDies,
       ClosedCallback
  <2>6. 0 \in 0 .. MaxLinks
    BY FedAssumption
  <2>7. sync_links' \in [Nodes -> [Nodes -> 0 .. MaxLinks]]
    BY <2>1, <2>5, <2>6 DEF FedLimits
  <2>8. \/ sent' = sent
        \/ \E before \in {0, sent[s.peer]} : \E answer \in Answers(s.peer, s.want, before) :
             sent' = [sent EXCEPT ![s.peer] = before + Cardinality(answer)]
    BY <1>6 DEF LinkUp, OfferNotSent, OfferAnswered, GetNotSent, GetAnswered, FanOut, RequestFailed, LinkDies,
       ClosedCallback
  <2>9. sent' \in [Nodes -> 0 .. SyncLimit]
    <3>1. CASE sent' = sent
      BY <3>1 DEF FedLimits
    <3>2. ASSUME NEW before \in {0, sent[s.peer]}, NEW answer \in Answers(s.peer, s.want, before),
                 sent' = [sent EXCEPT ![s.peer] = before + Cardinality(answer)]
          PROVE  sent' \in [Nodes -> 0 .. SyncLimit]
      <4>1. before + Cardinality(answer) \in 0 .. SyncLimit
        BY <2>1, AnswerWithinHour
      <4> QED BY <3>2, <4>1 DEF FedLimits
    <3> QED BY <2>8, <3>1, <3>2
  <2>10. ASSUME NEW m \in Nodes PROVE Fits(store'[m], Capacity[m])
    <3>1. CASE GetAnswered(s)
      <4>1. PICK before \in {0, sent[s.peer]} : \E answer \in Answers(s.peer, s.want, before) :
              Stored(s.node, Ingested(s.node, answer))
        BY <3>1 DEF GetAnswered
      <4>2. PICK answer \in Answers(s.peer, s.want, before) : Stored(s.node, Ingested(s.node, answer))
        BY <4>1
      <4>3. IsFiniteSet(answer) /\ answer \subseteq Held(s.peer)
        BY <2>1, AnswerWithinHour
      <4>4. Held(s.peer) \subseteq Blobs
        BY <2>1, HeldBlobs DEF FedLimits, FedInv
      <4>5. IsFiniteSet(Ingested(s.node, answer)) /\ Ingested(s.node, answer) \in SUBSET Blobs
        BY <4>3, <4>4, FS_Subset DEF Ingested
      <4> QED BY <2>1, <4>2, <4>5, StoredFits DEF FedLimits, FedInv
    <3>2. CASE ~GetAnswered(s)
      <4>1. store' = store
        BY <1>6, <3>2 DEF LinkUp, OfferNotSent, OfferAnswered, GetNotSent, FanOut, RequestFailed, LinkDies,
           ClosedCallback
      <4> QED BY <4>1 DEF FedLimits
    <3> QED BY <3>1, <3>2
  <2> QED BY <1>1, <2>2, <2>4, <2>7, <2>9, <2>10 DEF FedLimits
<1>7. ASSUME NEW n \in Nodes, FedRestart(n) PROVE FedLimits'
  <2>1. store' = store /\ 0 \in 0 .. MaxLinks /\ 0 \in 0 .. SyncLimit
    BY <1>7, FedAssumption DEF FedRestart
  <2>2. sync_links' \in [Nodes -> [Nodes -> 0 .. MaxLinks]] /\ sent' \in [Nodes -> 0 .. SyncLimit]
    <3>1. [p \in Nodes |-> 0] \in [Nodes -> 0 .. MaxLinks]
      BY <2>1
    <3> QED BY <1>7, <2>1, <3>1 DEF FedLimits, FedRestart
  <2>3. PICK saved \in SUBSET known[n] :
          /\ known' = [known EXCEPT ![n] = saved \cup Static[n]]
          /\ \E later \in SUBSET (saved \ Static[n]) :
               due' = [due EXCEPT ![n] = (saved \cup Static[n]) \ later]
    BY <1>7 DEF FedRestart
  <2>4. saved \cup Static[n] \in SUBSET Nodes
    BY <1>2, <2>3 DEF FedLimits
  <2>5. known' \in [Nodes -> SUBSET Nodes] /\ due' \in [Nodes -> SUBSET Nodes]
    BY <2>3, <2>4 DEF FedLimits
  <2> QED BY <1>1, <2>1, <2>2, <2>5 DEF FedLimits
<1>8. CASE UNCHANGED fed_vars
  BY <1>1, <1>8 DEF FedLimits, fed_vars
<1> QED BY <1>3, <1>4, <1>5, <1>6, <1>7, <1>8 DEF FedNext

\* A sequence without repeats is as long as the set of its elements.
LEMMA NoRepeatsCounts ==
  ASSUME NEW S, NEW s \in Seq(S), NoRepeats(s)
  PROVE  Cardinality(ToSet(s)) = Len(s)
<1> DEFINE T == ToSet(s)
<1>1. Len(s) \in Nat /\ T = {s[i] : i \in 1 .. Len(s)}
  BY DEF ToSet
<1>2. s \in [1 .. Len(s) -> T]
  BY <1>1
<1>3. s \in Surjection(1 .. Len(s), T) /\ s \in Injection(1 .. Len(s), T)
  <2>1. \A t \in T : \E i \in 1 .. Len(s) : s[i] = t
    BY <1>1
  <2>2. \A i, j \in 1 .. Len(s) : s[i] = s[j] => i = j
    BY DEF NoRepeats
  <2>3. ASSUME NEW D, NEW f \in [D -> T], \A t \in T : \E i \in D : f[i] = t,
               \A i, j \in D : f[i] = f[j] => i = j
        PROVE  f \in Surjection(D, T) /\ f \in Injection(D, T)
    <3> HIDE DEF T
    <3> QED BY <2>3 DEF Surjection, Injection, IsInjective
  <2> HIDE DEF T
  <2> QED BY <1>2, <2>1, <2>2, <2>3
<1>4. IsFiniteSet(1 .. Len(s)) /\ Cardinality(1 .. Len(s)) = Len(s)
  BY <1>1, FS_Interval
<1> HIDE DEF T
<1>5. Cardinality(T) = Cardinality(1 .. Len(s))
  BY <1>3, <1>4, FS_Surjection
<1> QED BY <1>4, <1>5 DEF T

\* Types for any nodes, peers and links; and however publishes, the answers of
\* overlapping sessions, lost requests and restarts follow one another, an index
\* lists a blob once and stays within storage_limit_bytes (BlobStore::evict_to_fit,
\* store_with_id), and a node sends at most sync_limit_bytes in an hour
\* (handle_message_get, sync.rs).
THEOREM FedTypeCorrect == FedSpec => []FedTypeOK
<1>1. FedLimits => FedTypeOK
  <2> SUFFICES ASSUME FedLimits PROVE FedTypeOK
    OBVIOUS
  <2>1. ASSUME NEW n \in Nodes
        PROVE  /\ store[n] \in Seq(Blobs) /\ Len(store[n]) <= Capacity[n]
               /\ Cardinality(Held(n)) = Len(store[n]) /\ sent[n] \in 0 .. SyncLimit
    <3>1. store[n] \in Seq(made) /\ made \subseteq Blobs
      BY DEF FedLimits, FedInv, FedSorts
    <3>2. store[n] \in [1 .. Len(store[n]) -> Blobs] /\ Len(store[n]) \in Nat
      BY <3>1
    <3>3. store[n] \in Seq(Blobs)
      BY <3>2
    <3>4. Fits(store[n], Capacity[n])
      BY DEF FedLimits
    <3>5. Cardinality(Held(n)) = Len(store[n])
      BY <3>3, <3>4, NoRepeatsCounts DEF Fits, Held
    <3> QED BY <3>3, <3>4, <3>5 DEF FedLimits, Fits
  <2>2. sending \in [Nodes -> SUBSET Blobs]
    BY DEF FedLimits, FedInv, FedSorts
  <2> QED BY <2>1, <2>2 DEF FedLimits, FedInv, FedSorts, FedTypeOK
<1> QED BY InitLimits, LimitsKept, <1>1, PTL DEF FedSpec

=============================================================================
