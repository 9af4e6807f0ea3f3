--------------------------- MODULE PeerSync_proofs ---------------------------
(***************************************************************************)
(* For any messages, links and order of events: a session's types, and     *)
(* that whatever it waits for is on its way.  As long as the peer is added *)
(* once: callbacks of ended sessions are told by their number, and what is *)
(* marked handled is settled.  For any links, senders and configurations:  *)
(* what an inbound link left behind goes with it (InboundSync).            *)
(***************************************************************************)
EXTENDS PeerSync, InboundSync, SequenceTheorems, FiniteSetTheorems, TLAPS

Events == {inbox[i] : i \in 1..Len(inbox)}

Sorts ==
  /\ peerings \in Nat /\ session \in Nat
  /\ last_offer \subseteq Messages /\ stored \subseteq Messages /\ unhandled \subseteq Messages
  /\ inbox \in Seq(SyncEvent)
  /\ job.session \in Nat /\ job.ids \subseteq Messages
  /\ requests \subseteq SentOffer /\ resources \subseteq SentOffer
  /\ links \in Nat /\ attempts \subseteq Nat

\* Before the peer is added nothing bears a number; once removed it stays so.
AddedOnce ==
  /\ peered => peerings = 1
  /\ peerings = 0 =>
       /\ requests = {} /\ resources = {}
       /\ \A e \in Events : e.kind \notin {"response", "concluded"}
       /\ job.step \in {"idle", "prepare"}
       /\ job.session = 0

Sending == job.step \in {"send resource", "start resource"} /\ job.session = session

\* No callback, waiting or on its way, bears a number above the record's.
NumbersBelow ==
  /\ \A r \in requests \cup resources : r.session <= session
  /\ \A e \in Events : e.kind \in {"response", "concluded"} => e.session <= session
  /\ job.session <= session

\* What an answer or an outcome under the record's number tells.
AnswersTell ==
  \A e \in Events :
    /\ e.kind = "response" /\ e.answer = "wants" /\ state = "REQUEST_SENT" /\ session = e.session
         => last_offer \ e.wants \subseteq peer_has
    /\ e.kind = "concluded" /\ e.complete /\ state = "RESOURCE_TRANSFERRING" /\ session = e.session
         => transferring \subseteq peer_has

\* Under one number one Resource is sent, after the answer.
OneResource ==
  /\ Sending => state = "RESOURCE_TRANSFERRING" /\ (job.step = "start resource" => job.ids = transferring)
  /\ state = "REQUEST_SENT" \/ (Sending /\ job.step = "send resource") =>
       /\ \A r \in resources : r.session # session
       /\ \A e \in Events : e.kind = "concluded" => e.session # session

NumbersNamed ==
  /\ \A r \in requests : state = "REQUEST_SENT" /\ session = r.session => r.ids = last_offer
  /\ \A r \in resources : state = "RESOURCE_TRANSFERRING" /\ session = r.session => r.ids = transferring

Numbers == NumbersBelow /\ NumbersNamed /\ AnswersTell /\ OneResource

SyncInv == Sorts /\ AddedOnce /\ (peered => Numbers) /\ HandledIsSettled

LEMMA InitSync == Init => SyncInv
BY EmptySeq DEF Init, SyncInv, Sorts, AddedOnce, Events, HandledIsSettled

-----------------------------------------------------------------------------
(***************************************************************************)
(* The worker's channel.                                                   *)
(***************************************************************************)

LEMMA TakenEvent ==
  ASSUME Sorts, NEW kind, Takes(kind)
  PROVE  /\ Head(inbox) \in Events /\ Head(inbox) \in SyncEvent /\ Head(inbox).kind = kind
         /\ inbox' \in Seq(SyncEvent) /\ Events' \subseteq Events
         /\ job.step = "idle"
<1>1. /\ inbox \in Seq(SyncEvent) /\ inbox # <<>> /\ inbox' = Tail(inbox)
      /\ Head(inbox).kind = kind /\ job.step = "idle"
  BY DEF Sorts, Takes
<1>2. /\ Head(inbox) \in SyncEvent /\ Tail(inbox) \in Seq(SyncEvent)
      /\ Len(Tail(inbox)) = Len(inbox) - 1
      /\ \A i \in 1..Len(Tail(inbox)) : Tail(inbox)[i] = inbox[i + 1]
  BY <1>1, HeadTailProperties
<1>3. Len(inbox) \in Nat \ {0} /\ Head(inbox) = inbox[1]
  BY <1>1, EmptySeq, LenProperties
<1>4. \A i \in 1..Len(inbox') : i + 1 \in 1..Len(inbox) /\ inbox'[i] = inbox[i + 1]
  BY <1>1, <1>2, <1>3
<1>5. Head(inbox) \in Events
  BY <1>3 DEF Events
<1> QED BY <1>1, <1>2, <1>4, <1>5 DEF Events

LEMMA ReportedEvent ==
  ASSUME Sorts, NEW e \in SyncEvent, inbox' = Append(inbox, e)
  PROVE  inbox' \in Seq(SyncEvent) /\ Events' = Events \cup {e}
<1>1. /\ inbox' \in Seq(SyncEvent) /\ Len(inbox') = Len(inbox) + 1
      /\ \A i \in 1..Len(inbox) : inbox'[i] = inbox[i]
      /\ inbox'[Len(inbox) + 1] = e
      /\ Len(inbox) \in Nat
  BY AppendProperties, LenProperties DEF Sorts
<1>2. Len(inbox') \in Nat /\ Len(inbox) + 1 \in 1..Len(inbox')
  BY <1>1
<1>3. \A i \in 1..Len(inbox') : i \in 1..Len(inbox) \/ i = Len(inbox) + 1
  BY <1>1
<1>4. \A i \in 1..Len(inbox) : i \in 1..Len(inbox')
  BY <1>1
<1> QED BY <1>1, <1>2, <1>3, <1>4 DEF Events

\* What the events that bear a number carry.
LEMMA EventSorts ==
  ASSUME NEW e \in SyncEvent
  PROVE  /\ e.kind \in {"response", "failed", "concluded"} => e.session \in Nat
         /\ e.kind = "response" => e.answer \in Refusals \cup {"wants"}
         /\ e.kind = "response" /\ e.answer = "wants" => e.wants \subseteq Messages
         /\ e.kind = "concluded" => e.complete \in BOOLEAN
BY DEF SyncEvent, Refusals

LEMMA EventsTyped == Sorts => \A e \in Events : e \in SyncEvent
BY ElementOfSeq DEF Sorts, Events

-----------------------------------------------------------------------------
(***************************************************************************)
(* Three kinds of step keep the invariant whatever else they do: one that  *)
(* leaves the session as it is, one that leaves it waiting for no answer,  *)
(* and one without a peer.                                                 *)
(***************************************************************************)

NoNewNumbers ==
  /\ requests' \subseteq requests /\ resources' \subseteq resources
  /\ \A e \in Events' : e \in Events \/ e.kind \notin {"response", "concluded"}

NothingMarkedWrongly ==
  /\ peer_has \subseteq peer_has'
  /\ handled' \subseteq handled \cup peer_has' \cup OverLimit

JobPrepares == job'.step \in {"idle", "prepare"} /\ job'.session = 0

LEMMA AddedOnceKept ==
  ASSUME AddedOnce, NoNewNumbers, peerings' = peerings, peered' => peered,
         job' = job \/ JobPrepares \/ peered
  PROVE  AddedOnce'
BY DEF AddedOnce, NoNewNumbers, JobPrepares

LEMMA SettledKept ==
  ASSUME HandledIsSettled, NothingMarkedWrongly
  PROVE  HandledIsSettled'
BY DEF HandledIsSettled, NothingMarkedWrongly

LEMMA AtMost == \A m, n \in Nat : m = 0 \/ m = n => m <= n
OBVIOUS

LEMMA QuietStep ==
  ASSUME SyncInv, Sorts', NoNewNumbers, NothingMarkedWrongly,
         peerings' = peerings, peered' = peered, conn' = conn,
         \/ job' = job
         \/ JobPrepares
         \/ peered /\ job'.step = "send offer" /\ job'.session = session
  PROVE  SyncInv'
<1>1. AddedOnce' /\ HandledIsSettled'
  BY AddedOnceKept, SettledKept DEF SyncInv
<1>2. /\ state' = state /\ session' = session
      /\ last_offer' = last_offer /\ transferring' = transferring
  BY DEF conn
<1>3. ASSUME peered' PROVE Numbers'
  <2>1. Numbers
    BY <1>3 DEF SyncInv
  <2>2. Sending' => Sending /\ job' = job
    BY <1>2 DEF Sending, JobPrepares
  <2>3. NumbersBelow'
    <3>1. job'.session <= session'
      <4>1. session' \in Nat /\ job'.session \in Nat
        BY DEF Sorts
      <4>2. CASE job' = job
        BY <2>1, <1>2, <4>2 DEF Numbers, NumbersBelow
      <4>3. CASE job'.session = 0 \/ job'.session = session'
        BY <4>1, <4>3, AtMost
      <4> QED BY <4>2, <4>3, <1>2 DEF JobPrepares
    <3> QED BY <2>1, <1>2, <3>1 DEF Numbers, NumbersBelow, NoNewNumbers
  <2>4. NumbersNamed'
    BY <2>1, <1>2 DEF Numbers, NumbersNamed, NoNewNumbers
  <2>5. AnswersTell'
    BY <2>1, <1>2 DEF Numbers, AnswersTell, NoNewNumbers, NothingMarkedWrongly
  <2>6. OneResource'
    BY <2>1, <2>2, <1>2 DEF Numbers, OneResource, NoNewNumbers
  <2> QED BY <2>3, <2>4, <2>5, <2>6 DEF Numbers
<1> QED BY <1>1, <1>3 DEF SyncInv

LEMMA ElsewhereStep ==
  ASSUME SyncInv, Sorts', NoNewNumbers, NothingMarkedWrongly,
         peerings' = peerings, peered' = peered, session <= session',
         state' \notin {"REQUEST_SENT", "RESOURCE_TRANSFERRING"},
         JobPrepares
  PROVE  SyncInv'
<1>1. AddedOnce' /\ HandledIsSettled'
  BY AddedOnceKept, SettledKept DEF SyncInv
<1>2. ~Sending'
  BY DEF Sending, JobPrepares
<1>3. ASSUME peered' PROVE Numbers'
  <2>1. Numbers
    BY <1>3 DEF SyncInv
  <2>2. NumbersBelow'
    <3>1. ASSUME NEW n \in Nat, n <= session PROVE n <= session'
      BY <3>1 DEF SyncInv, Sorts
    <3>2. \A r \in requests \cup resources : r.session \in Nat
      BY DEF SyncInv, Sorts, SentOffer
    <3>3. \A e \in Events : e.kind \in {"response", "concluded"} => e.session \in Nat
      BY EventSorts, EventsTyped DEF SyncInv
    <3>4. job'.session <= session'
      BY DEF JobPrepares, Sorts
    <3> QED BY <2>1, <3>1, <3>2, <3>3, <3>4 DEF Numbers, NumbersBelow, NoNewNumbers
  <2> QED BY <1>2, <2>2 DEF Numbers, NumbersNamed, AnswersTell, OneResource
<1> QED BY <1>1, <1>3 DEF SyncInv

LEMMA PeerlessStep ==
  ASSUME SyncInv, Sorts', NoNewNumbers, NothingMarkedWrongly,
         peerings' = peerings, ~peered', job' = job \/ JobPrepares
  PROVE  SyncInv'
BY AddedOnceKept, SettledKept DEF SyncInv

-----------------------------------------------------------------------------
(***************************************************************************)
(* The worker.                                                             *)
(***************************************************************************)

LEMMA EndedSync ==
  ASSUME Sorts, end_sync
  PROVE  /\ session' \in Nat /\ session <= session' /\ last_offer' = {} /\ state' = "IDLE"
         /\ links' = links /\ attempts' = attempts
BY DEF Sorts, end_sync, EndSession, close_link

LEMMA StartStep == SyncInv /\ start_sync => SyncInv'
<1> SUFFICES ASSUME SyncInv, start_sync PROVE SyncInv'
  OBVIOUS
<1>1. /\ inbox' \in Seq(SyncEvent) /\ Events' \subseteq Events
  BY TakenEvent DEF start_sync, SyncInv
<1>2. /\ UNCHANGED <<peerings, peered, conn, stored, handled, unhandled, links, attempts, network>>
      /\ job' = [step |-> "prepare", session |-> 0, link |-> 0, ids |-> {}]
  BY DEF start_sync, peer, store, appLinks, Resync, DoNext
<1>3. Sorts'
  BY <1>1, <1>2 DEF SyncInv, Sorts, conn, network
<1>4. NoNewNumbers /\ NothingMarkedWrongly /\ JobPrepares
  BY <1>1, <1>2 DEF NoNewNumbers, NothingMarkedWrongly, JobPrepares, network
<1> QED BY <1>2, <1>3, <1>4, QuietStep

LEMMA PrepareStep == SyncInv /\ prepare_sync => SyncInv'
<1> SUFFICES ASSUME SyncInv, prepare_sync PROVE SyncInv'
  OBVIOUS
<1>1. /\ UNCHANGED <<peerings, peered, stored, handled, inbox, network>>
      /\ NoNewNumbers /\ NothingMarkedWrongly
  BY DEF prepare_sync, PrepareOtherwise, PreparePostponed, PrepareLink, PrepareOffer, Preparing,
         peer, store, network, NoNewNumbers, NothingMarkedWrongly, Events
<1>2. CASE PrepareOtherwise
  <2>1. UNCHANGED <<conn, unhandled, links, attempts>> /\ Idle
    BY <1>2 DEF PrepareOtherwise, peer, store, appLinks
  <2>2. Sorts' /\ JobPrepares
    BY <1>1, <2>1 DEF SyncInv, Sorts, JobPrepares, Idle, DoNext, conn, network
  <2> QED BY <1>1, <2>1, <2>2, QuietStep
<1>3. CASE PreparePostponed
  <2>1. UNCHANGED unhandled /\ Idle
    BY <1>3 DEF PreparePostponed, store
  <2>2. CASE UNCHANGED <<conn, appLinks>>
    <3>1. Sorts' /\ JobPrepares
      BY <1>1, <2>1, <2>2 DEF SyncInv, Sorts, JobPrepares, Idle, DoNext, conn, network, appLinks
    <3> QED BY <1>1, <2>2, <3>1, QuietStep
  <2>3. CASE end_sync
    <3>1. Sorts' /\ JobPrepares /\ session <= session' /\ state' = "IDLE"
      BY <1>1, <2>1, <2>3, EndedSync DEF SyncInv, Sorts, JobPrepares, Idle, DoNext, network
    <3> QED BY <1>1, <3>1, ElsewhereStep
  <2> QED BY <1>3, <2>2, <2>3 DEF PreparePostponed
<1>4. CASE PrepareLink
  <2>1. UNCHANGED unhandled /\ Idle /\ BeginSession
    BY <1>4 DEF PrepareLink, store
  <2>2. /\ session' = session + 1 /\ state' = "LINK_ESTABLISHING" /\ last_offer' = last_offer
        /\ links' = links + 1 /\ attempts' = attempts \cup {links + 1}
    BY <2>1 DEF BeginSession, open_link
  <2>3. Sorts' /\ JobPrepares /\ session <= session'
    BY <1>1, <2>1, <2>2 DEF SyncInv, Sorts, JobPrepares, Idle, DoNext, network
  <2> QED BY <1>1, <2>2, <2>3, ElsewhereStep
<1>5. CASE PrepareOffer
  <2>1. /\ UNCHANGED <<conn, links, attempts>> /\ peered /\ unhandled' \subseteq unhandled
        /\ job' = [step |-> "send offer", session |-> session, link |-> 0, ids |-> unhandled']
    BY <1>5 DEF PrepareOffer, DoNext, peer, appLinks
  <2>2. job'.step = "send offer" /\ job'.session = session /\ job'.ids = unhandled'
    BY <2>1
  <2>3. Sorts'
    BY <1>1, <2>1, <2>2 DEF SyncInv, Sorts, conn, network
  <2> QED BY <1>1, <2>1, <2>2, <2>3, QuietStep
<1> QED BY <1>2, <1>3, <1>4, <1>5 DEF prepare_sync

LEMMA OfferStep == SyncInv /\ send_offer => SyncInv'
<1> SUFFICES ASSUME SyncInv, send_offer PROVE SyncInv'
  OBVIOUS
<1>1. /\ UNCHANGED <<inbox, resources, peer_has>> /\ Idle /\ Events' = Events
      /\ JobPrepares
  BY DEF send_offer, Events, Idle, DoNext, JobPrepares
<1>2. CASE OfferDropped
  <2>1. UNCHANGED <<peerings, peered, conn, stored, handled, unhandled, links, attempts, requests>>
    BY <1>2 DEF OfferDropped, peer, store, appLinks
  <2>2. Sorts' /\ NoNewNumbers /\ NothingMarkedWrongly
    BY <1>1, <2>1 DEF SyncInv, Sorts, Idle, DoNext, conn, NoNewNumbers, NothingMarkedWrongly
  <2> QED BY <1>1, <2>1, <2>2, QuietStep
<1>3. CASE OfferEnds
  <2>1. /\ UNCHANGED <<peerings, peered, stored, requests>> /\ unhandled' \subseteq unhandled
        /\ handled' \subseteq handled \cup OverLimit /\ end_sync
    BY <1>3 DEF OfferEnds, mark_handled
  <2>2. Sorts' /\ NoNewNumbers /\ NothingMarkedWrongly /\ session <= session' /\ state' = "IDLE"
    BY <1>1, <2>1, EndedSync DEF SyncInv, Sorts, Idle, DoNext, NoNewNumbers, NothingMarkedWrongly
  <2> QED BY <1>1, <2>1, <2>2, ElsewhereStep
<1>4. ASSUME NEW offered \in plan_offer(job.ids \cap unhandled), Offer(offered) PROVE SyncInv'
  <2>1. /\ UNCHANGED <<peerings, peered, stored, links, attempts>> /\ unhandled' \subseteq unhandled
        /\ handled' \subseteq handled \cup OverLimit
        /\ peered /\ session' = session + 1 /\ state' = "REQUEST_SENT" /\ last_offer' = offered
        /\ requests' = requests \cup {[session |-> session + 1, ids |-> offered]}
        /\ offered \subseteq unhandled
    BY <1>4 DEF Offer, mark_handled, Current, appLinks, plan_offer
  <2>2. Numbers /\ session \in Nat
    BY <2>1 DEF SyncInv, Sorts
  <2>3. Sorts'
    BY <1>1, <2>1, <2>2 DEF SyncInv, Sorts, Idle, DoNext, SentOffer
  <2>4. AddedOnce'
    BY <2>1 DEF SyncInv, AddedOnce
  <2>5. HandledIsSettled'
    BY <1>1, <2>1 DEF SyncInv, HandledIsSettled
  <2>6. \A r \in requests \cup resources : r.session \in Nat /\ r.session < session + 1
    BY <2>2 DEF SyncInv, Sorts, SentOffer, Numbers, NumbersBelow
  <2>7. \A e \in Events : e.kind \in {"response", "concluded"} =>
          e.session \in Nat /\ e.session < session + 1
    BY <2>2, EventSorts, EventsTyped DEF SyncInv, Numbers, NumbersBelow
  <2>8. ~Sending'
    BY <1>1 DEF Sending, JobPrepares
  <2>9. NumbersBelow'
    BY <1>1, <2>1, <2>2, <2>6, <2>7 DEF NumbersBelow, Idle, DoNext
  <2>10. NumbersNamed' /\ AnswersTell' /\ OneResource'
    BY <1>1, <2>1, <2>2, <2>6, <2>7, <2>8 DEF NumbersNamed, AnswersTell, OneResource
  <2> QED BY <2>3, <2>4, <2>5, <2>9, <2>10 DEF SyncInv, Numbers
<1> QED BY <1>2, <1>3, <1>4 DEF send_offer

LEMMA ResponseStep == SyncInv /\ on_offer_response => SyncInv'
<1> SUFFICES ASSUME SyncInv, on_offer_response PROVE SyncInv'
  OBVIOUS
<1>1. /\ Head(inbox) \in Events /\ Head(inbox) \in SyncEvent /\ Head(inbox).kind = "response"
      /\ inbox' \in Seq(SyncEvent) /\ Events' \subseteq Events
  BY TakenEvent DEF SyncInv, on_offer_response
<1>2. UNCHANGED <<requests, resources, peer_has>>
  BY DEF on_offer_response, network
<1>3. NoNewNumbers
  BY <1>1, <1>2 DEF NoNewNumbers
<1>4. CASE StaleResponse
  <2>1. UNCHANGED <<peerings, peered, conn, stored, handled, unhandled, links, attempts>> /\ Idle
    BY <1>4 DEF StaleResponse, peer, store, appLinks
  <2>2. Sorts' /\ JobPrepares /\ NothingMarkedWrongly
    BY <1>1, <1>2, <2>1 DEF SyncInv, Sorts, Idle, DoNext, conn, JobPrepares, NothingMarkedWrongly
  <2> QED BY <1>3, <2>1, <2>2, QuietStep
<1>5. CASE NoIdentity
  <2>1. /\ UNCHANGED <<peerings, peered, session, stored, handled, unhandled, links, attempts>> /\ Resync
        /\ last_offer' = {} /\ state' = "LINK_READY"
    BY <1>5 DEF NoIdentity, store, appLinks
  <2>2. Sorts' /\ JobPrepares /\ NothingMarkedWrongly /\ session <= session'
    BY <1>1, <1>2, <2>1 DEF SyncInv, Sorts, Resync, DoNext, JobPrepares, NothingMarkedWrongly
  <2> QED BY <1>3, <2>1, <2>2, ElsewhereStep
<1>6. CASE NoAccess
  <2>1. /\ UNCHANGED <<peerings, stored, handled, unhandled, links, attempts>> /\ Idle
        /\ ~peered' /\ session' = 0 /\ last_offer' = {}
    BY <1>6 DEF NoAccess, store, unpeer, EndSession, close_link
  <2>2. Sorts' /\ JobPrepares /\ NothingMarkedWrongly
    BY <1>1, <1>2, <2>1 DEF SyncInv, Sorts, Idle, DoNext, JobPrepares, NothingMarkedWrongly
  <2> QED BY <1>3, <2>1, <2>2, PeerlessStep
<1>7. CASE Refused
  <2>1. /\ UNCHANGED <<peerings, peered, stored, handled, unhandled>> /\ Idle /\ end_sync
    BY <1>7 DEF Refused, store
  <2>2. Sorts' /\ JobPrepares /\ NothingMarkedWrongly /\ session <= session' /\ state' = "IDLE"
    BY <1>1, <1>2, <2>1, EndedSync DEF SyncInv, Sorts, Idle, DoNext, JobPrepares, NothingMarkedWrongly
  <2> QED BY <1>3, <2>1, <2>2, ElsewhereStep
<1>8. CASE Wanted /\ Current("REQUEST_SENT", Head(inbox).session)
  <2> DEFINE wants == Head(inbox).wants
             files == wants \cap last_offer \cap stored
  <2>1. /\ UNCHANGED <<peerings, peered, stored>> /\ unhandled' \subseteq unhandled
        /\ handled' \subseteq handled \cup (last_offer \ wants)
    BY <1>8 DEF Wanted, mark_handled
  <2>2. peered /\ state = "REQUEST_SENT" /\ session = Head(inbox).session
        /\ Head(inbox).answer = "wants"
    BY <1>8 DEF Current, Wanted
  <2>3. Numbers
    BY <2>2 DEF SyncInv
  <2>4. last_offer \ wants \subseteq peer_has
    BY <1>1, <2>2, <2>3 DEF Numbers, AnswersTell
  <2>5. NothingMarkedWrongly
    BY <1>2, <2>1, <2>4 DEF NothingMarkedWrongly
  <2>6. CASE files = {}
    <3>1. end_sync /\ Idle
      BY <1>8, <2>6 DEF Wanted
    <3>2. Sorts' /\ JobPrepares /\ session <= session' /\ state' = "IDLE"
      BY <1>1, <1>2, <2>1, <3>1, EndedSync DEF SyncInv, Sorts, Idle, DoNext, JobPrepares
    <3> QED BY <1>3, <2>1, <2>5, <3>2, ElsewhereStep
  <2>7. CASE files # {}
    <3>1. /\ state' = "RESOURCE_TRANSFERRING" /\ last_offer' = {}
          /\ job' = [step |-> "send resource", session |-> session, link |-> 0, ids |-> files]
          /\ UNCHANGED <<session, transferring, links, attempts>>
      BY <1>8, <2>7 DEF Wanted, DoNext, appLinks
    <3>2. Sorts'
      BY <1>1, <1>2, <2>1, <3>1 DEF SyncInv, Sorts
    <3>3. AddedOnce'
      BY <2>1, <2>2 DEF SyncInv, AddedOnce
    <3>4. HandledIsSettled'
      BY <2>5, SettledKept DEF SyncInv
    <3>5. /\ \A r \in resources : r.session # session
          /\ \A e \in Events : e.kind = "concluded" => e.session # session
      BY <2>2, <2>3 DEF Numbers, OneResource
    <3>6. session \in Nat /\ job'.session = session /\ job'.step = "send resource"
      BY <3>1 DEF SyncInv, Sorts
    <3>7. NumbersBelow'
      <4>1. job'.session <= session'
        BY <3>1, <3>6, AtMost
      <4> QED BY <1>1, <1>2, <2>3, <3>1, <4>1 DEF Numbers, NumbersBelow
    <3>8. NumbersNamed' /\ AnswersTell' /\ OneResource'
      BY <1>1, <1>2, <3>1, <3>5, <3>6 DEF NumbersNamed, AnswersTell, OneResource, Sending
    <3> QED BY <3>2, <3>3, <3>4, <3>7, <3>8 DEF SyncInv, Numbers
  <2> QED BY <2>6, <2>7
<1> QED BY <1>4, <1>5, <1>6, <1>7, <1>8 DEF on_offer_response

LEMMA FailedStep == SyncInv /\ on_offer_failed => SyncInv'
<1> SUFFICES ASSUME SyncInv, on_offer_failed PROVE SyncInv'
  OBVIOUS
<1>1. /\ inbox' \in Seq(SyncEvent) /\ Events' \subseteq Events
  BY TakenEvent DEF SyncInv, on_offer_failed
<1>2. UNCHANGED <<peerings, peered, stored, handled, unhandled, requests, resources, peer_has>> /\ Idle
  BY DEF on_offer_failed, store, network
<1>3. NoNewNumbers /\ NothingMarkedWrongly /\ JobPrepares
  BY <1>1, <1>2 DEF NoNewNumbers, NothingMarkedWrongly, JobPrepares, Idle, DoNext
<1>4. CASE end_sync
  <2>1. Sorts' /\ session <= session' /\ state' = "IDLE"
    BY <1>1, <1>2, <1>4, EndedSync DEF SyncInv, Sorts, Idle, DoNext
  <2> QED BY <1>2, <1>3, <2>1, ElsewhereStep
<1>5. CASE UNCHANGED <<conn, appLinks>>
  <2>1. Sorts'
    BY <1>1, <1>2, <1>5 DEF SyncInv, Sorts, Idle, DoNext, conn, appLinks
  <2> QED BY <1>2, <1>3, <1>5, <2>1, QuietStep
<1> QED BY <1>4, <1>5 DEF on_offer_failed

LEMMA FilesStep == SyncInv /\ send_sync_resource => SyncInv'
<1> SUFFICES ASSUME SyncInv, send_sync_resource PROVE SyncInv'
  OBVIOUS
<1>1. PICK read \in SUBSET job.ids : \E missing \in SUBSET (job.ids \ read) : ReadFiles(read, missing)
  BY DEF send_sync_resource
<1>2. /\ UNCHANGED <<peerings, peered, inbox, requests, resources, peer_has>> /\ job.step = "send resource"
      /\ Events' = Events
  BY DEF send_sync_resource, network, Events
<1>3. /\ stored' \subseteq stored /\ handled' \subseteq handled /\ unhandled' \subseteq unhandled
  BY <1>1 DEF ReadFiles, remove
<1>4. NoNewNumbers /\ NothingMarkedWrongly
  BY <1>2, <1>3 DEF NoNewNumbers, NothingMarkedWrongly
<1>5. CASE end_sync /\ Idle
  <2>1. Sorts' /\ JobPrepares /\ session <= session' /\ state' = "IDLE"
    BY <1>2, <1>3, <1>5, EndedSync DEF SyncInv, Sorts, Idle, DoNext, JobPrepares
  <2> QED BY <1>2, <1>4, <2>1, ElsewhereStep
<1>6. CASE Idle /\ UNCHANGED <<conn, appLinks>>
  <2>1. Sorts' /\ JobPrepares
    BY <1>2, <1>3, <1>6 DEF SyncInv, Sorts, Idle, DoNext, JobPrepares, conn, appLinks
  <2> QED BY <1>2, <1>4, <1>6, <2>1, QuietStep
<1>7. CASE /\ Current("RESOURCE_TRANSFERRING", job.session)
           /\ transferring' = read
           /\ DoNext("start resource", session, link_id, read)
           /\ UNCHANGED <<state, session, last_offer, appLinks>>
  <2>1. /\ peered /\ state = "RESOURCE_TRANSFERRING" /\ session = job.session
        /\ job'.step = "start resource" /\ job'.session = session /\ job'.ids = read
        /\ UNCHANGED <<links, attempts>>
    BY <1>7 DEF Current, DoNext, appLinks
  <2>2. Numbers /\ Sending
    BY <1>2, <2>1 DEF SyncInv, Sending
  <2>3. /\ \A r \in resources : r.session # session
        /\ \A e \in Events : e.kind = "concluded" => e.session # session
    BY <1>2, <2>2 DEF Numbers, OneResource
  <2>4. read \subseteq Messages
    BY DEF SyncInv, Sorts
  <2>5. Sorts'
    BY <1>2, <1>3, <1>7, <2>1, <2>4 DEF SyncInv, Sorts
  <2>6. AddedOnce' /\ HandledIsSettled'
    BY <1>2, <1>4, <2>1, SettledKept DEF SyncInv, AddedOnce
  <2>7. NumbersBelow'
    BY <1>2, <1>7, <2>1, <2>2 DEF Numbers, NumbersBelow
  <2>8. NumbersNamed' /\ AnswersTell' /\ OneResource'
    BY <1>2, <1>7, <2>1, <2>3 DEF NumbersNamed, AnswersTell, OneResource, Sending
  <2> QED BY <2>5, <2>6, <2>7, <2>8 DEF SyncInv, Numbers
<1> QED BY <1>1, <1>5, <1>6, <1>7 DEF ReadFiles

LEMMA ResourceStep == SyncInv /\ send_resource => SyncInv'
<1> SUFFICES ASSUME SyncInv, send_resource PROVE SyncInv'
  OBVIOUS
<1>1. /\ UNCHANGED <<peerings, peered, stored, handled, unhandled, inbox, requests, peer_has>>
      /\ job.step = "start resource" /\ Idle /\ Events' = Events
  BY DEF send_resource, store, Events
<1>2. NothingMarkedWrongly /\ JobPrepares
  BY <1>1 DEF NothingMarkedWrongly, JobPrepares, Idle, DoNext
<1>3. CASE end_sync /\ UNCHANGED resources
  <2>1. Sorts' /\ NoNewNumbers /\ session <= session' /\ state' = "IDLE"
    BY <1>1, <1>3, EndedSync DEF SyncInv, Sorts, Idle, DoNext, NoNewNumbers
  <2> QED BY <1>1, <1>2, <2>1, ElsewhereStep
<1>4. CASE UNCHANGED <<conn, appLinks, resources>>
  <2>1. Sorts' /\ NoNewNumbers
    BY <1>1, <1>4 DEF SyncInv, Sorts, Idle, DoNext, NoNewNumbers, conn, appLinks
  <2> QED BY <1>1, <1>2, <1>4, <2>1, QuietStep
<1>5. CASE /\ resources' = resources \cup {[session |-> job.session, ids |-> job.ids]}
           /\ UNCHANGED <<conn, appLinks>>
  <2>1. UNCHANGED <<state, session, last_offer, transferring, links, attempts>>
    BY <1>5 DEF conn, appLinks
  <2>2. Sorts'
    <3>1. [session |-> job.session, ids |-> job.ids] \in SentOffer
      BY DEF SyncInv, Sorts, SentOffer
    <3>2. job'.session \in Nat /\ job'.ids \subseteq Messages
      BY <1>1 DEF Idle, DoNext
    <3> QED BY <1>1, <1>5, <2>1, <3>1, <3>2 DEF SyncInv, Sorts
  <2>3. AddedOnce'
    BY <1>1, <1>2 DEF SyncInv, AddedOnce, JobPrepares
  <2>4. HandledIsSettled'
    BY <1>2, SettledKept DEF SyncInv
  <2>5. ASSUME peered' PROVE Numbers'
    <3>1. Numbers
      BY <1>1, <2>5 DEF SyncInv
    <3>2. \A r \in resources' : r \in resources \/ (r.session = job.session /\ r.ids = job.ids)
      BY <1>5
    <3>3. job.session = session => state = "RESOURCE_TRANSFERRING" /\ job.ids = transferring
      BY <1>1, <3>1 DEF Numbers, OneResource, Sending
    <3>4. ~Sending'
      BY <1>2 DEF Sending, JobPrepares
    <3>5. job'.session <= session'
      BY <1>2, <2>2, AtMost DEF JobPrepares, Sorts
    <3>6. NumbersBelow'
      BY <1>1, <2>1, <3>1, <3>2, <3>5 DEF Numbers, NumbersBelow
    <3>7. NumbersNamed' /\ AnswersTell' /\ OneResource'
      BY <1>1, <2>1, <3>1, <3>2, <3>3, <3>4 DEF Numbers, NumbersNamed, AnswersTell, OneResource
    <3> QED BY <3>6, <3>7 DEF Numbers
  <2> QED BY <2>2, <2>3, <2>4, <2>5 DEF SyncInv
<1> QED BY <1>3, <1>4, <1>5 DEF send_resource

LEMMA ConcludedStep == SyncInv /\ on_resource_concluded => SyncInv'
<1> SUFFICES ASSUME SyncInv, on_resource_concluded PROVE SyncInv'
  OBVIOUS
<1>1. /\ Head(inbox) \in Events /\ Head(inbox) \in SyncEvent /\ Head(inbox).kind = "concluded"
      /\ inbox' \in Seq(SyncEvent) /\ Events' \subseteq Events
  BY TakenEvent DEF SyncInv, on_resource_concluded
<1>2. UNCHANGED <<peerings, peered, requests, resources, peer_has>>
  BY DEF on_resource_concluded, network
<1>3. NoNewNumbers
  BY <1>1, <1>2 DEF NoNewNumbers
<1>4. CASE StaleConclusion
  <2>1. UNCHANGED <<conn, stored, handled, unhandled, links, attempts>> /\ Idle
    BY <1>4 DEF StaleConclusion, store, appLinks
  <2>2. Sorts' /\ JobPrepares /\ NothingMarkedWrongly
    BY <1>1, <1>2, <2>1 DEF SyncInv, Sorts, Idle, DoNext, conn, JobPrepares, NothingMarkedWrongly
  <2> QED BY <1>2, <1>3, <2>1, <2>2, QuietStep
<1>5. CASE ResourceFailed
  <2>1. UNCHANGED <<stored, handled, unhandled>> /\ Idle /\ end_sync
    BY <1>5 DEF ResourceFailed, store
  <2>2. Sorts' /\ JobPrepares /\ NothingMarkedWrongly /\ session <= session' /\ state' = "IDLE"
    BY <1>1, <1>2, <2>1, EndedSync DEF SyncInv, Sorts, Idle, DoNext, JobPrepares, NothingMarkedWrongly
  <2> QED BY <1>2, <1>3, <2>1, <2>2, ElsewhereStep
<1>6. CASE ResourceCompleted /\ Current("RESOURCE_TRANSFERRING", Head(inbox).session)
  <2>1. /\ UNCHANGED stored /\ unhandled' \subseteq unhandled
        /\ handled' \subseteq handled \cup transferring /\ Head(inbox).complete
    BY <1>6 DEF ResourceCompleted, mark_handled
  <2>2. peered /\ state = "RESOURCE_TRANSFERRING" /\ session = Head(inbox).session
    BY <1>6 DEF Current
  <2>3. transferring \subseteq peer_has
    BY <1>1, <2>1, <2>2 DEF SyncInv, Numbers, AnswersTell
  <2>4. NothingMarkedWrongly
    BY <1>2, <2>1, <2>3 DEF NothingMarkedWrongly
  <2>5. JobPrepares /\ job'.ids \subseteq Messages /\ job'.session \in Nat
    BY <1>6 DEF ResourceCompleted, Idle, Resync, DoNext, JobPrepares
  <2>6. CASE end_sync
    <3>1. Sorts' /\ session <= session' /\ state' = "IDLE"
      BY <1>1, <1>2, <2>1, <2>5, <2>6, EndedSync DEF SyncInv, Sorts
    <3> QED BY <1>2, <1>3, <2>4, <2>5, <3>1, ElsewhereStep
  <2>7. CASE state' = "LINK_READY" /\ UNCHANGED <<session, last_offer, appLinks>>
    <3>1. Sorts' /\ session <= session'
      BY <1>1, <1>2, <2>1, <2>5, <2>7 DEF SyncInv, Sorts, JobPrepares, appLinks
    <3> QED BY <1>2, <1>3, <2>4, <2>5, <2>7, <3>1, ElsewhereStep
  <2> QED BY <1>6, <2>6, <2>7 DEF ResourceCompleted
<1> QED BY <1>4, <1>5, <1>6 DEF on_resource_concluded

LEMMA LinkStep == SyncInv /\ (on_link_active \/ on_link_down) => SyncInv'
<1> SUFFICES ASSUME SyncInv, on_link_active \/ on_link_down PROVE SyncInv'
  OBVIOUS
<1>1. /\ inbox' \in Seq(SyncEvent) /\ Events' \subseteq Events
  BY TakenEvent DEF SyncInv, on_link_active, on_link_down
<1>2. UNCHANGED <<peerings, peered, stored, handled, unhandled, requests, resources, peer_has>>
  BY DEF on_link_active, on_link_down, store, network
<1>3. JobPrepares /\ job'.ids \subseteq Messages /\ job'.session \in Nat
  BY DEF on_link_active, on_link_down, LinkUnused, LinkNotNews, LinkReady, LinkReplaced,
         JobPrepares, Idle, Resync, DoNext
<1>4. NoNewNumbers /\ NothingMarkedWrongly
  BY <1>1, <1>2 DEF NoNewNumbers, NothingMarkedWrongly
<1>5. CASE end_sync
  <2>1. Sorts' /\ session <= session' /\ state' = "IDLE"
    BY <1>1, <1>2, <1>3, <1>5, EndedSync DEF SyncInv, Sorts
  <2> QED BY <1>2, <1>3, <1>4, <2>1, ElsewhereStep
<1>6. CASE UNCHANGED <<conn, links, attempts>>
  <2>1. Sorts'
    BY <1>1, <1>2, <1>3, <1>6 DEF SyncInv, Sorts, JobPrepares, conn
  <2> QED BY <1>2, <1>3, <1>4, <1>6, <2>1, QuietStep
<1>7. CASE LinkReady
  <2>1. state' = "LINK_READY" /\ UNCHANGED <<session, last_offer, links, attempts>>
    BY <1>7 DEF LinkReady, appLinks
  <2>2. Sorts' /\ session <= session'
    BY <1>1, <1>2, <1>3, <2>1 DEF SyncInv, Sorts, JobPrepares
  <2> QED BY <1>2, <1>3, <1>4, <2>1, <2>2, ElsewhereStep
<1>8. CASE on_link_active
  <2>1. LinkUnused \/ LinkNotNews => UNCHANGED <<conn, links, attempts>>
    BY DEF LinkUnused, LinkNotNews, close_link, appLinks
  <2>2. LinkReplaced => end_sync
    BY DEF LinkReplaced
  <2> QED BY <1>5, <1>6, <1>7, <1>8, <2>1, <2>2 DEF on_link_active
<1>9. CASE on_link_down
  BY <1>5, <1>6, <1>9 DEF on_link_down, appLinks
<1> QED BY <1>8, <1>9

LEMMA WorkerStep == SyncInv /\ Worker => SyncInv'
BY StartStep, PrepareStep, OfferStep, ResponseStep, FailedStep, FilesStep, ResourceStep,
   ConcludedStep, LinkStep DEF Worker

-----------------------------------------------------------------------------
(***************************************************************************)
(* The node.                                                               *)
(***************************************************************************)

LEMMA AddedStep == MaxPeerings <= 1 /\ SyncInv /\ announce_new_peer => SyncInv'
<1> SUFFICES ASSUME MaxPeerings <= 1, SyncInv, announce_new_peer PROVE SyncInv'
  OBVIOUS
<1>1. /\ peerings < MaxPeerings /\ peerings' = peerings + 1
      /\ UNCHANGED <<conn, stored, handled, unhandled, inbox, job, links, attempts,
                     requests, resources, peer_has>>
  BY DEF announce_new_peer, NodeOnly, store, network
<1>2. peerings = 0
  BY <1>1, ConstantsAssumption DEF SyncInv, Sorts
<1>3. UNCHANGED <<state, session, last_offer, transferring, Events>>
  BY <1>1 DEF conn, Events
<1>4. /\ requests' = {} /\ resources' = {}
      /\ \A e \in Events' : e.kind \notin {"response", "concluded"}
      /\ job'.step \in {"idle", "prepare"} /\ job'.session = 0
  BY <1>1, <1>2, <1>3 DEF SyncInv, AddedOnce
<1>5. Sorts'
  BY <1>1, <1>3 DEF SyncInv, Sorts
<1>6. AddedOnce' /\ HandledIsSettled'
  BY <1>1, <1>2 DEF SyncInv, AddedOnce, HandledIsSettled
<1>7. job'.session <= session'
  BY <1>4, <1>5, AtMost DEF Sorts
<1>8. Numbers'
  BY <1>4, <1>7 DEF Numbers, NumbersBelow, NumbersNamed, AnswersTell, OneResource, Sending
<1> QED BY <1>5, <1>6, <1>8 DEF SyncInv

LEMMA NodeStep == MaxPeerings <= 1 /\ SyncInv /\ Node => SyncInv'
<1> SUFFICES ASSUME MaxPeerings <= 1, SyncInv, Node PROVE SyncInv'
  OBVIOUS
<1>1. CASE tick_sync
  <2>1. /\ UNCHANGED <<peerings, peered, conn, stored, handled, unhandled, job, links, attempts,
                       requests, resources, peer_has>>
        /\ inbox' = Append(inbox, [kind |-> "start"])
    BY <1>1 DEF tick_sync, peer, store, NodeOnly, network, Report
  <2>2. [kind |-> "start"] \in SyncEvent
    BY DEF SyncEvent
  <2>3. inbox' \in Seq(SyncEvent) /\ Events' = Events \cup {[kind |-> "start"]}
    BY <2>1, <2>2, ReportedEvent DEF SyncInv
  <2>4. Sorts' /\ NoNewNumbers /\ NothingMarkedWrongly
    BY <2>1, <2>3 DEF SyncInv, Sorts, NoNewNumbers, NothingMarkedWrongly, conn
  <2> QED BY <2>1, <2>4, QuietStep
<1>2. CASE cull
  <2>1. /\ UNCHANGED <<peerings, stored, handled, unhandled, inbox, job, links, attempts,
                       requests, resources, peer_has>>
        /\ ~peered' /\ session' = 0 /\ last_offer' = {}
    BY <1>2 DEF cull, unpeer, EndSession, close_link, store, network
  <2>2. Sorts' /\ NoNewNumbers /\ NothingMarkedWrongly
    BY <2>1 DEF SyncInv, Sorts, NoNewNumbers, NothingMarkedWrongly, Events
  <2> QED BY <2>1, <2>2, PeerlessStep
<1>3. CASE announce_new_cost \/ peering_key_ground \/ wait_over
  <2>1. UNCHANGED <<peerings, peered, conn, stored, handled, unhandled, inbox, job, links, attempts,
                    requests, resources, peer_has>>
    BY <1>3 DEF announce_new_cost, peering_key_ground, wait_over, store, NodeOnly, network
  <2>2. Sorts' /\ NoNewNumbers /\ NothingMarkedWrongly
    BY <2>1 DEF SyncInv, Sorts, NoNewNumbers, NothingMarkedWrongly, conn, Events
  <2> QED BY <2>1, <2>2, QuietStep
<1>4. ASSUME NEW m \in Messages, store_message(m) \/ ingest_from_peer(m) \/ message_leaves(m)
      PROVE  SyncInv'
  <2>1. /\ UNCHANGED <<peerings, peered, conn, inbox, job, links, attempts, requests, resources>>
        /\ stored' \subseteq stored \cup {m} /\ unhandled' \subseteq unhandled \cup {m}
        /\ peer_has \subseteq peer_has' /\ handled' \subseteq handled \cup peer_has'
    BY <1>4 DEF store_message, ingest_from_peer, message_leaves, remove, StoreOnly,
                peer, worker, appLinks
  <2>2. Sorts' /\ NoNewNumbers /\ NothingMarkedWrongly
    BY <2>1 DEF SyncInv, Sorts, NoNewNumbers, NothingMarkedWrongly, conn, Events
  <2> QED BY <2>1, <2>2, QuietStep
<1> QED BY <1>1, <1>2, <1>3, <1>4, AddedStep DEF Node

-----------------------------------------------------------------------------
(***************************************************************************)
(* AppLinks and the peer.                                                  *)
(***************************************************************************)

LEMMA AppLinksStep == SyncInv /\ AppLinks => SyncInv'
<1> SUFFICES ASSUME SyncInv, AppLinks PROVE SyncInv'
  OBVIOUS
<1>1. /\ UNCHANGED <<peerings, peered, conn, stored, handled, unhandled, job,
                     requests, resources, peer_has>>
      /\ attempts' \subseteq attempts \cup {links + 1} /\ links' \in {links, links + 1}
  BY DEF AppLinks, LinkUp, AttemptFails, LinkCloses, LinkReopens, EarlierLinkCloses, LinksOnly,
         peer, store, network
<1>2. /\ inbox' \in Seq(SyncEvent)
      /\ \A e \in Events' : e \in Events \/ e.kind \notin {"response", "concluded"}
  <2>1. CASE inbox' = inbox
    BY <2>1 DEF SyncInv, Sorts, Events
  <2>2. ASSUME NEW e \in SyncEvent, e.kind \in {"active", "down"}, inbox' = Append(inbox, e)
        PROVE  <1>2
    BY <2>2, ReportedEvent DEF SyncInv
  <2>3. [kind |-> "down"] \in SyncEvent
    BY DEF SyncEvent
  <2>4. \A l \in attempts : [kind |-> "active", link |-> l] \in SyncEvent
    BY DEF SyncEvent, SyncInv, Sorts
  <2>5. ASSUME NEW l \in attempts, LinkUp(l)
        PROVE  <1>2
    BY <2>2, <2>4, <2>5 DEF LinkUp, Report
  <2>6. CASE ReportsDown
    BY <2>1, <2>2, <2>3, <2>6 DEF ReportsDown
  <2> QED BY <2>1, <2>5, <2>6 DEF AppLinks, AttemptFails, LinkCloses, LinkReopens, EarlierLinkCloses
<1>3. Sorts' /\ NoNewNumbers /\ NothingMarkedWrongly
  BY <1>1, <1>2 DEF SyncInv, Sorts, NoNewNumbers, NothingMarkedWrongly, conn
<1> QED BY <1>1, <1>3, QuietStep

LEMMA AnswerStep == ASSUME SyncInv, NEW r \in requests, PeerAnswers(r) PROVE SyncInv'
<1>1. /\ UNCHANGED <<peerings, peered, conn, stored, handled, unhandled, job, links, attempts, resources>>
      /\ requests' \subseteq requests /\ peer_has \subseteq peer_has'
  BY DEF PeerAnswers, PeerOnly, peer, store, appLinks
<1>2. UNCHANGED <<state, session, last_offer, transferring>>
  BY <1>1 DEF conn
<1>3. r.session \in Nat /\ r.ids \subseteq Messages
  BY DEF SyncInv, Sorts, SentOffer
<1> DEFINE refusal(answer) == [kind |-> "response", session |-> r.session, answer |-> answer]
           wish(had) == [kind |-> "response", session |-> r.session, answer |-> "wants",
                         wants |-> r.ids \ (peer_has \cup had)]
           Tells(e) == /\ Report(e)
                       /\ e.kind = "response" /\ e.session = r.session
                       /\ e.answer = "wants" => r.ids \ e.wants \subseteq peer_has'
<1>4. \A answer \in Refusals : refusal(answer) \in SyncEvent /\ refusal(answer).answer # "wants"
  BY <1>3 DEF SyncEvent, Refusals
<1>5. \A had \in SUBSET r.ids : wish(had) \in SyncEvent
  BY <1>3 DEF SyncEvent
<1>6. ASSUME NEW answer \in Refusals, Report(refusal(answer))
       PROVE  Tells(refusal(answer))
  BY <1>4, <1>6
<1>7. ASSUME NEW had \in SUBSET r.ids, Report(wish(had)), peer_has' = peer_has \cup had
       PROVE  Tells(wish(had))
  BY <1>7
<1>8. \/ \E answer \in Refusals : Report(refusal(answer))
      \/ \E had \in SUBSET r.ids : Report(wish(had)) /\ peer_has' = peer_has \cup had
  BY Zenon DEF PeerAnswers
<1> HIDE DEF refusal, wish, Tells
<1>9. PICK e \in SyncEvent : Tells(e)
  BY <1>4, <1>5, <1>6, <1>7, <1>8, Zenon
<1>10. /\ inbox' = Append(inbox, e)
       /\ e.kind = "response" /\ e.session = r.session
       /\ e.answer = "wants" => r.ids \ e.wants \subseteq peer_has'
  BY <1>9 DEF Tells, Report
<1>11. inbox' \in Seq(SyncEvent) /\ Events' = Events \cup {e}
  BY <1>10, ReportedEvent DEF SyncInv
<1>12. Sorts'
  BY <1>1, <1>2, <1>11 DEF SyncInv, Sorts
<1>13. AddedOnce' /\ HandledIsSettled'
  BY <1>1, <1>11 DEF SyncInv, AddedOnce, HandledIsSettled
<1>14. ASSUME peered' PROVE Numbers'
  <2>1. Numbers
    BY <1>1, <1>14 DEF SyncInv
  <2>2. NumbersBelow'
    BY <1>1, <1>2, <1>10, <1>11, <2>1 DEF Numbers, NumbersBelow
  <2>3. NumbersNamed'
    BY <1>1, <1>2, <2>1 DEF Numbers, NumbersNamed
  <2>4. AnswersTell'
    <3>1. state = "REQUEST_SENT" /\ session = r.session => r.ids = last_offer
      BY <2>1 DEF Numbers, NumbersNamed
    <3> QED BY <1>1, <1>2, <1>10, <1>11, <2>1, <3>1 DEF Numbers, AnswersTell
  <2>5. OneResource'
    BY <1>1, <1>2, <1>10, <1>11, <2>1 DEF Numbers, OneResource, Sending
  <2> QED BY <2>2, <2>3, <2>4, <2>5 DEF Numbers
<1> QED BY <1>12, <1>13, <1>14 DEF SyncInv

LEMMA FailsStep == ASSUME SyncInv, NEW r \in requests, RequestFails(r) PROVE SyncInv'
<1>1. /\ UNCHANGED <<peerings, peered, conn, stored, handled, unhandled, job, links, attempts,
                     resources, peer_has>>
      /\ requests' \subseteq requests
      /\ inbox' = Append(inbox, [kind |-> "failed", session |-> r.session])
  BY DEF RequestFails, PeerOnly, peer, store, appLinks, Report
<1>2. [kind |-> "failed", session |-> r.session] \in SyncEvent
  BY DEF SyncEvent, SyncInv, Sorts, SentOffer
<1>3. inbox' \in Seq(SyncEvent) /\ Events' = Events \cup {[kind |-> "failed", session |-> r.session]}
  BY <1>1, <1>2, ReportedEvent DEF SyncInv
<1>4. Sorts' /\ NoNewNumbers /\ NothingMarkedWrongly
  BY <1>1, <1>3 DEF SyncInv, Sorts, NoNewNumbers, NothingMarkedWrongly, conn
<1> QED BY <1>1, <1>4, QuietStep

LEMMA ConcludesStep ==
  ASSUME SyncInv, NEW r \in resources, NEW complete \in BOOLEAN, NEW arrived \in BOOLEAN,
         ResourceConcludes(r, complete, arrived)
  PROVE  SyncInv'
<1> DEFINE e == [kind |-> "concluded", session |-> r.session, complete |-> complete]
<1>1. /\ UNCHANGED <<peerings, peered, conn, stored, handled, unhandled, job, links, attempts, requests>>
      /\ resources' \subseteq resources /\ peer_has \subseteq peer_has'
      /\ complete => r.ids \subseteq peer_has'
      /\ inbox' = Append(inbox, e)
  BY DEF ResourceConcludes, PeerOnly, peer, store, appLinks, Report
<1>2. UNCHANGED <<state, session, last_offer, transferring>>
  BY <1>1 DEF conn
<1>3. e \in SyncEvent /\ e.kind = "concluded" /\ e.session = r.session /\ e.complete = complete
  BY DEF SyncEvent, SyncInv, Sorts, SentOffer
<1> HIDE DEF e
<1>4. inbox' \in Seq(SyncEvent) /\ Events' = Events \cup {e}
  BY <1>1, <1>3, ReportedEvent DEF SyncInv
<1>5. Sorts'
  BY <1>1, <1>2, <1>4 DEF SyncInv, Sorts
<1>6. AddedOnce' /\ HandledIsSettled'
  BY <1>1, <1>4 DEF SyncInv, AddedOnce, HandledIsSettled
<1>7. ASSUME peered' PROVE Numbers'
  <2>1. Numbers
    BY <1>1, <1>7 DEF SyncInv
  <2>2. NumbersBelow'
    BY <1>1, <1>2, <1>3, <1>4, <2>1 DEF Numbers, NumbersBelow
  <2>3. NumbersNamed'
    BY <1>1, <1>2, <2>1 DEF Numbers, NumbersNamed
  <2>4. AnswersTell'
    <3>1. state = "RESOURCE_TRANSFERRING" /\ session = r.session => r.ids = transferring
      BY <2>1 DEF Numbers, NumbersNamed
    <3> QED BY <1>1, <1>2, <1>3, <1>4, <2>1, <3>1 DEF Numbers, AnswersTell
  <2>5. OneResource'
    BY <1>1, <1>2, <1>3, <1>4, <2>1 DEF Numbers, OneResource, Sending
  <2> QED BY <2>2, <2>3, <2>4, <2>5 DEF Numbers
<1> QED BY <1>5, <1>6, <1>7 DEF SyncInv

-----------------------------------------------------------------------------

THEOREM SyncInvariance == ASSUME MaxPeerings <= 1 PROVE Spec => []SyncInv
<1>1. ASSUME SyncInv, UNCHANGED vars PROVE SyncInv'
  <2>1. UNCHANGED <<peerings, peered, conn, stored, handled, unhandled, inbox, job, links, attempts,
                    requests, resources, peer_has>>
    BY <1>1 DEF vars, peer, store, worker, appLinks, network
  <2>2. Sorts' /\ NoNewNumbers /\ NothingMarkedWrongly
    BY <1>1, <2>1 DEF SyncInv, Sorts, NoNewNumbers, NothingMarkedWrongly, conn, Events
  <2> QED BY <1>1, <2>1, <2>2, QuietStep
<1>2. SyncInv /\ [Next]_vars => SyncInv'
  BY <1>1, WorkerStep, NodeStep, AppLinksStep, AnswerStep, FailsStep, ConcludesStep DEF Next, Peer
<1> QED BY <1>2, InitSync, PTL DEF Spec

\* A message is marked handled for the peer only if the peer has it, or can
\* never take it: no answer or outcome of an ended session marks another
\* session's messages, as long as the peer is not added twice.
THEOREM NothingMarkedUnsettled ==
  ASSUME MaxPeerings <= 1 PROVE Spec => []HandledIsSettled
<1>1. SyncInv => HandledIsSettled
  BY DEF SyncInv
<1> QED BY <1>1, SyncInvariance, PTL

\* The session a callback's number names is the one that sent it: an answer
\* or an outcome still to come under the record's number is that of the
\* offer, or of the batch, the record holds.
THEOREM NumbersAreNames ==
  ASSUME MaxPeerings <= 1 PROVE Spec => []NumberNamesTheSession
<1>1. SyncInv => NumberNamesTheSession
  BY DEF SyncInv, Numbers, NumbersNamed, NumberNamesTheSession, Current
<1> QED BY <1>1, SyncInvariance, PTL

-----------------------------------------------------------------------------
(***************************************************************************)
(* InboundSync: what is recorded of an inbound link.                       *)
(***************************************************************************)

LinkSorts ==
  /\ link \in [Links -> {"up", "closing", "closed"}]
  /\ offer \in [Links -> {"none", "judge", "key", "accept", "record", "check"}]
  /\ batch \in [Links -> Batch]
  /\ accepted \in [Links -> {"none", "ACCEPTED", "TRANSFERRING", "VALIDATING"}]

\* Of a closed link there are entries only while something is at work on it
\* that will take them back; a close spares the entry of a batch that is being
\* validated, whose end drops it.
EntriesHeld(l) ==
  /\ link[l] = "closed" /\ l \in validated \cup sync_links => offer[l] \in {"accept", "record", "check"}
  /\ link[l] = "closed" /\ accepted[l] # "none" =>
       offer[l] \in {"record", "check"} \/ batch[l].step # "none"
  /\ accepted[l] = "VALIDATING" => batch[l].step = "validating" /\ batch[l].sender # Nobody
  /\ batch[l].keyed <=> batch[l].sender # Nobody /\ batch[l].presented

InboundInv == LinkSorts /\ \A l \in Links : EntriesHeld(l)

LEMMA InitInbound ==
  ASSUME InboundInit
  PROVE  InboundInv
<1>1. \A l \in Links : batch[l] = NoBatch /\ accepted[l] = "none" /\ validated \cup sync_links = {}
  BY DEF InboundInit
<1>2. NoBatch.step = "none" /\ ~NoBatch.keyed /\ NoBatch.sender = Nobody /\ NoBatch \in Batch
  BY DEF NoBatch, Batch
<1>3. LinkSorts
  BY <1>2 DEF InboundInit, LinkSorts
<1>4. ASSUME NEW l \in Links PROVE EntriesHeld(l)
  <2>1. l \notin validated \cup sync_links /\ accepted[l] = "none"
    BY <1>1
  <2>2. ~batch[l].keyed /\ batch[l].sender = Nobody
    BY <1>1, <1>2
  <2> QED BY <2>1, <2>2 DEF EntriesHeld
<1> QED BY <1>3, <1>4 DEF InboundInv

\* A step on one link tells on that link's part alone.
LEMMA OneLink ==
  ASSUME InboundInv, LinkSorts', NEW l \in Links, EntriesHeld(l)',
         validated' \ {l} = validated \ {l}, sync_links' \ {l} = sync_links \ {l},
         \A k \in Links \ {l} : /\ link'[k] = link[k] /\ offer'[k] = offer[k]
                                /\ batch'[k] = batch[k] /\ accepted'[k] = accepted[k]
  PROVE  InboundInv'
<1>1. ASSUME NEW k \in Links, k # l PROVE EntriesHeld(k)'
  BY <1>1 DEF InboundInv, EntriesHeld
<1> QED BY <1>1 DEF InboundInv

LEMMA LinkSteps ==
  ASSUME InboundInv, NEW l \in Links,
         LinkOpens(l) \/ InboundLinkCloses(l) \/ ClosedCallback(l) \/ clean_links(l)
  PROVE  InboundInv'
<1>1. LinkSorts'
  BY DEF InboundInv, LinkSorts, LinkOpens, InboundLinkCloses, ClosedCallback, clean_links, forget_link, inbound
<1>2. EntriesHeld(l)'
  BY DEF InboundInv, LinkSorts, EntriesHeld, LinkOpens, InboundLinkCloses, ClosedCallback, clean_links,
     forget_link, inbound
<1>3. /\ validated' \ {l} = validated \ {l} /\ sync_links' \ {l} = sync_links \ {l}
      /\ \A k \in Links \ {l} : /\ link'[k] = link[k] /\ offer'[k] = offer[k]
                                /\ batch'[k] = batch[k] /\ accepted'[k] = accepted[k]
  BY DEF InboundInv, LinkSorts, LinkOpens, InboundLinkCloses, ClosedCallback, clean_links, forget_link, inbound
<1> QED BY <1>1, <1>2, <1>3, OneLink

LEMMA OfferSteps ==
  ASSUME InboundInv, NEW l \in Links, OfferComes(l) \/ Handles(l)
  PROVE  InboundInv'
<1> USE DEF OfferComes, Handles, OfferAdmitted, OfferRefused, KeyPresented, OfferAnswered,
            AfterOffer, OfferOver, forget_link_if_closed, forget_link, inbound
<1>1. LinkSorts'
  BY DEF InboundInv, LinkSorts
<1>2. EntriesHeld(l)'
  BY DEF InboundInv, LinkSorts, EntriesHeld
<1>3. /\ validated' \ {l} = validated \ {l} /\ sync_links' \ {l} = sync_links \ {l}
      /\ \A k \in Links \ {l} : /\ link'[k] = link[k] /\ offer'[k] = offer[k]
                                /\ batch'[k] = batch[k] /\ accepted'[k] = accepted[k]
  BY DEF InboundInv, LinkSorts
<1> QED BY <1>1, <1>2, <1>3, OneLink

\* A batch goes on to another step, or is over.
LEMMA BatchMoves ==
  ASSUME LinkSorts, NEW l \in Links, NEW step \in {"received", "validating", "storing", "concluding"},
         Moves(l, step)
  PROVE  /\ batch' \in [Links -> Batch] /\ \A k \in Links \ {l} : batch'[k] = batch[k]
         /\ batch'[l].step = step /\ batch'[l].sender = batch[l].sender
         /\ batch'[l].keyed = batch[l].keyed /\ batch'[l].presented = batch[l].presented
<1>1. batch[l] \in Batch /\ batch' = [batch EXCEPT ![l] = [batch[l] EXCEPT !.step = step]]
  BY DEF LinkSorts, Moves
<1>2. [batch[l] EXCEPT !.step = step] \in Batch
  BY <1>1 DEF Batch
<1> QED BY <1>1, <1>2 DEF LinkSorts, Batch

LEMMA BatchSteps ==
  ASSUME InboundInv, NEW l \in Links,
         \/ Received(l) \/ TransferFails(l) \/ Refuse(l) \/ NoMessages(l)
         \/ Validate(l) \/ Validated(l) \/ Stored(l)
  PROVE  InboundInv'
<1>0. LinkSorts /\ EntriesHeld(l)
  BY DEF InboundInv
<1>1. PICK step \in {"received", "validating", "storing", "concluding"} : Moves(l, step)
  BY DEF Received, TransferFails, Refuse, NoMessages, Validate, Validated, Stored
<1>2. /\ batch' \in [Links -> Batch] /\ \A k \in Links \ {l} : batch'[k] = batch[k]
      /\ batch'[l].step = step /\ batch'[l].sender = batch[l].sender
      /\ batch'[l].keyed = batch[l].keyed /\ batch'[l].presented = batch[l].presented
  BY <1>0, <1>1, BatchMoves
<1>3. offer' = offer /\ validated' = validated /\ sync_links' = sync_links
  BY DEF Received, TransferFails, Refuse, NoMessages, Validate, Validated, Stored, inbound
<1>4. link' = link \/ link' = [link EXCEPT ![l] = IF @ = "up" THEN "closing" ELSE @]
  BY DEF Received, TransferFails, Refuse, NoMessages, Validate, Validated, Stored, Down
<1>5. \/ accepted' = accepted /\ batch[l].step # "validating" /\ step # "none"
      \/ /\ step = "validating" /\ batch[l].step = "received"
         /\ accepted' = [accepted EXCEPT ![l] = IF batch[l].sender = Nobody THEN @ ELSE "VALIDATING"]
      \/ accepted' = [accepted EXCEPT ![l] = IF batch[l].sender = Nobody THEN @ ELSE "none"]
  <2>1. CASE Validate(l)
    <3>1. batch'[l].step = "validating"
      BY <2>1, <1>0, BatchMoves DEF Validate
    <3> QED BY <1>2, <2>1, <3>1 DEF Validate
  <2>2. CASE Validated(l)
    BY <2>2 DEF Validated, entry_dropped
  <2>3. CASE ~Validate(l) /\ ~Validated(l)
    BY <1>1, <2>3 DEF Received, TransferFails, Refuse, NoMessages, Stored, inbound
  <2> QED BY <2>1, <2>2, <2>3
<1>6. LinkSorts'
  BY <1>0, <1>2, <1>3, <1>4, <1>5 DEF LinkSorts
<1>7. EntriesHeld(l)'
  BY <1>0, <1>2, <1>3, <1>4, <1>5 DEF LinkSorts, EntriesHeld
<1>8. \A k \in Links \ {l} : link'[k] = link[k] /\ offer'[k] = offer[k] /\ accepted'[k] = accepted[k]
  BY <1>0, <1>3, <1>4, <1>5 DEF LinkSorts
<1> QED BY <1>2, <1>3, <1>6, <1>7, <1>8, OneLink

\* The first and the last step of a batch.
LEMMA EndSteps ==
  ASSUME InboundInv, config \in Configs, NEW l \in Links,
         Advertised(l) \/ Concluded(l)
  PROVE  InboundInv'
<1>0. LinkSorts /\ EntriesHeld(l)
  BY DEF InboundInv
<1>1. CASE Concluded(l)
  <2>1. /\ batch' = [batch EXCEPT ![l] = NoBatch] /\ accepted' = [accepted EXCEPT ![l] = "none"]
        /\ UNCHANGED <<link, offer, validated, sync_links>>
    BY <1>1 DEF Concluded
  <2>2. NoBatch.step = "none" /\ ~NoBatch.keyed /\ NoBatch.sender = Nobody /\ NoBatch \in Batch
    BY DEF NoBatch, Batch
  <2>3. LinkSorts'
    BY <1>0, <2>1, <2>2 DEF LinkSorts
  <2>4. EntriesHeld(l)'
    <3>1. batch'[l] = NoBatch /\ accepted'[l] = "none"
      BY <1>0, <2>1 DEF LinkSorts
    <3>2. ~batch'[l].keyed /\ batch'[l].sender = Nobody
      BY <2>2, <3>1
    <3>3. link'[l] = "closed" /\ l \in validated' \cup sync_links' => offer'[l] \in {"accept", "record", "check"}
      BY <1>0, <2>1 DEF EntriesHeld
    <3> QED BY <3>1, <3>2, <3>3 DEF EntriesHeld
  <2>5. \A k \in Links \ {l} : batch'[k] = batch[k] /\ accepted'[k] = accepted[k]
    BY <1>0, <2>1 DEF LinkSorts
  <2> QED BY <2>1, <2>3, <2>4, <2>5, OneLink
<1>2. CASE Advertised(l)
  <2> DEFINE b == [step |-> "transferring", sender |-> Sender(l),
                   keyed |-> Sender(l) # Nobody /\ l \in validated, presented |-> l \in validated]
  <2>1. /\ batch' = [batch EXCEPT ![l] = b] /\ link[l] = "up" /\ batch[l].step = "none"
        /\ accepted' = [accepted EXCEPT ![l] = IF @ = "none" THEN @ ELSE "TRANSFERRING"]
        /\ UNCHANGED <<link, offer, validated, sync_links>>
    BY <1>2 DEF Advertised
  <2>2. Sender(l) \in Nodes \cup {Nobody}
    BY InboundAssumption DEF Sender
  <2>3. b \in Batch /\ b.step = "transferring" /\ (b.keyed <=> b.sender # Nobody /\ b.presented)
    <3>1. (Sender(l) # Nobody /\ l \in validated) \in BOOLEAN /\ (l \in validated) \in BOOLEAN
      OBVIOUS
    <3>2. b \in Batch
      BY <2>2, <3>1 DEF Batch
    <3> QED BY <3>2
  <2> HIDE DEF b
  <2>4. LinkSorts'
    BY <1>0, <2>1, <2>3 DEF LinkSorts
  <2>5. EntriesHeld(l)'
    BY <1>0, <2>1, <2>3 DEF LinkSorts, EntriesHeld
  <2>6. \A k \in Links \ {l} : batch'[k] = batch[k] /\ accepted'[k] = accepted[k]
    BY <1>0, <2>1 DEF LinkSorts
  <2> QED BY <2>1, <2>4, <2>5, <2>6, OneLink
<1> QED BY <1>1, <1>2

LEMMA InboundKept ==
  ASSUME InboundInv, config \in Configs, [InboundNext]_inbound_vars
  PROVE  InboundInv' /\ config' \in Configs
<1>1. config' = config
  <2>1. ASSUME NEW l \in Links,
               LinkOpens(l) \/ InboundLinkCloses(l) \/ ClosedCallback(l) \/ clean_links(l) \/ OfferComes(l)
        PROVE  config' = config
    BY <2>1 DEF LinkOpens, InboundLinkCloses, ClosedCallback, clean_links, OfferComes
  <2>2. ASSUME NEW l \in Links, Handles(l) PROVE config' = config
    BY <2>2 DEF Handles, OfferAdmitted, OfferRefused, KeyPresented, OfferAnswered, AfterOffer,
       OfferOver
  <2>3. ASSUME NEW l \in Links, Advertised(l) \/ Received(l) \/ TransferFails(l) \/ Ingests(l)
        PROVE  config' = config
    BY <2>3 DEF Advertised, Received, TransferFails, Ingests, Refuse, NoMessages, Validate,
       Validated, Stored, Concluded
  <2>4. ASSUME NEW n \in Nodes, ThrottleEnds(n) PROVE config' = config
    BY <2>4 DEF ThrottleEnds
  <2> QED BY <2>1, <2>2, <2>3, <2>4 DEF InboundNext, inbound_vars
<1>2. CASE UNCHANGED <<link, offer, batch, accepted, validated, sync_links>>
  <2>1. LinkSorts'
    BY <1>2 DEF InboundInv, LinkSorts
  <2>2. ASSUME NEW l \in Links PROVE EntriesHeld(l)'
    <3>1. EntriesHeld(l)
      BY DEF InboundInv
    <3> QED BY <1>2, <3>1 DEF EntriesHeld
  <2> QED BY <1>1, <2>1, <2>2 DEF InboundInv
<1>3. CASE UNCHANGED inbound_vars \/ \E n \in Nodes : ThrottleEnds(n)
  BY <1>2, <1>3 DEF inbound_vars, inbound, ThrottleEnds
<1> QED BY <1>1, <1>2, <1>3, LinkSteps, OfferSteps, BatchSteps, EndSteps DEF InboundNext, Ingests

\* Whoever sends on the links and however the node is configured, the entries
\* of a closed link are gone once nothing is at work on it (forget_link,
\* after_offer, clean_links, ValidationMark::drop; lxmf_propagation.rs
\* 1019-1127 and 2095-2101).
THEOREM EntriesGoWithTheLink ==
  InboundSpec => []NothingLeft
<1>1. InboundInit => InboundInv /\ config \in Configs
  BY InitInbound DEF InboundInit
<1>2. InboundInv /\ config \in Configs /\ [InboundNext]_inbound_vars => (InboundInv /\ config \in Configs)'
  BY InboundKept
<1>3. InboundInv => NothingLeft
  BY DEF NothingLeft, InboundInv, EntriesHeld
<1> QED BY <1>1, <1>2, <1>3, PTL DEF InboundSpec

\* A batch on whose link a key had been presented is never refused for want of
\* one, however soon its sender hangs up (the advertisement records the key,
\* ingest asks the record; lxmf_propagation.rs 2137-2165 and 2340-2358).
THEOREM PresentedKeyCounts ==
  InboundSpec => KeyedBatchTaken
<1>1. InboundInit => InboundInv /\ config \in Configs
  BY InitInbound DEF InboundInit
<1>2. InboundInv /\ config \in Configs /\ [InboundNext]_inbound_vars => (InboundInv /\ config \in Configs)'
  BY InboundKept
<1>3. InboundInv => \A l \in Links : Refuse(l) => ~batch[l].presented \/ batch[l].sender = Nobody
  BY DEF InboundInv, EntriesHeld, Refuse, Keyed
<1> QED BY <1>1, <1>2, <1>3, PTL DEF InboundSpec, KeyedBatchTaken

\* What InboundSyncs records is of links and of nodes.
RecordSorts == throttled \subseteq Nodes /\ validated \subseteq Links /\ validating \subseteq Nodes /\ sync_links \subseteq Links

LEMMA RecordsKept ==
  ASSUME InboundInv, RecordSorts, config \in Configs, [InboundNext]_inbound_vars
  PROVE  RecordSorts'
<1>1. ASSUME NEW l \in Links,
             LinkOpens(l) \/ InboundLinkCloses(l) \/ ClosedCallback(l) \/ clean_links(l) \/ OfferComes(l)
      PROVE  RecordSorts'
  BY <1>1 DEF RecordSorts, LinkOpens, InboundLinkCloses, ClosedCallback, clean_links, OfferComes, forget_link, inbound
<1>2. ASSUME NEW l \in Links, Handles(l) PROVE RecordSorts'
  BY <1>2 DEF RecordSorts, Handles, OfferAdmitted, OfferRefused, KeyPresented, OfferAnswered, AfterOffer, OfferOver,
     forget_link_if_closed, forget_link, inbound
<1>3. ASSUME NEW l \in Links, Advertised(l) \/ Received(l) \/ TransferFails(l) \/ Ingests(l) PROVE RecordSorts'
  <2>1. batch[l].sender \in Nodes \cup {Nobody}
    BY DEF InboundInv, LinkSorts, Batch
  <2> QED BY <1>3, <2>1 DEF RecordSorts, Advertised, Received, TransferFails, Ingests, Refuse, NoMessages, Validate,
        Validated, Stored, Concluded, unmarked, inbound
<1>4. ASSUME NEW n \in Nodes, ThrottleEnds(n) PROVE RecordSorts'
  BY <1>4 DEF RecordSorts, ThrottleEnds
<1>5. CASE UNCHANGED inbound_vars
  BY <1>5 DEF RecordSorts, inbound_vars, inbound
<1> QED BY <1>1, <1>2, <1>3, <1>4, <1>5 DEF InboundNext

\* Types for any links, senders and configurations; an entry that says
\* VALIDATING, which forget_link leaves in place, has a batch that is being
\* validated (lxmf_propagation.rs 1060-1127).
THEOREM InboundTypeCorrect == InboundSpec => []InboundTypeOK
<1> DEFINE I == InboundInv /\ RecordSorts /\ config \in Configs
<1>1. InboundInit => I
  BY InitInbound DEF InboundInit, RecordSorts
<1>2. I /\ [InboundNext]_inbound_vars => I'
  BY InboundKept, RecordsKept
<1>3. I => InboundTypeOK
  BY DEF InboundInv, LinkSorts, EntriesHeld, RecordSorts, InboundTypeOK
<1> HIDE DEF I
<1> QED BY <1>1, <1>2, <1>3, PTL DEF InboundSpec

-----------------------------------------------------------------------------
(***************************************************************************)
(* PeerSync: types and the record's shape, however often the peer is added. *)
(***************************************************************************)

RecordOK ==
  /\ peerings \in 0 .. MaxPeerings /\ peered \in BOOLEAN
  /\ state \in {"IDLE", "LINK_ESTABLISHING"} \cup Sessions
  /\ session \in Nat /\ link_id \in 0 .. MaxLinks /\ reidentified \in BOOLEAN
  /\ last_offer \subseteq Messages /\ transferring \subseteq Messages
  /\ postponed \in BOOLEAN /\ key \in Keys
  /\ link_id # 0 <=> state \in Sessions
  /\ last_offer # {} <=> state = "REQUEST_SENT"
  /\ transferring # {} => state = "RESOURCE_TRANSFERRING"

StoreOK ==
  /\ stored \subseteq processed /\ processed \subseteq Messages
  /\ handled \subseteq stored /\ unhandled \subseteq stored \ handled

\* A link reported active is one that was tried.
WorkerOK ==
  /\ inbox \in Seq(SyncEvent) /\ job \in Job
  /\ \A e \in Events : e.kind = "active" => e.link # 0

LinksOK ==
  /\ links \in 0 .. MaxLinks /\ attempts \subseteq 1 .. links
  /\ held \in 0 .. links /\ closing \in Nat /\ tracked \in BOOLEAN

NetworkOK == requests \subseteq SentOffer /\ resources \subseteq SentOffer /\ peer_has \subseteq Messages

TypeInv == RecordOK /\ StoreOK /\ WorkerOK /\ LinksOK /\ NetworkOK

LEMMA TypesAreSorts == TypeInv => Sorts
<1> SUFFICES ASSUME TypeInv PROVE Sorts
  OBVIOUS
<1>1. peerings \in Nat /\ session \in Nat /\ last_offer \subseteq Messages
  BY ConstantsAssumption DEF TypeInv, RecordOK
<1>2. stored \subseteq Messages /\ unhandled \subseteq Messages
  BY DEF TypeInv, StoreOK
<1>3. inbox \in Seq(SyncEvent) /\ job.session \in Nat /\ job.ids \subseteq Messages
  BY DEF TypeInv, WorkerOK, Job
<1>4. links \in Nat /\ attempts \subseteq Nat
  BY ConstantsAssumption DEF TypeInv, LinksOK
<1> QED BY <1>1, <1>2, <1>3, <1>4 DEF TypeInv, NetworkOK, Sorts

LEMMA InitTypes == Init => TypeInv
<1> SUFFICES ASSUME Init PROVE TypeInv
  OBVIOUS
<1>0. 0 \in 0 .. MaxPeerings /\ 0 \in 0 .. MaxLinks /\ 0 \in 0 .. 0
  BY ConstantsAssumption
<1>1. RecordOK
  BY <1>0 DEF Init, RecordOK, Keys, Sessions
<1>2. StoreOK /\ NetworkOK
  BY DEF Init, StoreOK, NetworkOK
<1>3. LinksOK
  BY <1>0 DEF Init, LinksOK
<1>4. WorkerOK
  <2>1. inbox = <<>> /\ inbox \in Seq(SyncEvent) /\ Events = {}
    BY EmptySeq DEF Init, Events
  <2>2. job \in Job
    BY DEF Init, Job
  <2> QED BY <2>1, <2>2 DEF WorkerOK
<1> QED BY <1>1, <1>2, <1>3, <1>4 DEF TypeInv

\* What a step does to the marks.
LEMMA StoreMoves ==
  ASSUME [Next]_vars
  PROVE  \/ UNCHANGED store
         \/ \E ids : mark_handled(ids) \/ remove(ids)
         \/ unhandled' \subseteq unhandled /\ UNCHANGED <<stored, processed, handled>>
         \/ \E m \in Messages : store_message(m) \/ ingest_from_peer(m)
<1>1. CASE start_sync \/ on_offer_failed \/ send_resource \/ on_link_active \/ on_link_down
  BY <1>1 DEF start_sync, on_offer_failed, send_resource, on_link_active, on_link_down
<1>2. CASE prepare_sync
  BY <1>2 DEF prepare_sync, PrepareOtherwise, PreparePostponed, PrepareLink, PrepareOffer, store
<1>3. CASE send_offer
  BY <1>3 DEF send_offer, OfferDropped, OfferEnds, Offer
<1>4. CASE on_offer_response
  BY <1>4 DEF on_offer_response, StaleResponse, NoIdentity, NoAccess, Refused, Wanted
<1>5. CASE send_sync_resource
  BY <1>5 DEF send_sync_resource, ReadFiles
<1>6. CASE on_resource_concluded
  BY <1>6 DEF on_resource_concluded, StaleConclusion, ResourceFailed, ResourceCompleted
<1>7. CASE Node
  BY <1>7 DEF Node, tick_sync, cull, announce_new_peer, announce_new_cost, peering_key_ground, wait_over,
     message_leaves
<1>8. CASE AppLinks
  BY <1>8 DEF AppLinks, LinkUp, AttemptFails, LinkCloses, LinkReopens, EarlierLinkCloses, LinksOnly
<1>9. CASE Peer
  BY <1>9 DEF Peer, PeerAnswers, RequestFails, ResourceConcludes, PeerOnly
<1>10. CASE UNCHANGED vars
  BY <1>10 DEF vars
<1> QED BY <1>1, <1>2, <1>3, <1>4, <1>5, <1>6, <1>7, <1>8, <1>9, <1>10 DEF Next, Worker

LEMMA StoreKept == TypeInv /\ [Next]_vars => StoreOK'
<1> SUFFICES ASSUME TypeInv, [Next]_vars PROVE StoreOK'
  OBVIOUS
<1>1. CASE UNCHANGED store
  BY <1>1 DEF TypeInv, StoreOK, store
<1>2. ASSUME NEW ids, mark_handled(ids) \/ remove(ids) PROVE StoreOK'
  BY <1>2 DEF TypeInv, StoreOK, mark_handled, remove
<1>3. CASE unhandled' \subseteq unhandled /\ UNCHANGED <<stored, processed, handled>>
  BY <1>3 DEF TypeInv, StoreOK
<1>4. ASSUME NEW m \in Messages, store_message(m) \/ ingest_from_peer(m) PROVE StoreOK'
  BY <1>4 DEF TypeInv, StoreOK, store_message, ingest_from_peer
<1> QED BY <1>1, <1>2, <1>3, <1>4, StoreMoves

\* What a step does to AppLinks.
LEMMA LinkMoves ==
  ASSUME [Next]_vars
  PROVE  \/ UNCHANGED appLinks
         \/ close_link
         \/ open_link /\ links # MaxLinks
         \/ AppLinks
<1>1. CASE start_sync
  BY <1>1 DEF start_sync
<1>2. CASE prepare_sync
  BY <1>2 DEF prepare_sync, PrepareOtherwise, PreparePostponed, PrepareLink, PrepareOffer, Postponed, BeginSession,
     end_sync, EndSession
<1>3. CASE send_offer
  BY <1>3 DEF send_offer, OfferDropped, OfferEnds, Offer, end_sync, EndSession
<1>4. CASE on_offer_response
  BY <1>4 DEF on_offer_response, StaleResponse, NoIdentity, NoAccess, Refused, Wanted, end_sync, unpeer, EndSession
<1>5. CASE on_offer_failed \/ send_sync_resource \/ send_resource
  BY <1>5 DEF on_offer_failed, send_sync_resource, ReadFiles, send_resource, end_sync, EndSession
<1>6. CASE on_resource_concluded
  BY <1>6 DEF on_resource_concluded, StaleConclusion, ResourceFailed, ResourceCompleted, end_sync, EndSession
<1>7. CASE on_link_active \/ on_link_down
  BY <1>7 DEF on_link_active, LinkUnused, LinkNotNews, LinkReady, LinkReplaced, on_link_down, end_sync, EndSession
<1>8. CASE Node
  BY <1>8 DEF Node, tick_sync, cull, announce_new_peer, announce_new_cost, peering_key_ground, wait_over,
     store_message, ingest_from_peer, message_leaves, StoreOnly, NodeOnly, appLinks, unpeer, EndSession
<1>9. CASE Peer
  BY <1>9 DEF Peer, PeerAnswers, RequestFails, ResourceConcludes, PeerOnly
<1>10. CASE UNCHANGED vars
  BY <1>10 DEF vars
<1> QED BY <1>1, <1>2, <1>3, <1>4, <1>5, <1>6, <1>7, <1>8, <1>9, <1>10 DEF Next, Worker

LEMMA LinksKept == TypeInv /\ [Next]_vars => LinksOK'
<1> SUFFICES ASSUME TypeInv, [Next]_vars PROVE LinksOK'
  OBVIOUS
<1>0. LinksOK /\ MaxLinks \in Nat /\ links \in Nat /\ links <= MaxLinks
  BY ConstantsAssumption DEF TypeInv, LinksOK
<1>1. CASE UNCHANGED appLinks
  BY <1>0, <1>1 DEF LinksOK, appLinks
<1>2. CASE close_link
  <2>1. links' = links /\ attempts' = attempts /\ held' = 0 /\ tracked' = FALSE /\ closing' \in {closing, closing + 1}
    BY <1>2 DEF close_link, LetGo
  <2>2. held' \in 0 .. links /\ closing' \in Nat
    BY <1>0, <2>1 DEF LinksOK
  <2> QED BY <1>0, <2>1, <2>2 DEF LinksOK
<1>3. CASE open_link /\ links # MaxLinks
  <2>1. links' = links + 1 /\ attempts' = attempts \cup {links + 1} /\ held' = 0 /\ tracked' = TRUE
    BY <1>3 DEF open_link, LetGo
  <2>2. closing' \in Nat
    BY <1>0, <1>3 DEF LinksOK, open_link, LetGo
  <2>3. links' \in 0 .. MaxLinks /\ held' \in 0 .. links'
    BY <1>0, <1>3, <2>1
  <2>4. \A l \in attempts' : l \in 1 .. links'
    BY <1>0, <2>1 DEF LinksOK
  <2> QED BY <2>1, <2>2, <2>3, <2>4 DEF LinksOK
<1>4. CASE AppLinks
  <2>1. ASSUME NEW l \in attempts, LinkUp(l) \/ AttemptFails(l) PROVE LinksOK'
    <3>1. l \in 1 .. links /\ links' = links /\ attempts' \subseteq attempts /\ tracked' = tracked
      BY <1>0, <2>1 DEF LinksOK, LinkUp, AttemptFails
    <3>2. held' \in {held, l} /\ closing' \in {closing, closing + 1}
      BY <2>1 DEF LinkUp, AttemptFails, LetGo
    <3>3. held' \in 0 .. links /\ closing' \in Nat
      BY <1>0, <3>1, <3>2 DEF LinksOK
    <3> QED BY <1>0, <3>1, <3>3 DEF LinksOK
  <2>2. CASE LinkCloses
    BY <1>0, <2>2 DEF LinksOK, LinkCloses
  <2>3. CASE LinkReopens
    BY <1>0, <2>3 DEF LinksOK, LinkReopens
  <2>4. CASE EarlierLinkCloses
    BY <1>0, <2>4 DEF LinksOK, EarlierLinkCloses
  <2> QED BY <1>4, <2>1, <2>2, <2>3, <2>4 DEF AppLinks
<1> QED BY <1>1, <1>2, <1>3, <1>4, LinkMoves

\* What a step does to the record.
EndsSession == /\ state' = "IDLE" /\ link_id' = 0 /\ reidentified' = FALSE
               /\ last_offer' = {} /\ transferring' = {} /\ session' \in {0, session + 1}

LEMMA EndSyncEnds == end_sync \/ unpeer => EndsSession
BY DEF end_sync, unpeer, EndSession, EndsSession

RecordTypes == peerings' \in 0 .. MaxPeerings /\ peered' \in BOOLEAN /\ postponed' \in BOOLEAN /\ key' \in Keys

LEMMA RecordTypesKept == TypeInv /\ [Next]_vars => RecordTypes
<1> SUFFICES ASSUME TypeInv, [Next]_vars PROVE RecordTypes
  OBVIOUS
<1>0. peerings \in 0 .. MaxPeerings /\ peered \in BOOLEAN /\ postponed \in BOOLEAN /\ key \in Keys /\ MaxPeerings \in Nat
  BY ConstantsAssumption DEF TypeInv, RecordOK
<1>1. CASE start_sync
  BY <1>0, <1>1 DEF start_sync, peer, RecordTypes
<1>2. CASE prepare_sync
  BY <1>0, <1>2 DEF prepare_sync, PrepareOtherwise, PreparePostponed, PrepareLink, PrepareOffer, peer, RecordTypes
<1>3. CASE send_offer
  BY <1>0, <1>3 DEF send_offer, OfferDropped, OfferEnds, Offer, peer, RecordTypes
<1>4. CASE on_offer_response
  <2>1. CASE StaleResponse \/ NoIdentity \/ Wanted
    BY <1>0, <2>1 DEF StaleResponse, NoIdentity, Wanted, peer, RecordTypes
  <2>2. CASE NoAccess
    BY <1>0, <2>2 DEF NoAccess, unpeer, RecordTypes, Keys
  <2>3. CASE Refused
    <3>1. key' \in Keys
      BY <1>0, <2>3 DEF Refused, Keys
    <3>2. postponed' \in BOOLEAN
      BY <1>0, <2>3 DEF Refused
    <3> QED BY <1>0, <2>3, <3>1, <3>2 DEF Refused, RecordTypes
  <2> QED BY <1>4, <2>1, <2>2, <2>3 DEF on_offer_response
<1>5. CASE on_offer_failed \/ send_sync_resource \/ send_resource \/ on_resource_concluded
  BY <1>0, <1>5 DEF on_offer_failed, send_sync_resource, send_resource, on_resource_concluded, RecordTypes
<1>6. CASE on_link_active \/ on_link_down
  BY <1>0, <1>6 DEF on_link_active, LinkUnused, LinkNotNews, LinkReady, LinkReplaced, on_link_down, RecordTypes
<1>7. CASE Node
  <2>0. CASE announce_new_peer
    <3>1. peerings < MaxPeerings /\ peerings' = peerings + 1 /\ peered' = TRUE /\ UNCHANGED <<postponed, key>>
      BY <2>0 DEF announce_new_peer
    <3>2. peerings' \in 0 .. MaxPeerings
      BY <1>0, <3>1
    <3> QED BY <1>0, <3>1, <3>2 DEF RecordTypes
  <2>1. CASE tick_sync \/ wait_over \/ cull
    BY <1>0, <2>1 DEF tick_sync, wait_over, cull, unpeer, peer, RecordTypes, Keys
  <2>2. CASE announce_new_cost \/ peering_key_ground
    BY <1>0, <2>2 DEF announce_new_cost, peering_key_ground, RecordTypes, Keys
  <2>3. ASSUME NEW m \in Messages, store_message(m) \/ ingest_from_peer(m) \/ message_leaves(m) PROVE RecordTypes
    BY <1>0, <2>3 DEF store_message, ingest_from_peer, message_leaves, StoreOnly, peer, RecordTypes
  <2> QED BY <1>7, <2>0, <2>1, <2>2, <2>3 DEF Node
<1>8. CASE AppLinks
  BY <1>0, <1>8 DEF AppLinks, LinkUp, AttemptFails, LinkCloses, LinkReopens, EarlierLinkCloses, LinksOnly, peer, RecordTypes
<1>9. CASE Peer
  BY <1>0, <1>9 DEF Peer, PeerAnswers, RequestFails, ResourceConcludes, PeerOnly, peer, RecordTypes
<1>10. CASE UNCHANGED vars
  BY <1>0, <1>10 DEF vars, peer, RecordTypes
<1> QED BY <1>1, <1>2, <1>3, <1>4, <1>5, <1>6, <1>7, <1>8, <1>9, <1>10 DEF Next, Worker

ConnOK ==
  /\ state \in {"IDLE", "LINK_ESTABLISHING"} \cup Sessions
  /\ session \in Nat /\ link_id \in 0 .. MaxLinks /\ reidentified \in BOOLEAN
  /\ last_offer \subseteq Messages /\ transferring \subseteq Messages
  /\ link_id # 0 <=> state \in Sessions
  /\ last_offer # {} <=> state = "REQUEST_SENT"
  /\ transferring # {} => state = "RESOURCE_TRANSFERRING"

\* The moves of the record that are not the end of a session.
ConnMoves ==
  \/ UNCHANGED conn
  \/ BeginSession /\ state = "IDLE"
  \/ \E some \in plan_offer(job.ids \cap unhandled) : Offer(some)
  \/ state = "REQUEST_SENT" /\ NoIdentity
  \/ /\ state = "REQUEST_SENT" /\ state' = "RESOURCE_TRANSFERRING" /\ last_offer' = {}
     /\ UNCHANGED <<session, link_id, reidentified, transferring>>
  \/ \E read \in SUBSET job.ids :
       /\ state = "RESOURCE_TRANSFERRING" /\ transferring' = read
       /\ UNCHANGED <<state, session, link_id, reidentified, last_offer>>
  \/ /\ state = "RESOURCE_TRANSFERRING" /\ state' = "LINK_READY" /\ transferring' = {}
     /\ UNCHANGED <<session, link_id, reidentified, last_offer>>
  \/ Takes("active") /\ LinkReady

LEMMA RecordMoves ==
  ASSUME [Next]_vars
  PROVE  ConnMoves \/ EndsSession
<1>0. end_sync \/ unpeer => EndsSession
  BY EndSyncEnds
<1>1. CASE start_sync
  BY <1>1 DEF start_sync, peer, ConnMoves
<1>2. CASE prepare_sync
  BY <1>0, <1>2 DEF prepare_sync, PrepareOtherwise, PreparePostponed, PrepareLink, PrepareOffer, peer, ConnMoves
<1>3. CASE send_offer
  BY <1>0, <1>3 DEF send_offer, OfferDropped, OfferEnds, peer, ConnMoves
<1>4. CASE on_offer_response
  <2>1. CASE StaleResponse
    BY <2>1 DEF StaleResponse, peer, ConnMoves
  <2>2. CASE state = "REQUEST_SENT" /\ (NoIdentity \/ NoAccess \/ Refused)
    BY <1>0, <2>2 DEF NoAccess, Refused, ConnMoves
  <2>3. CASE state = "REQUEST_SENT" /\ Wanted
    BY <1>0, <2>3 DEF Wanted, ConnMoves
  <2> QED BY <1>4, <2>1, <2>2, <2>3 DEF on_offer_response, Current
<1>5. CASE on_offer_failed \/ send_resource
  BY <1>0, <1>5 DEF on_offer_failed, send_resource, ConnMoves
<1>6. CASE send_sync_resource
  <2>1. PICK read \in SUBSET job.ids : \E missing \in SUBSET (job.ids \ read) : ReadFiles(read, missing)
    BY <1>6 DEF send_sync_resource
  <2> QED BY <1>0, <2>1 DEF ReadFiles, Current, ConnMoves
<1>7. CASE on_resource_concluded
  BY <1>0, <1>7 DEF on_resource_concluded, StaleConclusion, ResourceFailed, ResourceCompleted, Current, ConnMoves
<1>8. CASE on_link_active
  BY <1>0, <1>8 DEF on_link_active, LinkUnused, LinkNotNews, LinkReplaced, ConnMoves
<1>9. CASE on_link_down
  BY <1>0, <1>9 DEF on_link_down, ConnMoves
<1>10. CASE Node
  BY <1>0, <1>10 DEF Node, tick_sync, cull, announce_new_peer, announce_new_cost, peering_key_ground, wait_over,
     store_message, ingest_from_peer, message_leaves, StoreOnly, peer, ConnMoves
<1>11. CASE AppLinks
  BY <1>11 DEF AppLinks, LinkUp, AttemptFails, LinkCloses, LinkReopens, EarlierLinkCloses, LinksOnly, peer, ConnMoves
<1>12. CASE Peer
  BY <1>12 DEF Peer, PeerAnswers, RequestFails, ResourceConcludes, PeerOnly, peer, ConnMoves
<1>13. CASE UNCHANGED vars
  BY <1>13 DEF vars, peer, ConnMoves
<1> QED BY <1>1, <1>2, <1>3, <1>4, <1>5, <1>6, <1>7, <1>8, <1>9, <1>10, <1>11, <1>12, <1>13 DEF Next, Worker

LEMMA ConnKept == TypeInv /\ [Next]_vars => ConnOK'
<1> SUFFICES ASSUME TypeInv, [Next]_vars PROVE ConnOK'
  OBVIOUS
<1>0. ConnOK /\ MaxLinks \in Nat /\ 0 \in 0 .. MaxLinks /\ job.ids \subseteq Messages
  <2>1. ConnOK
    BY DEF TypeInv, RecordOK, ConnOK
  <2>2. job.ids \subseteq Messages
    BY DEF TypeInv, WorkerOK, Job
  <2> QED BY <2>1, <2>2, ConstantsAssumption
<1>1. CASE UNCHANGED conn
  BY <1>0, <1>1 DEF ConnOK, conn
<1>2. CASE BeginSession /\ state = "IDLE"
  <2>1. /\ state' = "LINK_ESTABLISHING" /\ session' = session + 1 /\ link_id' = 0 /\ reidentified' = FALSE
        /\ last_offer' = last_offer /\ transferring' = transferring
    BY <1>2 DEF BeginSession
  <2>2. last_offer = {} /\ transferring = {} /\ session + 1 \in Nat
    BY <1>0, <1>2 DEF ConnOK
  <2>3. state' \notin Sessions
    BY <2>1 DEF Sessions
  <2> QED BY <1>0, <2>1, <2>2, <2>3 DEF ConnOK
<1>3. ASSUME NEW some \in plan_offer(job.ids \cap unhandled), Offer(some) PROVE ConnOK'
  <2>1. /\ state = "LINK_READY" /\ state' = "REQUEST_SENT" /\ session' = session + 1 /\ last_offer' = some
        /\ UNCHANGED <<link_id, reidentified, transferring>>
    BY <1>3 DEF Offer, Current
  <2>2. some # {} /\ some \subseteq job.ids
    <3>1. some \in SUBSET ((job.ids \cap unhandled) \ OverLimit) /\ some \notin {{}}
      BY <1>3 DEF plan_offer
    <3>2. some # {}
      BY <3>1
    <3>3. some \subseteq job.ids
      BY <3>1
    <3> QED BY <3>2, <3>3
  <2>3. some \subseteq Messages
    BY <1>0, <2>2
  <2> QED BY <1>0, <2>1, <2>2, <2>3 DEF ConnOK, Sessions
<1>4. CASE state = "REQUEST_SENT" /\ NoIdentity
  BY <1>0, <1>4 DEF ConnOK, Sessions, NoIdentity
<1>5. CASE /\ state = "REQUEST_SENT" /\ state' = "RESOURCE_TRANSFERRING" /\ last_offer' = {}
           /\ UNCHANGED <<session, link_id, reidentified, transferring>>
  BY <1>0, <1>5 DEF ConnOK, Sessions
<1>6. ASSUME NEW read \in SUBSET job.ids, state = "RESOURCE_TRANSFERRING", transferring' = read,
             UNCHANGED <<state, session, link_id, reidentified, last_offer>>
      PROVE  ConnOK'
  BY <1>0, <1>6 DEF ConnOK, Sessions
<1>7. CASE /\ state = "RESOURCE_TRANSFERRING" /\ state' = "LINK_READY" /\ transferring' = {}
           /\ UNCHANGED <<session, link_id, reidentified, last_offer>>
  BY <1>0, <1>7 DEF ConnOK, Sessions
<1>8. CASE Takes("active") /\ LinkReady
  <2>1. Head(inbox) \in Events /\ Head(inbox).kind = "active"
    BY <1>8, TypesAreSorts, TakenEvent
  <2>2. held # 0 /\ held \in 0 .. MaxLinks
    BY <1>0, <1>8, <2>1 DEF LinkReady, TypeInv, WorkerOK, LinksOK
  <2>3. /\ state = "LINK_ESTABLISHING" /\ state' = "LINK_READY" /\ link_id' = held /\ reidentified' = FALSE
        /\ UNCHANGED <<session, last_offer, transferring>>
    BY <1>8 DEF LinkReady
  <2> QED BY <1>0, <2>2, <2>3 DEF ConnOK, Sessions
<1>9. CASE EndsSession
  <2>1. session' \in Nat
    BY <1>0, <1>9 DEF EndsSession, ConnOK
  <2>2. state' = "IDLE" /\ state' \notin Sessions
    BY <1>9 DEF EndsSession, Sessions
  <2>3. link_id' = 0 /\ reidentified' = FALSE /\ last_offer' = {} /\ transferring' = {}
    BY <1>9 DEF EndsSession
  <2> QED BY <1>0, <2>1, <2>2, <2>3 DEF ConnOK
<1> QED BY <1>1, <1>2, <1>3, <1>4, <1>5, <1>6, <1>7, <1>8, <1>9, RecordMoves DEF ConnMoves

LEMMA RecordKept == TypeInv /\ [Next]_vars => RecordOK'
BY ConnKept, RecordTypesKept DEF ConnOK, RecordTypes, RecordOK

LEMMA NetworkKept == TypeInv /\ [Next]_vars => NetworkOK'
<1> SUFFICES ASSUME TypeInv, [Next]_vars PROVE NetworkOK'
  OBVIOUS
<1>0. /\ NetworkOK /\ session \in Nat /\ job.ids \subseteq Messages /\ job.session \in Nat
  BY DEF TypeInv, RecordOK, WorkerOK, Job
<1>1. CASE start_sync \/ prepare_sync \/ on_offer_response \/ on_offer_failed \/ send_sync_resource
           \/ on_resource_concluded \/ on_link_active \/ on_link_down
  BY <1>0, <1>1 DEF start_sync, prepare_sync, PrepareOtherwise, PreparePostponed, PrepareLink, PrepareOffer,
     on_offer_response, on_offer_failed, send_sync_resource, on_resource_concluded, on_link_active, on_link_down,
     network, NetworkOK
<1>2. CASE send_offer
  <2>1. UNCHANGED <<resources, peer_has>>
    BY <1>2 DEF send_offer
  <2>2. ASSUME NEW some \in plan_offer(job.ids \cap unhandled), Offer(some) PROVE requests' \subseteq SentOffer
    <3>1. requests' = requests \cup {[session |-> session + 1, ids |-> some]}
      BY <2>2 DEF Offer
    <3>2. [session |-> session + 1, ids |-> some] \in SentOffer
      BY <1>0 DEF plan_offer, SentOffer
    <3> QED BY <1>0, <3>1, <3>2 DEF NetworkOK
  <2>3. CASE OfferDropped \/ OfferEnds
    BY <1>0, <2>1, <2>3 DEF OfferDropped, OfferEnds, NetworkOK
  <2> QED BY <1>0, <1>2, <2>1, <2>2, <2>3 DEF send_offer, NetworkOK
<1>3. CASE send_resource
  <2>1. UNCHANGED <<requests, peer_has>>
        /\ (resources' = resources \/ resources' = resources \cup {[session |-> job.session, ids |-> job.ids]})
    BY <1>3 DEF send_resource
  <2>2. [session |-> job.session, ids |-> job.ids] \in SentOffer
    BY <1>0 DEF SentOffer
  <2> QED BY <1>0, <2>1, <2>2 DEF NetworkOK
<1>4. CASE Node
  BY <1>0, <1>4 DEF Node, tick_sync, cull, announce_new_peer, announce_new_cost, peering_key_ground, wait_over,
     store_message, ingest_from_peer, message_leaves, StoreOnly, NodeOnly, network, NetworkOK
<1>5. CASE AppLinks
  BY <1>0, <1>5 DEF AppLinks, LinkUp, AttemptFails, LinkCloses, LinkReopens, EarlierLinkCloses, LinksOnly, network,
     NetworkOK
<1>6. ASSUME NEW r \in requests, PeerAnswers(r) \/ RequestFails(r) PROVE NetworkOK'
  <2>1. r.ids \subseteq Messages
    BY <1>0 DEF NetworkOK, SentOffer
  <2> QED BY <1>0, <1>6, <2>1 DEF PeerAnswers, RequestFails, NetworkOK
<1>7. ASSUME NEW r \in resources, NEW complete, NEW arrived, ResourceConcludes(r, complete, arrived) PROVE NetworkOK'
  <2>1. r.ids \subseteq Messages
    BY <1>0 DEF NetworkOK, SentOffer
  <2> QED BY <1>0, <1>7, <2>1 DEF ResourceConcludes, NetworkOK
<1>8. CASE UNCHANGED vars
  BY <1>0, <1>8 DEF vars, network, NetworkOK
<1> QED BY <1>1, <1>2, <1>3, <1>4, <1>5, <1>6, <1>7, <1>8 DEF Next, Worker, Peer

\* What a step does to the worker's channel: the worker takes from it, and all
\* others report to it.
LEMMA WorkerInbox ==
  ASSUME Worker
  PROVE  inbox' = inbox \/ \E kind : Takes(kind)
<1>1. CASE start_sync \/ on_offer_response \/ on_offer_failed \/ on_resource_concluded \/ on_link_active \/ on_link_down
  BY <1>1 DEF start_sync, on_offer_response, on_offer_failed, on_resource_concluded, on_link_active, on_link_down
<1>2. CASE prepare_sync \/ send_offer \/ send_sync_resource \/ send_resource
  BY <1>2 DEF prepare_sync, PrepareOtherwise, PreparePostponed, PrepareLink, PrepareOffer, Preparing, send_offer,
     send_sync_resource, send_resource
<1> QED BY <1>1, <1>2 DEF Worker

LEMMA OthersInbox ==
  ASSUME Node \/ AppLinks \/ Peer \/ UNCHANGED vars
  PROVE  \/ inbox' = inbox
         \/ inbox' = Append(inbox, [kind |-> "start"])
         \/ inbox' = Append(inbox, [kind |-> "down"])
         \/ \E l \in attempts : inbox' = Append(inbox, [kind |-> "active", link |-> l])
         \/ \E r \in requests : PeerAnswers(r) \/ RequestFails(r)
         \/ \E r \in resources : \E complete, arrived \in BOOLEAN : ResourceConcludes(r, complete, arrived)
<1>1. CASE Node
  BY <1>1 DEF Node, tick_sync, Report, cull, announce_new_peer, announce_new_cost, peering_key_ground, wait_over,
     store_message, ingest_from_peer, message_leaves, StoreOnly, worker
<1>2. CASE AppLinks
  BY <1>2 DEF AppLinks, LinkUp, Report, AttemptFails, LinkCloses, LinkReopens, EarlierLinkCloses, ReportsDown
<1>3. CASE UNCHANGED vars
  BY <1>3 DEF vars, worker
<1> QED BY <1>1, <1>2, <1>3 DEF Peer

LEMMA ReportedOK ==
  ASSUME TypeInv, NEW e \in SyncEvent, inbox' = Append(inbox, e), e.kind = "active" => e.link # 0
  PROVE  inbox' \in Seq(SyncEvent) /\ \A f \in Events' : f.kind = "active" => f.link # 0
BY TypesAreSorts, ReportedEvent DEF TypeInv, WorkerOK

LEMMA PeersEvents ==
  ASSUME TypeInv
  PROVE  /\ \A r \in requests : PeerAnswers(r) \/ RequestFails(r) =>
              \E e \in SyncEvent : e.kind \in {"response", "failed"} /\ e.session = r.session /\ inbox' = Append(inbox, e)
         /\ \A r \in resources, complete, arrived \in BOOLEAN : ResourceConcludes(r, complete, arrived) =>
              \E e \in SyncEvent : e.kind = "concluded" /\ e.session = r.session /\ inbox' = Append(inbox, e)
<1>1. ASSUME NEW r \in requests, RequestFails(r)
      PROVE  \E e \in SyncEvent : e.kind \in {"response", "failed"} /\ e.session = r.session /\ inbox' = Append(inbox, e)
  <2>1. [kind |-> "failed", session |-> r.session] \in SyncEvent
    BY DEF TypeInv, NetworkOK, SentOffer, SyncEvent
  <2> QED BY <1>1, <2>1 DEF RequestFails, Report
<1>2. ASSUME NEW r \in requests, PeerAnswers(r)
      PROVE  \E e \in SyncEvent : e.kind \in {"response", "failed"} /\ e.session = r.session /\ inbox' = Append(inbox, e)
  <2>1. r.session \in Nat /\ r.ids \subseteq Messages
    BY DEF TypeInv, NetworkOK, SentOffer
  <2>2. ASSUME NEW answer \in Refusals,
               inbox' = Append(inbox, [kind |-> "response", session |-> r.session, answer |-> answer])
        PROVE  \E e \in SyncEvent : e.kind \in {"response", "failed"} /\ e.session = r.session /\ inbox' = Append(inbox, e)
    <3>1. [kind |-> "response", session |-> r.session, answer |-> answer] \in SyncEvent
      BY <2>1 DEF SyncEvent
    <3> QED BY <2>2, <3>1
  <2>3. ASSUME NEW had \in SUBSET r.ids,
               inbox' = Append(inbox, [kind |-> "response", session |-> r.session, answer |-> "wants",
                                       wants |-> r.ids \ (peer_has \cup had)])
        PROVE  \E e \in SyncEvent : e.kind \in {"response", "failed"} /\ e.session = r.session /\ inbox' = Append(inbox, e)
    <3>1. r.ids \ (peer_has \cup had) \in SUBSET Messages
      BY <2>1
    <3>2. [kind |-> "response", session |-> r.session, answer |-> "wants",
           wants |-> r.ids \ (peer_has \cup had)] \in SyncEvent
      BY <2>1, <3>1 DEF SyncEvent
    <3> QED BY <2>3, <3>2
  <2> QED BY <1>2, <2>2, <2>3 DEF PeerAnswers, Report
<1>3. ASSUME NEW r \in resources, NEW complete \in BOOLEAN, NEW arrived \in BOOLEAN,
             ResourceConcludes(r, complete, arrived)
      PROVE  \E e \in SyncEvent : e.kind = "concluded" /\ e.session = r.session /\ inbox' = Append(inbox, e)
  <2>1. [kind |-> "concluded", session |-> r.session, complete |-> complete] \in SyncEvent
    BY DEF TypeInv, NetworkOK, SentOffer, SyncEvent
  <2> QED BY <1>3, <2>1 DEF ResourceConcludes, Report
<1> QED BY <1>1, <1>2, <1>3

LEMMA OthersReport ==
  ASSUME TypeInv, Node \/ AppLinks \/ Peer \/ UNCHANGED vars
  PROVE  \/ inbox' = inbox
         \/ \E e \in SyncEvent : (e.kind = "active" => e.link # 0) /\ inbox' = Append(inbox, e)
<1>1. [kind |-> "start"] \in SyncEvent /\ [kind |-> "down"] \in SyncEvent
  BY DEF SyncEvent
<1>2. \A l \in attempts : l # 0 /\ [kind |-> "active", link |-> l] \in SyncEvent
  BY DEF TypeInv, LinksOK, SyncEvent
<1> QED BY <1>1, <1>2, OthersInbox, PeersEvents

LEMMA InboxKept ==
  ASSUME TypeInv, [Next]_vars
  PROVE  inbox' \in Seq(SyncEvent) /\ \A e \in Events' : e.kind = "active" => e.link # 0
<1>1. CASE inbox' = inbox
  BY <1>1 DEF TypeInv, WorkerOK, Events
<1>2. ASSUME NEW kind, Takes(kind) PROVE inbox' \in Seq(SyncEvent) /\ Events' \subseteq Events
  BY <1>2, TypesAreSorts, TakenEvent
<1>3. CASE \E e \in SyncEvent : (e.kind = "active" => e.link # 0) /\ inbox' = Append(inbox, e)
  BY <1>3, ReportedOK
<1> QED BY <1>1, <1>2, <1>3, WorkerInbox, OthersReport DEF Next, TypeInv, WorkerOK

LEMMA JobKept ==
  ASSUME TypeInv, [Next]_vars
  PROVE  job' \in Job
<1>0. /\ job \in Job /\ session \in Nat /\ link_id \in Nat /\ unhandled \subseteq Messages /\ stored \subseteq Messages
      /\ job.ids \subseteq Messages
  <2>1. job \in Job /\ job.ids \subseteq Messages
    BY DEF TypeInv, WorkerOK, Job
  <2>2. session \in Nat /\ link_id \in Nat
    BY ConstantsAssumption DEF TypeInv, RecordOK
  <2>3. unhandled \subseteq Messages /\ stored \subseteq Messages
    BY DEF TypeInv, StoreOK
  <2> QED BY <2>1, <2>2, <2>3
<1>1. Idle \/ Resync => job' \in Job
  <2>1. {} \in SUBSET Messages /\ 0 \in Nat
    OBVIOUS
  <2>2. ASSUME Idle PROVE job' \in Job
    BY <2>1, <2>2 DEF Idle, DoNext, Job
  <2>3. ASSUME Resync PROVE job' \in Job
    BY <2>1, <2>3 DEF Resync, DoNext, Job
  <2> QED BY <2>2, <2>3
<1>2. ASSUME NEW step \in {"send offer", "send resource", "start resource"}, NEW l \in Nat,
             NEW ids \in SUBSET Messages, DoNext(step, session, l, ids)
      PROVE  job' \in Job
  BY <1>0, <1>2 DEF DoNext, Job
<1>3. CASE start_sync \/ send_offer \/ send_resource \/ on_offer_failed \/ on_link_active \/ on_link_down
           \/ on_resource_concluded
  BY <1>1, <1>3 DEF start_sync, send_offer, send_resource, on_offer_failed, on_link_active, LinkUnused, LinkNotNews,
     LinkReady, LinkReplaced, on_link_down, on_resource_concluded, StaleConclusion, ResourceFailed, ResourceCompleted
<1>4. CASE prepare_sync
  <2>1. CASE PrepareOffer
    <3>1. unhandled \ LowValue \in SUBSET Messages /\ 0 \in Nat
      BY <1>0
    <3> QED BY <1>2, <2>1, <3>1 DEF PrepareOffer
  <2> QED BY <1>1, <1>4, <2>1 DEF prepare_sync, PrepareOtherwise, PreparePostponed, PrepareLink
<1>5. CASE on_offer_response
  <2>1. CASE Wanted
    <3> DEFINE files == Head(inbox).wants \cap last_offer \cap stored
    <3>1. files \in SUBSET Messages /\ 0 \in Nat
      BY <1>0
    <3>2. Idle \/ DoNext("send resource", session, 0, files)
      BY <2>1 DEF Wanted
    <3> HIDE DEF files
    <3> QED BY <1>1, <1>2, <3>1, <3>2
  <2> QED BY <1>1, <1>5, <2>1 DEF on_offer_response, StaleResponse, NoIdentity, NoAccess, Refused
<1>6. CASE send_sync_resource
  <2>1. PICK read \in SUBSET job.ids : \E missing \in SUBSET (job.ids \ read) : ReadFiles(read, missing)
    BY <1>6 DEF send_sync_resource
  <2>2. Idle \/ DoNext("start resource", session, link_id, read)
    BY <2>1 DEF ReadFiles
  <2>3. read \in SUBSET Messages
    BY <1>0
  <2> QED BY <1>0, <1>1, <1>2, <2>2, <2>3
<1>7. CASE Node \/ AppLinks \/ Peer \/ UNCHANGED vars
  <2>1. job' = job
    BY <1>7 DEF Node, tick_sync, cull, announce_new_peer, announce_new_cost, peering_key_ground, wait_over,
       store_message, ingest_from_peer, message_leaves, StoreOnly, NodeOnly, worker, AppLinks, LinkUp, AttemptFails,
       LinkCloses, LinkReopens, EarlierLinkCloses, LinksOnly, Peer, PeerAnswers, RequestFails, ResourceConcludes,
       PeerOnly, vars
  <2> QED BY <1>0, <2>1
<1> QED BY <1>3, <1>4, <1>5, <1>6, <1>7 DEF Next, Worker

LEMMA TypesKept == TypeInv /\ [Next]_vars => TypeInv'
<1> SUFFICES ASSUME TypeInv, [Next]_vars PROVE TypeInv'
  OBVIOUS
<1>1. WorkerOK'
  BY InboxKept, JobKept DEF WorkerOK
<1> QED BY <1>1, RecordKept, StoreKept, LinksKept, NetworkKept DEF TypeInv

\* Types and the record's shape, for any messages and links and however often
\* the peer is added: only a session past its link has a link, only one that
\* waits for an answer an offer, only one that transfers a batch; and a mark is
\* of a stored message, handled or unhandled (PropagationPeer, end_sync and
\* mark_handled, lxmf_propagation.rs).
THEOREM SyncTypeCorrect == Spec => []TypeOK
<1>1. TypeInv => TypeOK
  BY DEF TypeInv, RecordOK, StoreOK, WorkerOK, LinksOK, NetworkOK, TypeOK
<1> QED BY InitTypes, TypesKept, <1>1, PTL DEF Spec

-----------------------------------------------------------------------------
(***************************************************************************)
(* PeerSync: an event is coming, whatever a session waits for.             *)
(***************************************************************************)

ActiveReported(l) == \E e \in Events : e.kind = "active" /\ e.link = l
DownReported == \E e \in Events : e.kind = "down"

\* The session has no link, or not the one AppLinks holds.
Unlinked == state = "LINK_ESTABLISHING" \/ (state \in Sessions /\ held # link_id)

\* A held link the session does not run on was reported up and the report still
\* waits; where none is held or being tried, a loss was.
LinkInv ==
  /\ state # "IDLE" => peered /\ tracked
  /\ held # 0 /\ state = "IDLE" => \E e \in Events : e.kind = "active"
  /\ Unlinked /\ held # 0 => ActiveReported(held)
  /\ Unlinked /\ held = 0 /\ (state = "LINK_ESTABLISHING" => attempts = {}) => DownReported

\* A session between its link and its offer is the worker's; one past it has a
\* request, an event or a job under its number, and never a conclusion before
\* it has a batch.
AnswerInv ==
  /\ state = "LINK_READY" => job.step = "prepare" \/ (job.step = "send offer" /\ job.session = session)
  /\ state = "REQUEST_SENT" =>
       \/ \E r \in requests : r.session = session
       \/ \E e \in Events : e.kind \in {"response", "failed"} /\ e.session = session
  /\ state = "RESOURCE_TRANSFERRING" =>
       \/ job.step = "send resource" /\ job.session = session
       \/ transferring # {} /\ \/ job.step = "start resource" /\ job.session = session
                               \/ \E r \in resources : r.session = session
                               \/ \E e \in Events : e.kind = "concluded" /\ e.session = session

\* What is taken is the head; all else stays.
LEMMA RestStays ==
  ASSUME Sorts, NEW kind, Takes(kind)
  PROVE  \A e \in Events : e \in Events' \/ e = Head(inbox)
<1>1. inbox \in Seq(SyncEvent) /\ inbox # <<>> /\ inbox' = Tail(inbox)
  BY DEF Sorts, Takes
<1>2. /\ Len(Tail(inbox)) = Len(inbox) - 1
      /\ \A i \in 1..Len(Tail(inbox)) : Tail(inbox)[i] = inbox[i + 1]
  BY <1>1, HeadTailProperties
<1>3. Len(inbox) \in Nat \ {0} /\ Head(inbox) = inbox[1]
  BY <1>1, EmptySeq, LenProperties
<1>4. ASSUME NEW i \in 1..Len(inbox), i # 1 PROVE inbox[i] \in Events'
  <2>1. i - 1 \in 1..Len(inbox') /\ inbox'[i - 1] = inbox[(i - 1) + 1] /\ (i - 1) + 1 = i
    BY <1>1, <1>2, <1>3, <1>4
  <2> QED BY <2>1 DEF Events
<1> QED BY <1>3, <1>4 DEF Events

LEMMA OthersTakeNothing ==
  ASSUME TypeInv, Node \/ AppLinks \/ Peer \/ UNCHANGED vars
  PROVE  Events \subseteq Events'
<1>1. inbox' = inbox => Events' = Events
  BY DEF Events
<1>2. ASSUME NEW e \in SyncEvent, inbox' = Append(inbox, e) PROVE Events' = Events \cup {e}
  BY <1>2, TypesAreSorts, ReportedEvent
<1> QED BY <1>1, <1>2, OthersReport

LEMMA InitWaits == Init => LinkInv /\ AnswerInv
BY DEF Init, LinkInv, AnswerInv, Unlinked, Sessions

\* A session that is over waits for nothing.
LEMMA NoSessionWaits ==
  ASSUME state' = "IDLE", held' = 0
  PROVE  LinkInv' /\ AnswerInv'
BY DEF LinkInv, AnswerInv, Unlinked, Sessions

LEMMA EndWaitsForNothing ==
  ASSUME end_sync \/ unpeer
  PROVE  LinkInv' /\ AnswerInv'
<1>1. state' = "IDLE" /\ held' = 0
  BY DEF end_sync, unpeer, EndSession, close_link, LetGo
<1> QED BY <1>1, NoSessionWaits

\* Steps that take nothing from the channel and leave the session as it is.
LEMMA QuietLinks ==
  ASSUME LinkInv, Events \subseteq Events', UNCHANGED <<conn, held, attempts, tracked>>, peered => peered'
  PROVE  LinkInv'
BY DEF LinkInv, Unlinked, ActiveReported, DownReported, conn

LEMMA QuietAnswers ==
  ASSUME AnswerInv, Events \subseteq Events', UNCHANGED <<conn, job, requests, resources>>
  PROVE  AnswerInv'
BY DEF AnswerInv, conn

\* A report or nothing is taken, and the session stays as it is: what it waits
\* for is not what was taken.
LEMMA TakesOther ==
  ASSUME TypeInv, LinkInv, AnswerInv, NEW kind, Takes(kind), UNCHANGED <<peered, conn, appLinks, network>>,
         kind = "active" => state # "IDLE" /\ (Head(inbox).link # held \/ ~Unlinked),
         kind = "down" => ~(Unlinked /\ held = 0 /\ (state = "LINK_ESTABLISHING" => attempts = {})),
         kind \in {"response", "failed"} => ~(state = "REQUEST_SENT" /\ Head(inbox).session = session),
         kind = "concluded" => ~(state = "RESOURCE_TRANSFERRING" /\ Head(inbox).session = session)
                               \/ transferring = {}
  PROVE  LinkInv' /\ AnswerInv'
<1>1. Head(inbox).kind = kind /\ job.step = "idle" /\ \A e \in Events : e \in Events' \/ e = Head(inbox)
  BY TypesAreSorts, TakenEvent, RestStays
<1>2. UNCHANGED <<state, session, link_id, last_offer, transferring, held, attempts, tracked, requests, resources>>
  BY DEF conn, appLinks, network
<1>3. ASSUME held # 0, state = "IDLE" PROVE \E e \in Events' : e.kind = "active"
  BY <1>1, <1>3 DEF LinkInv
<1>4. ASSUME Unlinked, held # 0 PROVE ActiveReported(held)'
  BY <1>1, <1>2, <1>4 DEF LinkInv, ActiveReported
<1>5. ASSUME Unlinked, held = 0, state = "LINK_ESTABLISHING" => attempts = {} PROVE DownReported'
  BY <1>1, <1>5 DEF LinkInv, DownReported
<1>6. LinkInv'
  BY <1>2, <1>3, <1>4, <1>5 DEF LinkInv, Unlinked
<1>7. state # "LINK_READY"
  BY <1>1 DEF AnswerInv
<1>8. AnswerInv'
  BY <1>1, <1>2, <1>7 DEF AnswerInv
<1> QED BY <1>6, <1>8

\* A session past its link keeps it.
LEMMA SameLink ==
  ASSUME LinkInv, state \in Sessions, state' \in Sessions, UNCHANGED <<peered, link_id, held, tracked>>,
         \A e \in Events : e.kind \in {"active", "down"} => e \in Events'
  PROVE  LinkInv'
BY DEF LinkInv, Unlinked, ActiveReported, DownReported, Sessions

\* The worker's job was not the session's.
LEMMA OtherJob ==
  ASSUME AnswerInv, Events \subseteq Events', UNCHANGED <<conn, requests, resources>>, state # "LINK_READY",
         state = "RESOURCE_TRANSFERRING" /\ job.session = session => job.step \notin {"send resource", "start resource"}
  PROVE  AnswerInv'
BY DEF AnswerInv, conn

-----------------------------------------------------------------------------

Waiting == TypeInv /\ LinkInv /\ AnswerInv

LEMMA SessionsPeer == ASSUME LinkInv, state # "IDLE" PROVE peered /\ tracked
BY DEF LinkInv

LEMMA StartWaits ==
  ASSUME Waiting, start_sync
  PROVE  LinkInv' /\ AnswerInv'
<1>1. Takes("start") /\ UNCHANGED <<peered, conn, appLinks, network>>
  BY DEF start_sync, peer
<1> QED BY <1>1, TakesOther DEF Waiting

LEMMA PrepareWaits ==
  ASSUME Waiting, prepare_sync
  PROVE  LinkInv' /\ AnswerInv'
<1>1. job.step = "prepare" /\ Events' = Events
  BY DEF prepare_sync, PrepareOtherwise, PreparePostponed, PrepareLink, PrepareOffer, Preparing, Events
<1>2. CASE PrepareOtherwise
  <2>1. state # "LINK_READY"
    BY <1>2, SessionsPeer DEF PrepareOtherwise, Waiting
  <2>2. UNCHANGED <<conn, peered, held, attempts, tracked, requests, resources>>
    BY <1>2 DEF PrepareOtherwise, peer, appLinks, network
  <2> QED BY <1>1, <2>1, <2>2, QuietLinks, OtherJob DEF Waiting
<1>3. CASE PreparePostponed
  <2>1. CASE state = "LINK_READY" /\ end_sync
    BY <2>1, EndWaitsForNothing
  <2>2. CASE state = "IDLE" /\ UNCHANGED <<conn, appLinks>>
    <3>1. UNCHANGED <<conn, peered, held, attempts, tracked, requests, resources>>
      BY <1>3, <2>2 DEF PreparePostponed, appLinks, network
    <3> QED BY <1>1, <2>2, <3>1, QuietLinks, OtherJob DEF Waiting
  <2> QED BY <1>3, <2>1, <2>2 DEF PreparePostponed
<1>4. CASE PrepareLink
  <2>1. /\ state' = "LINK_ESTABLISHING" /\ peered' /\ tracked' /\ held' = 0
        /\ attempts' = attempts \cup {links + 1}
    BY <1>4 DEF PrepareLink, BeginSession, open_link, LetGo
  <2> QED BY <2>1 DEF LinkInv, AnswerInv, Unlinked, Sessions
<1>5. CASE PrepareOffer
  <2>1. UNCHANGED <<conn, peered, held, attempts, tracked, requests, resources>>
    BY <1>5 DEF PrepareOffer, peer, appLinks, network
  <2>2. state' = "LINK_READY" /\ job'.step = "send offer" /\ job'.session = session'
    BY <1>5, <2>1 DEF PrepareOffer, DoNext, conn
  <2>3. LinkInv'
    BY <1>1, <2>1, QuietLinks DEF Waiting
  <2> QED BY <2>2, <2>3 DEF AnswerInv
<1> QED BY <1>2, <1>3, <1>4, <1>5 DEF prepare_sync

LEMMA OfferWaits ==
  ASSUME Waiting, send_offer
  PROVE  LinkInv' /\ AnswerInv'
<1>1. job.step = "send offer" /\ Events' = Events /\ UNCHANGED resources
  BY DEF send_offer, Events
<1>2. CASE OfferDropped
  <2>1. state # "LINK_READY"
    BY <1>1, <1>2, SessionsPeer DEF Waiting, AnswerInv, OfferDropped, Current
  <2>2. UNCHANGED <<conn, peered, held, attempts, tracked, requests, resources>>
    BY <1>1, <1>2 DEF OfferDropped, peer, appLinks
  <2> QED BY <1>1, <2>1, <2>2, QuietLinks, OtherJob DEF Waiting
<1>3. CASE OfferEnds
  BY <1>3, EndWaitsForNothing DEF OfferEnds
<1>4. ASSUME NEW some \in plan_offer(job.ids \cap unhandled), Offer(some) PROVE LinkInv' /\ AnswerInv'
  <2>1. /\ state = "LINK_READY" /\ state' = "REQUEST_SENT" /\ session' = session + 1
        /\ requests' = requests \cup {[session |-> session + 1, ids |-> some]}
        /\ UNCHANGED <<peered, link_id, held, tracked>>
    BY <1>4 DEF Offer, Current, appLinks
  <2>2. LinkInv'
    BY <1>1, <2>1, SameLink DEF Waiting, Sessions
  <2>3. [session |-> session + 1, ids |-> some] \in requests'
        /\ [session |-> session + 1, ids |-> some].session = session'
    BY <2>1
  <2>4. AnswerInv'
    BY <2>1, <2>3 DEF AnswerInv
  <2> QED BY <2>2, <2>4
<1> QED BY <1>2, <1>3, <1>4 DEF send_offer

LEMMA ResponseWaits ==
  ASSUME Waiting, on_offer_response
  PROVE  LinkInv' /\ AnswerInv'
<1>1. Takes("response") /\ UNCHANGED network
  BY DEF on_offer_response
<1>2. \A e \in Events : e.kind \in {"active", "down"} => e \in Events'
  BY <1>1, TypesAreSorts, TakenEvent, RestStays DEF Waiting
<1>3. CASE StaleResponse
  <2>1. ~(state = "REQUEST_SENT" /\ Head(inbox).session = session)
    BY <1>3, SessionsPeer DEF StaleResponse, Current, Waiting
  <2>2. UNCHANGED <<peered, conn, appLinks, network>>
    BY <1>1, <1>3 DEF StaleResponse, peer
  <2> QED BY <1>1, <2>1, <2>2, TakesOther DEF Waiting
<1>4. CASE state = "REQUEST_SENT" /\ NoIdentity
  <2>1. /\ state' = "LINK_READY" /\ job'.step = "prepare"
        /\ UNCHANGED <<peered, link_id, held, tracked>>
    BY <1>4 DEF NoIdentity, Resync, DoNext, appLinks
  <2>2. LinkInv'
    BY <1>2, <1>4, <2>1, SameLink DEF Waiting, Sessions
  <2> QED BY <2>1, <2>2 DEF AnswerInv
<1>5. CASE NoAccess \/ Refused
  BY <1>5, EndWaitsForNothing DEF NoAccess, Refused
<1>6. CASE state = "REQUEST_SENT" /\ Wanted
  <2>1. CASE end_sync
    BY <2>1, EndWaitsForNothing
  <2>2. ASSUME ~end_sync PROVE LinkInv' /\ AnswerInv'
    <3> DEFINE files == Head(inbox).wants \cap last_offer \cap stored
    <3>0. /\ state' = "RESOURCE_TRANSFERRING" /\ DoNext("send resource", session, 0, files) /\ UNCHANGED peered
          /\ UNCHANGED <<session, link_id, reidentified, transferring, appLinks>>
      BY <1>6, <2>2 DEF Wanted
    <3> HIDE DEF files
    <3>1. /\ state' = "RESOURCE_TRANSFERRING" /\ job'.step = "send resource" /\ job'.session = session
          /\ session' = session /\ UNCHANGED <<peered, link_id, held, tracked>>
      BY <3>0 DEF DoNext, appLinks
    <3>2. LinkInv'
      BY <1>2, <1>6, <3>1, SameLink DEF Waiting, Sessions
    <3> QED BY <3>1, <3>2 DEF AnswerInv
  <2> QED BY <2>1, <2>2
<1> QED BY <1>3, <1>4, <1>5, <1>6 DEF on_offer_response, Current

LEMMA FailedWaits ==
  ASSUME Waiting, on_offer_failed
  PROVE  LinkInv' /\ AnswerInv'
<1>1. CASE end_sync
  BY <1>1, EndWaitsForNothing
<1>2. ASSUME ~end_sync PROVE LinkInv' /\ AnswerInv'
  <2>1. Takes("failed") /\ UNCHANGED <<peered, conn, appLinks, network>>
    BY <1>2 DEF on_offer_failed
  <2>2. ~(state = "REQUEST_SENT" /\ Head(inbox).session = session)
    BY <1>2, SessionsPeer DEF on_offer_failed, Current, Waiting
  <2> QED BY <2>1, <2>2, TakesOther DEF Waiting
<1> QED BY <1>1, <1>2

LEMMA FilesWaits ==
  ASSUME Waiting, send_sync_resource
  PROVE  LinkInv' /\ AnswerInv'
<1>1. job.step = "send resource" /\ Events' = Events /\ UNCHANGED <<peered, requests, resources>>
  BY DEF send_sync_resource, Events, network
<1>2. PICK read \in SUBSET job.ids : \E missing \in SUBSET (job.ids \ read) : ReadFiles(read, missing)
  BY DEF send_sync_resource
<1>3. state # "LINK_READY"
  BY <1>1 DEF Waiting, AnswerInv
<1>4. CASE ~Current("RESOURCE_TRANSFERRING", job.session)
  <2>1. UNCHANGED <<conn, held, attempts, tracked>>
    BY <1>2, <1>4 DEF ReadFiles, appLinks
  <2>2. ~(state = "RESOURCE_TRANSFERRING" /\ job.session = session)
    BY <1>4, SessionsPeer DEF Current, Waiting
  <2> QED BY <1>1, <1>3, <2>1, <2>2, QuietLinks, OtherJob DEF Waiting
<1>5. CASE end_sync
  BY <1>5, EndWaitsForNothing
<1>6. ASSUME Current("RESOURCE_TRANSFERRING", job.session), ~end_sync PROVE LinkInv' /\ AnswerInv'
  <2>0. /\ read # {} /\ transferring' = read /\ DoNext("start resource", session, link_id, read)
        /\ UNCHANGED <<state, session, link_id, reidentified, last_offer, appLinks>>
    BY <1>2, <1>6 DEF ReadFiles
  <2>1. /\ read # {} /\ transferring' = read /\ job'.step = "start resource" /\ job'.session = session
        /\ UNCHANGED <<state, session, link_id, held, tracked>> /\ state = "RESOURCE_TRANSFERRING"
    BY <1>6, <2>0 DEF DoNext, appLinks, Current
  <2>2. LinkInv'
    BY <1>1, <2>1, SameLink DEF Waiting, Sessions
  <2> QED BY <2>1, <2>2 DEF AnswerInv
<1> QED BY <1>4, <1>5, <1>6

LEMMA ResourceWaits ==
  ASSUME Waiting, send_resource
  PROVE  LinkInv' /\ AnswerInv'
<1>1. job.step = "start resource" /\ Events' = Events /\ UNCHANGED <<peered, requests>>
  BY DEF send_resource, Events
<1>2. state # "LINK_READY"
  BY <1>1 DEF Waiting, AnswerInv
<1>3. CASE end_sync
  BY <1>3, EndWaitsForNothing
<1>4. CASE held = job.link
  <2>1. /\ resources' = resources \cup {[session |-> job.session, ids |-> job.ids]}
        /\ UNCHANGED <<conn, held, attempts, tracked>>
    BY <1>4 DEF send_resource, appLinks
  <2>2. LinkInv'
    BY <1>1, <2>1, QuietLinks DEF Waiting
  <2>3. UNCHANGED <<state, session, transferring>>
    BY <2>1 DEF conn
  <2>4. ASSUME state = "RESOURCE_TRANSFERRING"
        PROVE  transferring # {} /\ \/ \E r \in resources' : r.session = session
                                    \/ \E e \in Events : e.kind = "concluded" /\ e.session = session
    <3>1. transferring # {} /\ \/ job.session = session
                               \/ \E r \in resources : r.session = session
                               \/ \E e \in Events : e.kind = "concluded" /\ e.session = session
      BY <1>1, <2>4 DEF Waiting, AnswerInv
    <3>2. [session |-> job.session, ids |-> job.ids] \in resources'
          /\ [session |-> job.session, ids |-> job.ids].session = job.session
      BY <2>1
    <3> QED BY <2>1, <3>1, <3>2
  <2>5. AnswerInv'
    BY <1>1, <1>2, <2>3, <2>4 DEF Waiting, AnswerInv
  <2> QED BY <2>2, <2>5
<1>5. ASSUME held # job.link, ~end_sync PROVE LinkInv' /\ AnswerInv'
  <2>1. UNCHANGED <<conn, held, attempts, tracked, resources>> /\ ~Current("RESOURCE_TRANSFERRING", job.session)
    BY <1>5 DEF send_resource, appLinks
  <2>2. ~(state = "RESOURCE_TRANSFERRING" /\ job.session = session)
    BY <2>1, SessionsPeer DEF Current, Waiting
  <2> QED BY <1>1, <1>2, <2>1, <2>2, QuietLinks, OtherJob DEF Waiting
<1> QED BY <1>3, <1>4, <1>5

LEMMA ConcludedWaits ==
  ASSUME Waiting, on_resource_concluded
  PROVE  LinkInv' /\ AnswerInv'
<1>1. Takes("concluded") /\ UNCHANGED <<peered, network>>
  BY DEF on_resource_concluded
<1>2. \A e \in Events : e.kind \in {"active", "down"} => e \in Events'
  BY <1>1, TypesAreSorts, TakenEvent, RestStays DEF Waiting
<1>3. CASE StaleConclusion
  <2>1. ~(state = "RESOURCE_TRANSFERRING" /\ Head(inbox).session = session) \/ transferring = {}
    BY <1>3, SessionsPeer DEF StaleConclusion, Current, Waiting
  <2>2. UNCHANGED <<peered, conn, appLinks, network>>
    BY <1>1, <1>3 DEF StaleConclusion
  <2> QED BY <1>1, <2>1, <2>2, TakesOther DEF Waiting
<1>4. CASE end_sync
  BY <1>4, EndWaitsForNothing
<1>5. ASSUME state = "RESOURCE_TRANSFERRING", ResourceCompleted, ~end_sync PROVE LinkInv' /\ AnswerInv'
  <2>1. state' = "LINK_READY" /\ job'.step = "prepare" /\ UNCHANGED <<link_id, held, tracked>>
    BY <1>5 DEF ResourceCompleted, Resync, DoNext, appLinks
  <2>2. LinkInv'
    BY <1>1, <1>2, <1>5, <2>1, SameLink DEF Waiting, Sessions
  <2> QED BY <2>1, <2>2 DEF AnswerInv
<1> QED BY <1>3, <1>4, <1>5 DEF on_resource_concluded, ResourceFailed, Current

LEMMA LinkActiveWaits ==
  ASSUME Waiting, on_link_active
  PROVE  LinkInv' /\ AnswerInv'
<1>1. Takes("active") /\ UNCHANGED <<peered, network>>
  BY DEF on_link_active
<1>2. CASE LinkUnused
  <2>1. state' = "IDLE" /\ held' = 0
    BY <1>2, SessionsPeer DEF LinkUnused, close_link, LetGo, conn, Waiting
  <2> QED BY <2>1, NoSessionWaits
<1>3. CASE LinkNotNews
  <2>1. UNCHANGED <<peered, conn, appLinks, network>>
    BY <1>1, <1>3 DEF LinkNotNews
  <2>2. state # "IDLE" /\ (Head(inbox).link # held \/ ~Unlinked)
    BY <1>3 DEF LinkNotNews, Unlinked
  <2> QED BY <1>1, <2>1, <2>2, TakesOther DEF Waiting
<1>4. CASE LinkReady
  <2>1. /\ state = "LINK_ESTABLISHING" /\ state' = "LINK_READY" /\ job'.step = "prepare"
        /\ link_id' = held /\ UNCHANGED <<held, tracked>>
    BY <1>4 DEF LinkReady, Resync, DoNext, appLinks
  <2>2. peered' /\ tracked'
    BY <1>1, <2>1, SessionsPeer DEF Waiting
  <2> QED BY <2>1, <2>2 DEF LinkInv, AnswerInv, Unlinked
<1>5. CASE LinkReplaced
  BY <1>5, EndWaitsForNothing DEF LinkReplaced
<1> QED BY <1>2, <1>3, <1>4, <1>5 DEF on_link_active

LEMMA LinkDownWaits ==
  ASSUME Waiting, on_link_down
  PROVE  LinkInv' /\ AnswerInv'
<1>1. CASE LinkGone
  BY <1>1, EndWaitsForNothing DEF on_link_down
<1>2. CASE ~LinkGone
  <2>1. Takes("down") /\ UNCHANGED <<peered, conn, appLinks, network>>
    BY <1>2 DEF on_link_down
  <2>2. ASSUME Unlinked, held = 0, state = "LINK_ESTABLISHING" => attempts = {} PROVE FALSE
    <3>1. state # "IDLE" /\ peered
      BY <2>2, SessionsPeer DEF Unlinked, Sessions, Waiting
    <3> QED BY <1>2, <2>2, <3>1 DEF Unlinked, LinkGone, Sessions
  <2> QED BY <2>1, <2>2, TakesOther DEF Waiting
<1> QED BY <1>1, <1>2

LEMMA NodeWaits ==
  ASSUME Waiting, Node
  PROVE  LinkInv' /\ AnswerInv'
<1>1. Events \subseteq Events'
  BY OthersTakeNothing DEF Waiting
<1>2. CASE cull
  BY <1>2, EndWaitsForNothing DEF cull
<1>3. CASE tick_sync \/ announce_new_peer \/ announce_new_cost \/ peering_key_ground \/ wait_over
  <2>1. UNCHANGED <<conn, held, attempts, tracked, job, requests, resources>> /\ (peered => peered')
    <3>1. UNCHANGED <<links, attempts, job, network>>
      BY <1>3 DEF tick_sync, announce_new_peer, announce_new_cost, peering_key_ground, wait_over, NodeOnly
    <3>2. UNCHANGED <<conn, held, tracked>>
      BY <1>3 DEF tick_sync, announce_new_peer, announce_new_cost, peering_key_ground, wait_over, peer
    <3>3. peered' = TRUE \/ peered' = peered
      BY <1>3 DEF tick_sync, announce_new_peer, announce_new_cost, peering_key_ground, wait_over, peer
    <3>4. peered => peered'
      BY <3>3
    <3> QED BY <3>1, <3>2, <3>4 DEF network
  <2> QED BY <1>1, <2>1, QuietLinks, QuietAnswers DEF Waiting
<1>4. ASSUME NEW m \in Messages, store_message(m) \/ ingest_from_peer(m) \/ message_leaves(m) PROVE LinkInv' /\ AnswerInv'
  <2>1. UNCHANGED <<conn, held, attempts, tracked, job, requests, resources, peered>>
    BY <1>4 DEF store_message, ingest_from_peer, message_leaves, StoreOnly, peer, worker, appLinks
  <2> QED BY <1>1, <2>1, QuietLinks, QuietAnswers DEF Waiting
<1> QED BY <1>2, <1>3, <1>4 DEF Node

LEMMA TriesAndLosses ==
  ASSUME Waiting, LinkCloses \/ EarlierLinkCloses \/ \E l \in attempts : AttemptFails(l)
  PROVE  LinkInv'
<1>1. Events \subseteq Events' /\ UNCHANGED <<conn, peered, tracked>> /\ held' \in {held, 0}
  <2>1. Events \subseteq Events'
    BY OthersTakeNothing DEF Waiting, AppLinks
  <2> QED BY <2>1 DEF LinkCloses, EarlierLinkCloses, AttemptFails, LinksOnly, peer
<1>2. UNCHANGED <<state, link_id>>
  BY <1>1 DEF conn
<1>3. tracked => DownReported'
  <2>1. [kind |-> "down"] \in SyncEvent
    BY DEF SyncEvent
  <2>2. tracked => inbox' = Append(inbox, [kind |-> "down"])
    BY DEF LinkCloses, EarlierLinkCloses, AttemptFails, ReportsDown
  <2>3. tracked => [kind |-> "down"] \in Events'
    BY <2>1, <2>2, TypesAreSorts, ReportedEvent DEF Waiting
  <2> QED BY <2>3 DEF DownReported
<1>4. state # "IDLE" => DownReported' /\ peered' /\ tracked'
  BY <1>1, <1>3, SessionsPeer DEF Waiting
<1>5. state = "IDLE" => ~Unlinked
  BY DEF Unlinked, Sessions
<1>6. ASSUME held' # 0 PROVE held' = held
  BY <1>1, <1>6
<1>7. Unlinked' => state # "IDLE"
  BY <1>2 DEF Unlinked, Sessions
<1>8. ASSUME held' # 0, state = "IDLE" PROVE \E e \in Events' : e.kind = "active"
  BY <1>1, <1>6, <1>8 DEF Waiting, LinkInv
<1>9. ASSUME held' # 0, Unlinked' PROVE ActiveReported(held)'
  <2>1. held' = held /\ Unlinked
    BY <1>2, <1>6, <1>9 DEF Unlinked
  <2>2. PICK e \in Events : e.kind = "active" /\ e.link = held
    BY <1>9, <2>1 DEF Waiting, LinkInv, ActiveReported
  <2> QED BY <1>1, <2>1, <2>2 DEF ActiveReported
<1> QED BY <1>2, <1>4, <1>7, <1>8, <1>9 DEF LinkInv

LEMMA AppLinksWait ==
  ASSUME Waiting, AppLinks
  PROVE  LinkInv' /\ AnswerInv'
<1>1. Events \subseteq Events' /\ UNCHANGED <<conn, peered, job, requests, resources>>
  <2>1. Events \subseteq Events'
    BY OthersTakeNothing DEF Waiting
  <2> QED BY <2>1 DEF AppLinks, LinkUp, AttemptFails, LinkCloses, LinkReopens, EarlierLinkCloses, LinksOnly, peer, network
<1>2. AnswerInv'
  BY <1>1, QuietAnswers DEF Waiting
<1>3. UNCHANGED <<state, link_id>>
  BY <1>1 DEF conn
<1>4. ASSUME NEW l \in attempts, LinkUp(l) PROVE LinkInv'
  <2>1. held' = l /\ tracked' = tracked /\ inbox' = Append(inbox, [kind |-> "active", link |-> l])
    BY <1>4 DEF LinkUp, LetGo, Report
  <2>2. l # 0 /\ [kind |-> "active", link |-> l] \in SyncEvent
    BY DEF Waiting, TypeInv, LinksOK, SyncEvent
  <2>3. [kind |-> "active", link |-> l] \in Events'
    BY <2>1, <2>2, TypesAreSorts, ReportedEvent DEF Waiting
  <2>4. ActiveReported(l)'
    BY <2>3 DEF ActiveReported
  <2>5. ActiveReported(held)' /\ \E e \in Events' : e.kind = "active"
    BY <2>1, <2>4 DEF ActiveReported
  <2> QED BY <1>1, <1>3, <2>1, <2>2, <2>5, SessionsPeer DEF LinkInv, Waiting
<1>5. CASE LinkReopens
  <2>1. held = 0 /\ held' = 0 /\ tracked' = tracked /\ attempts' # {}
    BY <1>5 DEF LinkReopens
  <2>2. (Unlinked' => Unlinked) /\ (Unlinked => state # "IDLE")
    BY <1>3, <2>1 DEF Unlinked, Sessions
  <2>3. Unlinked /\ state # "LINK_ESTABLISHING" => DownReported'
    BY <1>1, <2>1 DEF Waiting, LinkInv, DownReported
  <2>4. state # "IDLE" => peered' /\ tracked'
    BY <1>1, <2>1, SessionsPeer DEF Waiting
  <2>5. Unlinked' /\ held' = 0 /\ (state' = "LINK_ESTABLISHING" => attempts' = {}) => DownReported'
    BY <1>3, <2>1, <2>2, <2>3
  <2>6. held' = 0 /\ state' = state
    BY <1>3, <2>1
  <2> QED BY <1>2, <2>4, <2>5, <2>6 DEF LinkInv
<1> QED BY <1>2, <1>4, <1>5, TriesAndLosses DEF AppLinks

LEMMA PeerWaits ==
  ASSUME Waiting, Peer
  PROVE  LinkInv' /\ AnswerInv'
<1>1. Events \subseteq Events' /\ UNCHANGED <<conn, peered, job, held, attempts, tracked>>
  <2>1. Events \subseteq Events'
    BY OthersTakeNothing DEF Waiting
  <2> QED BY <2>1 DEF Peer, PeerAnswers, RequestFails, ResourceConcludes, PeerOnly, peer, appLinks
<1>2. LinkInv'
  BY <1>1, QuietLinks DEF Waiting
<1>3. UNCHANGED <<state, session, transferring>>
  BY <1>1 DEF conn
<1>4. ASSUME NEW r \in requests, PeerAnswers(r) \/ RequestFails(r) PROVE AnswerInv'
  <2>1. PICK e \in SyncEvent : e.kind \in {"response", "failed"} /\ e.session = r.session /\ inbox' = Append(inbox, e)
    BY <1>4, PeersEvents DEF Waiting
  <2>2. e \in Events'
    BY <2>1, TypesAreSorts, ReportedEvent DEF Waiting
  <2>3. requests' = requests \ {r} /\ resources' = resources
    BY <1>4 DEF PeerAnswers, RequestFails
  <2>4. ASSUME state = "REQUEST_SENT"
        PROVE  \/ \E s \in requests' : s.session = session
               \/ \E f \in Events' : f.kind \in {"response", "failed"} /\ f.session = session
    <3>1. CASE \E s \in requests : s.session = session
      BY <2>1, <2>2, <2>3, <3>1
    <3>2. CASE \E f \in Events : f.kind \in {"response", "failed"} /\ f.session = session
      BY <1>1, <3>2
    <3> QED BY <2>4, <3>1, <3>2 DEF Waiting, AnswerInv
  <2> QED BY <1>1, <1>3, <2>3, <2>4 DEF Waiting, AnswerInv
<1>5. ASSUME NEW r \in resources, NEW complete \in BOOLEAN, NEW arrived \in BOOLEAN,
             ResourceConcludes(r, complete, arrived)
      PROVE  AnswerInv'
  <2>1. PICK e \in SyncEvent : e.kind = "concluded" /\ e.session = r.session /\ inbox' = Append(inbox, e)
    BY <1>5, PeersEvents DEF Waiting
  <2>2. e \in Events'
    BY <2>1, TypesAreSorts, ReportedEvent DEF Waiting
  <2>3. resources' = resources \ {r} /\ requests' = requests
    BY <1>5 DEF ResourceConcludes
  <2>4. ASSUME \/ \E s \in resources : s.session = session
               \/ \E f \in Events : f.kind = "concluded" /\ f.session = session
        PROVE  \/ \E s \in resources' : s.session = session
               \/ \E f \in Events' : f.kind = "concluded" /\ f.session = session
    <3>1. CASE \E s \in resources : s.session = session
      BY <2>1, <2>2, <2>3, <3>1
    <3>2. CASE \E f \in Events : f.kind = "concluded" /\ f.session = session
      BY <1>1, <3>2
    <3> QED BY <2>4, <3>1, <3>2
  <2> QED BY <1>1, <1>3, <2>3, <2>4 DEF Waiting, AnswerInv
<1> QED BY <1>2, <1>4, <1>5 DEF Peer

LEMMA WaitsKept == Waiting /\ [Next]_vars => Waiting'
<1> SUFFICES ASSUME Waiting, [Next]_vars PROVE Waiting'
  OBVIOUS
<1>1. ASSUME Worker PROVE LinkInv' /\ AnswerInv'
  BY <1>1, StartWaits, PrepareWaits, OfferWaits, ResponseWaits, FailedWaits, FilesWaits, ResourceWaits,
     ConcludedWaits, LinkActiveWaits, LinkDownWaits DEF Worker
<1>2. ASSUME UNCHANGED vars PROVE LinkInv' /\ AnswerInv'
  <2>1. UNCHANGED <<conn, held, attempts, tracked, job, requests, resources, peered>>
    BY <1>2 DEF vars, peer, worker, appLinks, network
  <2>2. Events \subseteq Events'
    BY <1>2, OthersTakeNothing DEF Waiting
  <2> QED BY <2>1, <2>2, QuietLinks, QuietAnswers DEF Waiting
<1>3. TypeInv'
  BY TypesKept DEF Waiting
<1> QED BY <1>1, <1>2, <1>3, NodeWaits, AppLinksWait, PeerWaits DEF Next, Waiting

LEMMA WaitInvariance == Spec => []Waiting
<1>1. Init => Waiting
  BY InitTypes, InitWaits DEF Waiting
<1> QED BY <1>1, WaitsKept, PTL DEF Spec

LEMMA ReportedIsEvent == \A kind : Reported(kind) <=> \E e \in Events : e.kind = kind
BY DEF Reported, Events

\* A session whose link is gone, or replaced, has the report of it still to come:
\* it never runs on without hearing of the loss (on_link_down and on_link_active,
\* lxmf_propagation.rs).
THEOREM LossIsTold == Spec => []LossIsReported
<1>1. Waiting => LossIsReported
  <2> SUFFICES ASSUME Waiting, state \in Sessions, held # link_id
               PROVE  Reported("down") \/ Reported("active")
    BY DEF LossIsReported
  <2>1. Unlinked /\ state # "LINK_ESTABLISHING"
    BY DEF Unlinked, Sessions
  <2>2. ActiveReported(held) \/ DownReported
    BY <2>1 DEF Waiting, LinkInv
  <2> QED BY <2>2, ReportedIsEvent DEF ActiveReported, DownReported
<1> QED BY <1>1, WaitInvariance, PTL

\* A link that is up for a peer without a session has its report still to come,
\* at which it is closed, however late the attempt came up (on_link_active and
\* end_sync, lxmf_propagation.rs).
THEOREM NoLinkLingers == Spec => []NoUnusedLink
<1>1. Waiting => NoUnusedLink
  <2> SUFFICES ASSUME Waiting, held # 0, state = "IDLE" PROVE Reported("active")
    BY DEF NoUnusedLink, Reported
  <2> QED BY ReportedIsEvent DEF Waiting, LinkInv
<1> QED BY <1>1, WaitInvariance, PTL

\* Whatever a session waits for, something on its way ends the wait: an attempt
\* or a report of its link, the worker's own job, a request or a Resource under
\* its number, or the event that concludes it.  So no peer is stuck in a state
\* the tick never leaves (tick_sync starts a session only from IDLE,
\* lxmf_propagation.rs).
THEOREM NoWaitHangs == Spec => []EveryWaitIsAnswered
<1>1. Waiting => EveryWaitIsAnswered
  <2> SUFFICES ASSUME Waiting PROVE EveryWaitIsAnswered
    OBVIOUS
  <2>1. CASE state = "LINK_ESTABLISHING"
    <3>1. attempts # {} \/ ActiveReported(held) \/ DownReported
      BY <2>1 DEF Unlinked, Waiting, LinkInv
    <3>2. attempts # {} \/ Reported("active") \/ Reported("down")
      BY <3>1, ReportedIsEvent DEF ActiveReported, DownReported
    <3> QED BY <2>1, <3>2 DEF EveryWaitIsAnswered
  <2>2. CASE state = "LINK_READY"
    BY <2>2 DEF Waiting, AnswerInv, EveryWaitIsAnswered
  <2>3. CASE state = "REQUEST_SENT"
    <3>1. \/ \E r \in requests : r.session = session
          \/ \E i \in 1 .. Len(inbox) : inbox[i].kind \in {"response", "failed"} /\ inbox[i].session = session
      BY <2>3 DEF Waiting, AnswerInv, Events
    <3> QED BY <2>3, <3>1 DEF EveryWaitIsAnswered
  <2>4. CASE state = "RESOURCE_TRANSFERRING"
    <3>1. \/ job.step \in {"send resource", "start resource"} /\ job.session = session
          \/ \E r \in resources : r.session = session
          \/ \E i \in 1 .. Len(inbox) : inbox[i].kind = "concluded" /\ inbox[i].session = session
      BY <2>4 DEF Waiting, AnswerInv, Events
    <3> QED BY <2>4, <3>1 DEF EveryWaitIsAnswered
  <2>5. CASE state = "IDLE"
    BY <2>5 DEF EveryWaitIsAnswered
  <2> QED BY <2>1, <2>2, <2>3, <2>4, <2>5 DEF Waiting, TypeInv, RecordOK, Sessions
<1> QED BY <1>1, WaitInvariance, PTL

=============================================================================
