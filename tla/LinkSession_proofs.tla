-------------------------- MODULE LinkSession_proofs --------------------------
(***************************************************************************)
(* For any devices, channels and links: a registry has one session of a    *)
(* device at a time, so that a push is tried on one link only and is not   *)
(* both acknowledged and deferred; and no session of a link that is up     *)
(* goes but for one that its device binds.                                 *)
(***************************************************************************)
EXTENDS LinkSession, TLAPS

-----------------------------------------------------------------------------
(***************************************************************************)
(* Sessions.                                                               *)
(***************************************************************************)

\* What binding works on: the sorts of the tables, and that a registry has one
\* session for a link and one for each device.
SessionInv ==
  /\ aspect \in [Links -> Aspects]
  /\ sessions \subseteq Session
  /\ opens \subseteq Open
  /\ \A s, t \in sessions :
       aspect[s.link] = aspect[t.link] /\ (s.link = t.link \/ Overlap(s, t)) => s = t

\* The link's own entry is one of the sessions, or a new one with no binding.
LEMMA EntryOfLink ==
  ASSUME SessionInv, NEW l \in Links
  PROVE  /\ Entry(l) \in Session
         /\ Entry(l).link = l
         /\ Entry(l) \in sessions \/ (Entry(l).subscriber = Nobody /\ Entry(l).delivery = Nobody)
<1>1. CASE SessionOf(l) = {}
  BY <1>1 DEF Entry, NewSession, Session
<1>2. CASE SessionOf(l) # {}
  <2>1. Entry(l) \in SessionOf(l)
    BY <1>2 DEF Entry
  <2> QED BY <2>1 DEF SessionOf, SessionInv
<1> QED BY <1>1, <1>2

\* Binding evicts every session of the registry that the new one overlaps.
LEMMA BindKeepsSessions ==
  ASSUME SessionInv, NEW o \in opens, Bind(o)
  PROVE  SessionInv'
<1> DEFINE l == o.link
           d == o.device
<1>1. /\ o \in Open /\ l \in Links /\ d \in Devices /\ o.channels \subseteq Channels
      /\ d # Nobody
  BY ConstantsAssumption DEF SessionInv, Open
<1>2. /\ Entry(l) \in Session /\ Entry(l).link = l
      /\ Entry(l) \in sessions \/ (Entry(l).subscriber = Nobody /\ Entry(l).delivery = Nobody)
  BY <1>1, EntryOfLink
<1>3. aspect' = aspect /\ opens' \subseteq Open
  <2>1. [o EXCEPT !.step = "watch"] \in Open
    BY <1>1 DEF Open
  <2> QED BY <2>1 DEF Bind, SessionInv
<1>4. PICK new \in Session, gone \in SUBSET sessions :
        /\ sessions' = (sessions \ (SessionOf(l) \cup gone)) \cup {new}
        /\ new.link = l
        /\ \/ new.subscriber = d /\ new.delivery = Entry(l).delivery
              /\ \A s \in sessions : s.link # l /\ aspect[s.link] = aspect[l] /\ s.subscriber = d => s \in gone
           \/ new.delivery = d /\ new.subscriber = Entry(l).subscriber
              /\ \A s \in sessions : s.link # l /\ aspect[s.link] = aspect[l] /\ s.delivery = d => s \in gone
  <2>1. CASE configure_channels(l, d, o.channels)
    <3> DEFINE new == [Entry(l) EXCEPT !.subscriber = d, !.channels = o.channels]
               gone == evict_others(l, "subscriber", d)
    <3>1. new \in Session /\ new.link = l /\ new.subscriber = d /\ new.delivery = Entry(l).delivery
      BY <1>1, <1>2 DEF Session
    <3>2. \A s \in sessions : s.link # l /\ aspect[s.link] = aspect[l] /\ s.subscriber = d => s \in gone
      BY DEF evict_others
    <3>3. gone \in SUBSET sessions /\ sessions' = (sessions \ (SessionOf(l) \cup gone)) \cup {new}
      BY <2>1 DEF configure_channels, evict_others
    <3> HIDE DEF new, gone
    <3> QED BY <3>1, <3>2, <3>3
  <2>2. CASE configure_delivery(l, d)
    <3> DEFINE new == [Entry(l) EXCEPT !.delivery = d]
               gone == evict_others(l, "delivery", d)
    <3>1. new \in Session /\ new.link = l /\ new.delivery = d /\ new.subscriber = Entry(l).subscriber
      BY <1>1, <1>2 DEF Session
    <3>2. \A s \in sessions : s.link # l /\ aspect[s.link] = aspect[l] /\ s.delivery = d => s \in gone
      BY DEF evict_others
    <3>3. gone \in SUBSET sessions /\ sessions' = (sessions \ (SessionOf(l) \cup gone)) \cup {new}
      BY <2>2 DEF configure_delivery, evict_others
    <3> HIDE DEF new, gone
    <3> QED BY <3>1, <3>2, <3>3
  <2> QED BY <2>1, <2>2 DEF Bind
<1>5. ASSUME NEW s \in sessions, s \notin SessionOf(l), s \notin gone,
             aspect[s.link] = aspect[l]
      PROVE  ~Overlap(s, new) /\ ~Overlap(new, s)
  <2>1. s.link # l
    BY <1>5 DEF SessionOf
  <2>2. Entry(l) \in sessions => ~Overlap(s, Entry(l))
    BY <1>2, <1>5, <2>1 DEF SessionInv
  <2> QED BY <1>1, <1>2, <1>4, <1>5, <2>1, <2>2 DEF Overlap
<1>6. ASSUME NEW s \in sessions', NEW t \in sessions',
             aspect[s.link] = aspect[t.link], s.link = t.link \/ Overlap(s, t)
      PROVE  s = t
  <2>1. \A x \in sessions' : x = new \/ (x \in sessions /\ x \notin SessionOf(l) /\ x \notin gone)
    BY <1>4
  <2>2. \A x \in sessions : x \notin SessionOf(l) => x.link # l
    BY DEF SessionOf
  <2> QED BY <1>4, <1>5, <1>6, <2>1, <2>2 DEF SessionInv
<1>7. sessions' \subseteq Session
  BY <1>4 DEF SessionInv
<1> QED BY <1>3, <1>6, <1>7 DEF SessionInv, Overlap

LEMMA StepKeepsSessions == SessionInv /\ [Next]_vars => SessionInv'
<1> SUFFICES ASSUME SessionInv, [Next]_vars PROVE SessionInv'
  OBVIOUS
<1>1. ASSUME aspect' = aspect, sessions' \subseteq sessions, opens' \subseteq Open
      PROVE  SessionInv'
  BY <1>1 DEF SessionInv, Overlap
<1>2. ASSUME NEW l \in Links, NEW d \in Devices, NEW chs \in SUBSET Channels,
             ChannelStreamOpen(l, d, chs) \/ PropagationStreamOpen(l, d)
      PROVE  SessionInv'
  <2>1. PICK binds \in {"channels", "delivery"}, filters \in SUBSET Channels : Begin(l, binds, d, filters)
    BY <1>2 DEF ChannelStreamOpen, PropagationStreamOpen
  <2> QED BY <2>1, <1>1 DEF Begin, SessionInv, Open
<1>3. ASSUME NEW o \in opens, Bind(o) \/ BindRefused(o) \/ Watch(o) PROVE SessionInv'
  <2>1. CASE Bind(o)
    BY <2>1, BindKeepsSessions
  <2>2. CASE BindRefused(o) \/ Watch(o)
    BY <2>2, <1>1 DEF BindRefused, Watch, SessionInv
  <2> QED BY <1>3, <2>1, <2>2
<1>4. ASSUME NEW l \in Links, LinkCloses(l) \/ Closed(l) \/ \E acked \in BOOLEAN : Answered(l, acked)
      PROVE  SessionInv'
  BY <1>4, <1>1 DEF LinkCloses, Closed, remove, Answered, SessionInv
<1>5. CASE Dispatches
  BY <1>5, <1>1 DEF Dispatches, DispatchChannel, DispatchLxmf, DispatchChannelStream,
                    DispatchPropagationStream, DispatchOn, DispatchStream, dropped, SessionInv
<1>6. CASE UNCHANGED vars
  BY <1>6, <1>1 DEF vars, SessionInv
<1>7. ASSUME NEW l \in Links, NEW d \in Devices, PropagationStreamOpen(l, d) PROVE SessionInv'
  BY <1>7, <1>2
<1> QED BY <1>2, <1>3, <1>4, <1>5, <1>6, <1>7 DEF Next

LEMMA InitSessions == Init => SessionInv
BY ConstantsAssumption DEF Init, SessionInv

-----------------------------------------------------------------------------
(***************************************************************************)
(* The push.                                                               *)
(***************************************************************************)

\* One answer at most is awaited, and while it is neither hook has run.
PushInv ==
  /\ push \in Push
  /\ \A l, m \in push.awaited : l = m
  /\ push.awaited # {} => ~push.acked /\ ~push.failed
  /\ AckedIsNotDeferred

\* The sessions that want a channel's push of a device, or a message to it,
\* overlap: on rfed.link there is one at most.
LEMMA OneLinkMatches ==
  ASSUME SessionInv, NEW d \in Devices, NEW wanting \in SUBSET sessions,
         \/ \A s \in wanting : s.subscriber = d
         \/ \A s \in wanting : s.delivery = d
  PROVE  /\ Matching("link", wanting) \subseteq Links
         /\ \A l, m \in Matching("link", wanting) : l = m
<1>1. d # Nobody
  BY ConstantsAssumption
<1>2. \A s, t \in wanting : aspect[s.link] = "link" /\ aspect[t.link] = "link" => s = t
  BY <1>1 DEF SessionInv, Overlap
<1>3. \A l \in Matching("link", wanting) : \E s \in wanting : aspect[s.link] = "link" /\ l = s.link
  BY DEF Matching
<1>4. \A s \in wanting : s.link \in Links
  BY DEF SessionInv, Session
<1> QED BY <1>2, <1>3, <1>4

LEMMA DispatchKeepsPush ==
  ASSUME PushInv, NEW matches \in SUBSET Links, \A l, m \in matches : l = m,
         DispatchOn(matches)
  PROVE  PushInv'
<1>1. CASE push' = push
  BY <1>1 DEF PushInv, AckedIsNotDeferred
<1>2. CASE push' = [state |-> "out", awaited |-> matches \ Dead(matches), failed |-> FALSE, acked |-> FALSE]
  <2>1. push' \in Push
    BY <1>2 DEF Push
  <2> QED BY <1>2, <2>1 DEF PushInv, AckedIsNotDeferred
<1> QED BY <1>1, <1>2 DEF DispatchOn

LEMMA AnswerKeepsPush ==
  ASSUME PushInv, NEW l \in Links, NEW acked \in BOOLEAN, Answered(l, acked)
  PROVE  PushInv'
<1>1. /\ push \in Push /\ l \in push.awaited /\ ~push.acked /\ ~push.failed
  BY DEF PushInv, Answered
<1>2. /\ push' \in Push
      /\ push'.awaited = push.awaited \ {l}
      /\ push'.acked = (push.acked \/ acked)
      /\ push'.failed = (push.failed \/ ~acked)
  BY <1>1 DEF Answered, Push
<1>3. push'.awaited = {}
  BY <1>1, <1>2 DEF PushInv
<1> QED BY <1>1, <1>2, <1>3 DEF PushInv, AckedIsNotDeferred

LEMMA StepKeepsPush == SessionInv /\ PushInv /\ [Next]_vars => PushInv'
<1> SUFFICES ASSUME SessionInv, PushInv, [Next]_vars PROVE PushInv'
  OBVIOUS
<1>1. CASE push' = push
  BY <1>1 DEF PushInv, AckedIsNotDeferred
<1>2. CASE Dispatches
  <2>1. PICK d \in Devices :
          \/ \E ch \in Channels : DispatchChannel(d, ch) \/ DispatchChannelStream(d, ch)
          \/ DispatchLxmf(d) \/ DispatchPropagationStream(d)
    BY <1>2 DEF Dispatches
  <2>2. ASSUME NEW ch \in Channels, DispatchChannel(d, ch) PROVE PushInv'
    <3>1. Wanting(d, ch) \in SUBSET sessions /\ \A s \in Wanting(d, ch) : s.subscriber = d
      BY DEF Wanting, wants_channel
    <3> QED BY <2>2, <3>1, OneLinkMatches, DispatchKeepsPush DEF DispatchChannel
  <2>3. ASSUME DispatchLxmf(d) PROVE PushInv'
    <3>1. BoundFor(d) \in SUBSET sessions /\ \A s \in BoundFor(d) : s.delivery = d
      BY DEF BoundFor
    <3> QED BY <2>3, <3>1, OneLinkMatches, DispatchKeepsPush DEF DispatchLxmf
  <2> QED BY <2>1, <2>2, <2>3, <1>1 DEF DispatchChannelStream, DispatchPropagationStream, DispatchStream
<1>3. ASSUME NEW l \in Links, NEW acked \in BOOLEAN, Answered(l, acked) PROVE PushInv'
  BY <1>3, AnswerKeepsPush
<1>4. ASSUME NEW l \in Links, LinkCloses(l) \/ Closed(l) PROVE PushInv'
  BY <1>4, <1>1 DEF LinkCloses, Closed
<1>5. ASSUME NEW o \in opens, Bind(o) \/ BindRefused(o) \/ Watch(o) PROVE PushInv'
  BY <1>5, <1>1 DEF Bind, BindRefused, Watch
<1>6. ASSUME NEW l \in Links, NEW d \in Devices, NEW chs \in SUBSET Channels, ChannelStreamOpen(l, d, chs)
      PROVE  PushInv'
  BY <1>6, <1>1 DEF ChannelStreamOpen, Begin
<1>7. ASSUME NEW l \in Links, NEW d \in Devices, PropagationStreamOpen(l, d) PROVE PushInv'
  BY <1>7, <1>1 DEF PropagationStreamOpen, Begin
<1>8. CASE UNCHANGED vars
  BY <1>8, <1>1 DEF vars
<1> QED BY <1>2, <1>3, <1>4, <1>5, <1>6, <1>7, <1>8 DEF Next

LEMMA InitPush == Init => PushInv
BY DEF Init, PushInv, NoPush, Push, AckedIsNotDeferred

\* A registry tries a push on one link of a device (link_session.rs,
\* evict_others): it is not acknowledged on one and deferred for another.
THEOREM AckedNotDeferred == Spec => []AckedIsNotDeferred
<1>1. Init => SessionInv /\ PushInv
  BY InitSessions, InitPush
<1>2. SessionInv /\ PushInv /\ [Next]_vars => (SessionInv /\ PushInv)'
  BY StepKeepsSessions, StepKeepsPush
<1>3. SessionInv /\ PushInv => AckedIsNotDeferred
  BY DEF PushInv
<1> QED BY <1>1, <1>2, <1>3, PTL DEF Spec

-----------------------------------------------------------------------------
(***************************************************************************)
(* Who takes a live link's session.                                        *)
(***************************************************************************)

LEMMA TakenByBind ==
  ASSUME SessionInv, [Next]_vars, NEW s \in sessions,
         link[s.link] = "active", \A t \in sessions' : t.link # s.link
  PROVE  \E o \in opens : Replaces(o, s)
<1>1. s \notin sessions'
  OBVIOUS
<1>2. ASSUME NEW o \in opens, Bind(o) PROVE Replaces(o, s)
  <2>1. o \in Open /\ o.link \in Links
    BY DEF SessionInv, Open
  <2>2. Entry(o.link) \in Session /\ Entry(o.link).link = o.link
    BY <2>1, EntryOfLink
  <2>3. \E t \in sessions' : t.link = o.link
    <3>1. CASE configure_channels(o.link, o.device, o.channels)
      <4>1. [Entry(o.link) EXCEPT !.subscriber = o.device, !.channels = o.channels].link = o.link
        BY <2>2 DEF Session
      <4> QED BY <3>1, <4>1 DEF configure_channels
    <3>2. CASE configure_delivery(o.link, o.device)
      <4>1. [Entry(o.link) EXCEPT !.delivery = o.device].link = o.link
        BY <2>2 DEF Session
      <4> QED BY <3>2, <4>1 DEF configure_delivery
    <3> QED BY <1>2, <3>1, <3>2 DEF Bind
  <2>4. o.link # s.link
    BY <2>3
  <2>5. s \notin SessionOf(o.link)
    BY <2>4 DEF SessionOf
  <2>6. CASE o.binds = "channels"
    <3>1. s \in evict_others(o.link, "subscriber", o.device)
      BY <1>1, <1>2, <2>5, <2>6 DEF Bind, configure_channels
    <3> QED BY <1>2, <2>4, <2>6, <3>1 DEF evict_others, Replaces
  <2>7. CASE o.binds # "channels"
    <3>1. s \in evict_others(o.link, "delivery", o.device)
      BY <1>1, <1>2, <2>5, <2>7 DEF Bind, configure_delivery
    <3> QED BY <1>2, <2>4, <2>7, <3>1 DEF evict_others, Replaces
  <2> QED BY <2>6, <2>7
<1>3. ASSUME NEW matches, DispatchOn(matches) \/ DispatchStream(matches) PROVE FALSE
  <2>1. s \notin dropped(Dead(matches))
    BY <1>1, <1>3 DEF DispatchOn, DispatchStream
  <2> QED BY <2>1 DEF dropped, Dead
<1>4. ~Dispatches
  BY <1>3 DEF Dispatches, DispatchChannel, DispatchLxmf, DispatchChannelStream, DispatchPropagationStream
<1>5. ASSUME NEW l \in Links, Closed(l) PROVE FALSE
  BY <1>1, <1>5 DEF Closed, remove, SessionOf
<1>6. sessions' # sessions
  BY <1>1
<1>7. ASSUME NEW l \in Links PROVE ~LinkCloses(l) /\ \A acked \in BOOLEAN : ~Answered(l, acked)
  BY <1>6 DEF LinkCloses, Answered
<1>8. ASSUME NEW l \in Links, NEW d \in Devices
      PROVE  ~PropagationStreamOpen(l, d) /\ \A chs \in SUBSET Channels : ~ChannelStreamOpen(l, d, chs)
  BY <1>6 DEF ChannelStreamOpen, PropagationStreamOpen, Begin
<1>9. ASSUME NEW o \in opens PROVE ~BindRefused(o) /\ ~Watch(o)
  BY <1>6 DEF BindRefused, Watch
<1>10. ~UNCHANGED vars
  BY <1>6 DEF vars
<1>11. \E o \in opens : Bind(o)
  BY <1>4, <1>5, <1>7, <1>8, <1>9, <1>10 DEF Next
<1> QED BY <1>2, <1>11

\* For any links, devices and layouts: the closed callbacks and the pushes
\* remove sessions by link, the handlers by device (destinations.rs 3828-3846,
\* link_session.rs 138-208).  A live link's session goes only to a handler that
\* binds, on another link, the device the session has in that binding.
THEOREM LiveSessionsStay == Spec => LiveSessionStays
<1>1. SessionInv /\ [Next]_vars =>
        [\A s \in sessions :
           link[s.link] = "active" /\ (\A t \in sessions' : t.link # s.link)
             => \E o \in opens : Replaces(o, s)]_vars
  BY TakenByBind
<1> QED BY <1>1, InitSessions, StepKeepsSessions, PTL DEF Spec, LiveSessionStays


-----------------------------------------------------------------------------
(***************************************************************************)
(* Types.                                                                  *)
(***************************************************************************)

LinkSorts ==
  /\ aspect \in Layouts
  /\ link \in [Links -> {"active", "closed"}]
  /\ asked \in [Links -> Nat] /\ \A l \in Links : asked[l] <= MaxOpens[l]
  /\ callback \subseteq Links
  /\ push \in Push

LEMMA InitLinks == Init => LinkSorts
BY ConstantsAssumption DEF Init, LinkSorts, Push, NoPush

LEMMA StepKeepsLinks == SessionInv /\ LinkSorts /\ [Next]_vars => LinkSorts'
<1> SUFFICES ASSUME SessionInv, LinkSorts, [Next]_vars PROVE LinkSorts'
  OBVIOUS
<1>1. ASSUME NEW l \in Links, NEW d \in Devices, NEW chs \in SUBSET Channels,
             ChannelStreamOpen(l, d, chs) \/ PropagationStreamOpen(l, d)
      PROVE  LinkSorts'
  <2>1. asked' = [asked EXCEPT ![l] = @ + 1] /\ asked[l] < MaxOpens[l] /\ UNCHANGED <<aspect, link, callback, push>>
    BY <1>1 DEF ChannelStreamOpen, PropagationStreamOpen, Begin
  <2>2. asked[l] \in Nat /\ MaxOpens[l] \in Nat
    BY ConstantsAssumption DEF LinkSorts
  <2>3. asked' \in [Links -> Nat] /\ \A k \in Links : asked'[k] <= MaxOpens[k]
    BY <2>1, <2>2 DEF LinkSorts
  <2> QED BY <2>1, <2>3 DEF LinkSorts
<1>2. ASSUME NEW o \in opens, Bind(o) \/ BindRefused(o) \/ Watch(o) PROVE LinkSorts'
  <2>1. o.link \in Links
    BY DEF SessionInv, Open
  <2>2. callback' \subseteq callback \cup {o.link} /\ UNCHANGED <<aspect, link, asked, push>>
    BY <1>2 DEF Bind, BindRefused, Watch
  <2> QED BY <2>1, <2>2 DEF LinkSorts
<1>3. ASSUME NEW l \in Links, LinkCloses(l) \/ Closed(l) PROVE LinkSorts'
  <2>1. link' \in [Links -> {"active", "closed"}] /\ callback' \subseteq callback /\ UNCHANGED <<aspect, asked, push>>
    BY <1>3 DEF LinkCloses, Closed, LinkSorts
  <2> QED BY <2>1 DEF LinkSorts
<1>4. ASSUME NEW l \in Links, NEW acked \in BOOLEAN, Answered(l, acked) PROVE LinkSorts'
  <2>1. push' \in Push
    <3>1. push' = [push EXCEPT !.awaited = @ \ {l}, !.acked = @ \/ acked, !.failed = @ \/ ~ acked]
      BY <1>4 DEF Answered
    <3>2. push \in Push /\ push.awaited \ {l} \in SUBSET Links
          /\ (push.acked \/ acked) \in BOOLEAN /\ (push.failed \/ ~ acked) \in BOOLEAN
      BY DEF LinkSorts, Push
    <3> QED BY <3>1, <3>2 DEF Push
  <2> QED BY <1>4, <2>1 DEF Answered, LinkSorts
<1>5. CASE Dispatches
  <2>1. ASSUME NEW kind, NEW wanting \in SUBSET sessions PROVE Matching(kind, wanting) \subseteq Links
    BY DEF Matching, SessionInv, Session
  <2>2. ASSUME NEW matches \in SUBSET Links, DispatchOn(matches) \/ DispatchStream(matches) PROVE LinkSorts'
    <3>1. matches \ Dead(matches) \in SUBSET Links
      OBVIOUS
    <3>2. [state |-> "out", awaited |-> matches \ Dead(matches), failed |-> FALSE, acked |-> FALSE] \in Push
      BY <3>1 DEF Push
    <3>3. push' \in Push
      BY <2>2, <3>2 DEF DispatchOn, DispatchStream, LinkSorts
    <3> QED BY <2>2, <3>3 DEF DispatchOn, DispatchStream, LinkSorts
  <2>3. \A d \in Devices, ch \in Channels : Wanting(d, ch) \in SUBSET sessions /\ BoundFor(d) \in SUBSET sessions
    BY DEF Wanting, BoundFor
  <2>4. \A d \in Devices : BoundFor(d) \in SUBSET sessions
    BY DEF BoundFor
  <2> QED BY <1>5, <2>1, <2>2, <2>3, <2>4 DEF Dispatches, DispatchChannel, DispatchLxmf, DispatchChannelStream,
        DispatchPropagationStream
<1>6. CASE UNCHANGED vars
  BY <1>6 DEF vars, LinkSorts
<1>7. ASSUME NEW l \in Links, NEW d \in Devices, PropagationStreamOpen(l, d) PROVE LinkSorts'
  BY <1>1, <1>7
<1> QED BY <1>1, <1>2, <1>3, <1>4, <1>5, <1>6, <1>7 DEF Next

\* Types for any links and layouts; and whatever opens, evictions, drops and
\* closed callbacks interleave, a registry has one session for a link and one for
\* a device, as evict_others is there to keep (channel_stream.rs, link_session.rs).
THEOREM TypeCorrect == Spec => []TypeOK
<1>1. SessionInv /\ LinkSorts => TypeOK
  BY ConstantsAssumption DEF SessionInv, LinkSorts, TypeOK
<1> QED BY InitSessions, StepKeepsSessions, InitLinks, StepKeepsLinks, <1>1, PTL DEF Spec
=============================================================================
