----------------------------- MODULE LinkSession -----------------------------
(***************************************************************************)
(* The links devices bind for push: the sessions of rfed.link              *)
(* (rfed/src/link_session.rs), the channel and the propagation streams     *)
(* (rfed/src/stream_registry.rs), the two stream-open handlers that bind   *)
(* them and the closed callbacks that release them                         *)
(* (rfed/src/destinations.rs), and a push over them.                       *)
(*                                                                         *)
(* A handler judges its request under the node's and the subscription      *)
(* table's lock, binds under the registry's, and installs the closed       *)
(* callback after it; the link may go down between any two.  A device's    *)
(* lxmf.delivery hash follows from its identity, so one name stands for    *)
(* both.  What becomes of a packet on a stream is PushOutcome's.           *)
(***************************************************************************)
EXTENDS Integers, FiniteSets

CONSTANTS
  Devices,
  Channels,
  Links,
  Layouts,     \* the ways the links may be spread over the destinations
  Nobody,      \* a binding not made
  MaxOpens     \* per link, bound on the stream-open requests made on it

Aspects == {"link", "channel stream", "propagation stream"}

ASSUME ConstantsAssumption ==
  /\ Layouts \subseteq [Links -> Aspects]
  /\ Nobody \notin Devices
  /\ MaxOpens \in [Links -> Nat]

VARIABLES
  aspect,      \* per link, the destination it was opened to
  link,        \* per link: "active", "closed"
  asked,       \* how many stream-open requests came on it
  opens,       \* the handlers at work, one at most for each link
  sessions,    \* the sessions of the three registries
  callback,    \* the links with a closed callback that has yet to run
  push         \* the push of one blob over rfed.link

vars == <<aspect, link, asked, opens, sessions, callback, push>>

-----------------------------------------------------------------------------

\* A session binds a subscriber with its channels, a delivery hash, or both
\* (on rfed.link only).
Session == [link : Links, subscriber : Devices \cup {Nobody}, channels : SUBSET Channels,
            delivery : Devices \cup {Nobody}]

\* What a handler has left: to bind, then to install the callback.
Open == [link : Links, binds : {"channels", "delivery"}, device : Devices,
         channels : SUBSET Channels, step : {"bind", "watch"}]

\* `awaited` are the links whose answer is outstanding; the two hooks run
\* once each, whatever their number.
Push == [state : {"none", "out"}, awaited : SUBSET Links, failed : BOOLEAN, acked : BOOLEAN]

NoPush == [state |-> "none", awaited |-> {}, failed |-> FALSE, acked |-> FALSE]

Init ==
  /\ aspect \in Layouts
  /\ link = [l \in Links |-> "active"]
  /\ asked = [l \in Links |-> 0]
  /\ opens = {}
  /\ sessions = {}
  /\ callback = {}
  /\ push = NoPush

-----------------------------------------------------------------------------
(***************************************************************************)
(* Binding.                                                                *)
(***************************************************************************)

\* BUG: nothing is evicted.
evict_none(l, bound, d) == {}

\* BUG: whoever they are bound for.
evict_everyone(l, bound, d) == {s \in sessions : s.link # l /\ aspect[s.link] = aspect[l]}

\* The other sessions of l's registry bound for the same device.
evict_others(l, bound, d) ==
  {s \in sessions : s.link # l /\ aspect[s.link] = aspect[l] /\ s[bound] = d}

SessionOf(l) == {s \in sessions : s.link = l}

NewSession(l) == [link |-> l, subscriber |-> Nobody, channels |-> {}, delivery |-> Nobody]
Entry(l) == IF SessionOf(l) = {} THEN NewSession(l) ELSE CHOOSE s \in SessionOf(l) : TRUE

\* LinkSessionRegistry and ChannelStreamRegistry: an evicted session goes
\* with both its bindings; the link's own keeps its other one.
configure_channels(l, d, chs) ==
  sessions' =
    (sessions \ (SessionOf(l) \cup evict_others(l, "subscriber", d)))
      \cup {[Entry(l) EXCEPT !.subscriber = d, !.channels = chs]}

\* LinkSessionRegistry and PropagationStreamRegistry: on a stream a second
\* open is refused, and nothing is evicted.
configure_delivery(l, d) ==
  sessions' =
    (sessions \ (SessionOf(l) \cup evict_others(l, "delivery", d)))
      \cup {[Entry(l) EXCEPT !.delivery = d]}

already_open(o) == aspect[o.link] = "propagation stream" /\ SessionOf(o.link) # {}

\* The handlers on rfed.link are the streams' own.
Serves(l, binds) ==
  aspect[l] \in IF binds = "channels" THEN {"link", "channel stream"}
                                      ELSE {"link", "propagation stream"}

Begin(l, binds, d, chs) ==
  /\ link[l] = "active"
  /\ asked[l] < MaxOpens[l]
  /\ Serves(l, binds)
  /\ ~ \E o \in opens : o.link = l
  /\ asked' = [asked EXCEPT ![l] = @ + 1]
  /\ opens' = opens \cup {[link |-> l, binds |-> binds, device |-> d, channels |-> chs, step |-> "bind"]}
  /\ UNCHANGED <<aspect, link, sessions, callback, push>>

\* A request well signed, for channels the device subscribes to; any other
\* is refused and changes nothing.
ChannelStreamOpen(l, d, chs) == Begin(l, "channels", d, chs)

\* One for the delivery hash of the key it is signed with, while the node
\* serves lxmf.propagation.
PropagationStreamOpen(l, d) == Begin(l, "delivery", d, {})

Bind(o) ==
  /\ o.step = "bind"
  /\ ~ already_open(o)
  /\ IF o.binds = "channels" THEN configure_channels(o.link, o.device, o.channels)
                             ELSE configure_delivery(o.link, o.device)
  /\ opens' = (opens \ {o}) \cup {[o EXCEPT !.step = "watch"]}
  /\ UNCHANGED <<aspect, link, asked, callback, push>>

BindRefused(o) ==
  /\ o.step = "bind"
  /\ already_open(o)
  /\ opens' = opens \ {o}
  /\ UNCHANGED <<aspect, link, asked, sessions, callback, push>>

\* A link that has closed runs no callback given to it afterwards.
Watch(o) ==
  /\ o.step = "watch"
  /\ opens' = opens \ {o}
  /\ callback' = IF link[o.link] = "active" THEN callback \cup {o.link} ELSE callback
  /\ UNCHANGED <<aspect, link, asked, sessions, push>>

-----------------------------------------------------------------------------
(***************************************************************************)
(* Closing.                                                                *)
(***************************************************************************)

LinkCloses(l) ==
  /\ link[l] = "active"
  /\ link' = [link EXCEPT ![l] = "closed"]
  /\ UNCHANGED <<aspect, asked, opens, sessions, callback, push>>

\* BUG: the callback removes nothing.
remove_nothing(l) == sessions

remove(l) == sessions \ SessionOf(l)

Closed(l) ==
  /\ l \in callback
  /\ link[l] = "closed"
  /\ sessions' = remove(l)
  /\ callback' = callback \ {l}
  /\ UNCHANGED <<aspect, link, asked, opens, push>>

-----------------------------------------------------------------------------
(***************************************************************************)
(* A push: dispatch_channel, dispatch_lxmf and the streams' dispatch, under *)
(* the registry's lock to the end.                                         *)
(***************************************************************************)

wants_channel(s, d, ch) == s.subscriber = d /\ ch \in s.channels
Wanting(d, ch) == {s \in sessions : wants_channel(s, d, ch)}
BoundFor(d) == {s \in sessions : s.delivery = d}

Matching(kind, wanting) == {s.link : s \in {x \in wanting : aspect[x.link] = kind}}

dropped(links) == {s \in sessions : s.link \notin links}

Dead(matches) == {l \in matches : link[l] = "closed"}

\* Links found dead lose their sessions; a push no link took is the
\* caller's to send on.
DispatchOn(matches) ==
  /\ sessions' = dropped(Dead(matches))
  /\ push' = IF matches = Dead(matches) THEN push
             ELSE [state |-> "out", awaited |-> matches \ Dead(matches), failed |-> FALSE, acked |-> FALSE]
  /\ UNCHANGED <<aspect, link, asked, opens, callback>>

Settled == push.state = "out" => push.awaited = {}

DispatchChannel(d, ch) == Settled /\ DispatchOn(Matching("link", Wanting(d, ch)))
DispatchLxmf(d) == Settled /\ DispatchOn(Matching("link", BoundFor(d)))

\* A stream's push leaves `push` alone.
DispatchStream(matches) ==
  /\ sessions' = dropped(Dead(matches))
  /\ UNCHANGED <<aspect, link, asked, opens, callback, push>>

DispatchChannelStream(d, ch) == DispatchStream(Matching("channel stream", Wanting(d, ch)))
DispatchPropagationStream(d) == DispatchStream(Matching("propagation stream", BoundFor(d)))

\* The client's answer, or the request's failure, on one link.
Answered(l, acked) ==
  /\ l \in push.awaited
  /\ push' = [push EXCEPT !.awaited = @ \ {l},
                          !.acked = @ \/ acked,
                          !.failed = @ \/ ~ acked]
  /\ UNCHANGED <<aspect, link, asked, opens, sessions, callback>>

-----------------------------------------------------------------------------

Dispatches ==
  \E d \in Devices :
    \/ \E ch \in Channels : DispatchChannel(d, ch) \/ DispatchChannelStream(d, ch)
    \/ DispatchLxmf(d)
    \/ DispatchPropagationStream(d)

Next ==
  \/ \E l \in Links, d \in Devices :
       \/ \E chs \in SUBSET Channels : ChannelStreamOpen(l, d, chs)
       \/ PropagationStreamOpen(l, d)
  \/ \E o \in opens : Bind(o) \/ BindRefused(o) \/ Watch(o)
  \/ \E l \in Links : LinkCloses(l) \/ Closed(l) \/ \E acked \in BOOLEAN : Answered(l, acked)
  \/ Dispatches

Spec == Init /\ [][Next]_vars

\* The handlers and the callbacks run on threads of their own, a request
\* times out, and pushes keep coming.
Fairness ==
  /\ \A l \in Links :
       /\ WF_vars(Closed(l))
       /\ WF_vars(\E acked \in BOOLEAN : Answered(l, acked))
  /\ WF_vars(\E o \in opens : Bind(o) \/ BindRefused(o) \/ Watch(o))

FairSpec == Spec /\ Fairness

-----------------------------------------------------------------------------
(***************************************************************************)
(* Properties.                                                             *)
(***************************************************************************)

Overlap(s, t) ==
  \/ s.subscriber # Nobody /\ s.subscriber = t.subscriber
  \/ s.delivery # Nobody /\ s.delivery = t.delivery

\* A device has one link bound in each registry, as Link.md has it: a push
\* that several took would be tried, and could fail, on each.
TypeOK ==
  /\ aspect \in Layouts
  /\ link \in [Links -> {"active", "closed"}]
  /\ \A l \in Links : asked[l] \in 0 .. MaxOpens[l]
  /\ opens \subseteq Open
  /\ sessions \subseteq Session
  /\ callback \subseteq Links
  /\ push \in Push
  /\ \A s, t \in sessions :
       aspect[s.link] = aspect[t.link] /\ (s.link = t.link \/ Overlap(s, t)) => s = t

\* One push is not both acknowledged by the device and handed to the
\* deferred queue.
AckedIsNotDeferred == ~ (push.acked /\ push.failed)

\* The handler binds, on another link of s's registry, the very device that s
\* has in that binding.
Replaces(o, s) ==
  /\ Bind(o)
  /\ aspect[o.link] = aspect[s.link] /\ o.link # s.link
  /\ o.device = IF o.binds = "channels" THEN s.subscriber ELSE s.delivery

\* A device keeps the session of its link while the link is up: only its own
\* binding of another link of that registry takes the session away.  Another
\* device's bind leaves it, also one that finds it with both bindings, and so
\* does the close of a link, an older one of this device's in particular, or
\* a push that finds other links dead.
LiveSessionStays ==
  [][\A s \in sessions :
       link[s.link] = "active" /\ (\A t \in sessions' : t.link # s.link)
         => \E o \in opens : Replaces(o, s)]_vars

\* A link that closes with its callback in place is forgotten for good, once
\* no handler of its own is left that would bind it again.
ClosedIsForgotten ==
  \A l \in Links :
    (l \in callback /\ link[l] = "closed" /\ ~ \E o \in opens : o.link = l) ~> [](SessionOf(l) = {})

=============================================================================
