------------------------------ MODULE WakePath ------------------------------
\* A wake on its way to a device: the node's notify registrations
\* (notify/mod.rs NotifyRegistry, destinations.rs handle_notify_command), the
\* wake packet to the registered relay (notify/rns.rs dispatch), and the relay,
\* apns-bridge or fcm-bridge, which keeps the device's push token and hands the
\* wake to Apple's or Google's gateway (bridge.rs dispatch_wake).
\*
\* Abstracted: one relay and one device, which several subscribers use (its
\* LXMF identity and others); the names a relay hosts its endpoint under; what
\* a wake carries beside its receiver; what is logged and counted. A hash key
\* is its subscriber and how often it was hashed: the identity hash itself (0),
\* notify_key of it, the delivery hash (1), and a key hashed twice (2), which
\* no device registers under.
EXTENDS Naturals, Sequences, FiniteSets

CONSTANTS
  Subs,          \* the subscribers
  Tokens,        \* the push tokens the device is given, one after another
  NoToken,       \* no token is registered
  Gateways,      \* the gateways a token may be good at (apns-bridge: ApnsEnv)
  Scenes,        \* what an instance starts with
  MaxPackets,    \* bound: token registrations the device sends
  MaxLosses,     \* bound: times the path to the relay is lost
  MaxWakes       \* bound: wakes the node starts

VARIABLES
  scene,         \* what the instance started with
  rows,          \* NotifyRegistry.registrations: [sub, hashed, kind]
  waking,        \* registrations snapshotted for a wake not yet dispatched
  path,          \* Transport has a path to the relay
  key,           \* the identity recalled for it: none, another's, the relay's
  asked,         \* a path request for it is out
  missed,        \* history: a wake was dropped for want of a route since
  packets,       \* the receivers of the wakes on their way to the relay
  inbox,         \* token registrations that reached the bridge
  standing,      \* history: those that arrived, but what the database failed
                 \* to write and what a gateway's refusal took back
  tokens,        \* TokenDB
  good,          \* the gateways each token is good at
  given,         \* how many tokens the device has been given
  sends,         \* wakes the bridge is handing to a gateway
  sent, losses, wakes

route_vars == <<path, key, asked, missed, losses>>
bridge_vars == <<inbox, standing, tokens, good, given, sends, sent>>
vars == <<scene, rows, waking, packets, wakes, route_vars, bridge_vars>>

Kinds == {"lxmf", "channel"}

\* A scene names the relay, the registrations the node starts with (under
\* identity hashes, as older builds wrote them, or delivery hashes) and the
\* environments a token may register for.
ASSUME ScenesAssumption ==
  \A sc \in Scenes :
    /\ sc.bridge \in {"apns", "fcm"}
    /\ sc.rows \subseteq [sub : Subs, hashed : 0..1, kind : Kinds]
    /\ sc.envs \subseteq Gateways
    /\ sc.path \in BOOLEAN /\ sc.key \in {"none", "other", "relay"}

\* The device comes with a token.
ASSUME TokensAssumption == Tokens \in Nat \ {0}

TypeOK ==
  /\ rows \subseteq [sub : Subs, hashed : 0..2, kind : Kinds]
  /\ waking \subseteq [sub : Subs, hashed : {1}, kind : Kinds]
  /\ path \in BOOLEAN
  /\ key \in {"none", "other", "relay"}
  /\ packets \subseteq Subs
  /\ tokens \in [Subs -> {NoToken} \cup [token : DOMAIN good, env : Gateways]]

Init ==
  /\ scene \in Scenes
  /\ rows = scene.rows
  /\ waking = {}
  /\ path = scene.path
  /\ key = scene.key
  /\ asked = FALSE
  /\ missed = FALSE
  /\ packets = {}
  /\ inbox = <<>>
  /\ standing = {}
  /\ tokens = [s \in Subs |-> NoToken]
  /\ good \in [1..Tokens -> scene.good]
  /\ given = 1
  /\ sends = {}
  /\ sent = 0
  /\ losses = 0
  /\ wakes = 0

-----------------------------------------------------------------------------
\* Registrations at the node

Row(s, hashed, kind) == [sub |-> s, hashed |-> hashed, kind |-> kind]

Commands == {"register", "unregister", "clear"}

\* The rows a command leaves, all under the subscriber's notify_key.
register(s, kind) == rows \cup {Row(s, 1, kind)}
unregister(s, kind) == rows \ {Row(s, 1, kind)}
clear(s) == {r \in rows : r.sub # s \/ r.hashed # 1}

store_notify_command(s, command, kind) ==
  CASE command = "register" -> register(s, kind)
    [] command = "unregister" -> unregister(s, kind)
    [] command = "clear" -> clear(s)

\* The registrant's key is recorded as the relay's only when it hosts the
\* relay itself.
remember_self_hosted_relay(s) == IF s \in scene.hosts_relay THEN "relay" ELSE key

\* A registration asks for a path, and may then be refused by policy. A wake
\* that snapshotted a row goes on.
handle_notify_command(s, command, kind) ==
  /\ IF command = "register"
       THEN /\ key' = remember_self_hosted_relay(s)
            /\ asked' = TRUE
            /\ rows' \in {rows, store_notify_command(s, command, kind)}
       ELSE /\ UNCHANGED <<key, asked>>
            /\ rows' = store_notify_command(s, command, kind)
  /\ UNCHANGED <<scene, waking, packets, wakes, path, missed, losses, bridge_vars>>

\* As packets or requests, on the service's own destinations or the node's.
NotifyService ==
  /\ "notify" \in scene.requests
  /\ \E s \in Subs, command \in Commands, kind \in Kinds :
       handle_notify_command(s, command, kind)

\* Evidence that a row's key is an identity hash: a channel subscription under
\* it, or an LXMF registration under what it hashes to.
OnEvidence(row) ==
  \/ row.hashed = 0 /\ row.sub \in scene.subscribed
  \/ \E other \in rows :
       other.kind = "lxmf" /\ other.sub = row.sub /\ other.hashed = row.hashed + 1

\* BUG: every channel row is taken to be under an identity hash.
OnKind(row) == row.hashed < 2

is_identity(row) == OnEvidence(row)

\* rekey_identity_channel_rows, merging into a row already there.
Rekeyed ==
  LET moves == {r \in rows : r.kind = "channel" /\ is_identity(r)}
  IN (rows \ moves) \cup {[r EXCEPT !.hashed = @ + 1] : r \in moves}

\* The node starts again: the table is read back, and re-keyed, all of it or,
\* when the database fails, nothing.
RestartNode ==
  /\ "restart" \in scene.requests
  /\ rows' \in {rows, Rekeyed}
  /\ waking' = {}
  /\ UNCHANGED <<scene, packets, wakes, route_vars, bridge_vars>>

-----------------------------------------------------------------------------
\* A wake at the node

get_for_channel(s, kind) == rows \cap {Row(s, 1, kind)}

\* notify_recipient, wake_after_queueing: the registrations are snapshotted
\* under the key and for the kind the wake is for, the registry released.
WakeBegins(s, kind) ==
  /\ wakes < MaxWakes
  /\ wakes' = wakes + 1
  /\ waking' = waking \cup get_for_channel(s, kind)
  /\ UNCHANGED <<scene, rows, packets, route_vars, bridge_vars>>

\* What the stack lacks for a wake to leave.
Lacking ==
  CASE ~path -> "NoPath"
    [] path /\ key = "none" -> "NoIdentity"
    [] path /\ key = "other" -> "NoMatchingDestination"
    [] OTHER -> "nothing"

\* A wake with no route is dropped, and a path requested.
RequestsPath(lack) == TRUE

\* BUG: with a path, and a key that is not the relay's, nothing is requested.
RequestsUnlessKeyed(lack) == lack # "NoMatchingDestination"

request_path(lack) == RequestsPath(lack)

Dispatch(row) ==
  /\ row \in waking
  /\ waking' = waking \ {row}
  /\ \/ /\ Lacking # "nothing"
        /\ missed' = TRUE
        /\ asked' = (asked \/ request_path(Lacking))
        /\ UNCHANGED packets
     \/ /\ Lacking = "nothing"
        /\ packets' \in {packets, packets \cup {row.sub}} \* no interface took it, or sent
        /\ UNCHANGED <<missed, asked>>
  /\ UNCHANGED <<scene, rows, wakes, path, key, losses, bridge_vars>>

\* The relay's announce answers the request: the route and the relay's key.
PathResponse ==
  /\ asked
  /\ asked' = FALSE
  /\ path' = TRUE
  /\ key' = "relay"
  /\ missed' = FALSE
  /\ UNCHANGED <<scene, rows, waking, packets, wakes, losses, bridge_vars>>

\* The path expires, with or without what was known of the relay's identity.
PathLost ==
  /\ losses < MaxLosses
  /\ path
  /\ losses' = losses + 1
  /\ path' = FALSE
  /\ key' \in {key, "none"}
  /\ UNCHANGED <<scene, rows, waking, packets, wakes, asked, missed, bridge_vars>>

-----------------------------------------------------------------------------
\* Tokens at the bridge

Entry(token, env) == [token |-> token, env |-> env]

\* The device registers the token it holds, or unregisters; the requests are
\* numbered as they arrive, and one not well formed changes nothing. Its app
\* says which gateway the token is for, and may be wrong.
Arrives(s) ==
  /\ "tokens" \in scene.requests
  /\ sent < MaxPackets
  /\ sent' = sent + 1
  /\ \E entry \in {NoToken} \cup {Entry(given, env) : env \in scene.envs} :
       LET request == [sub |-> s, entry |-> entry, at |-> sent'] IN
       /\ inbox' = Append(inbox, request)
       /\ standing' = standing \cup {request}
  /\ UNCHANGED <<scene, rows, waking, packets, wakes, route_vars, tokens, good,
                 given, sends>>

\* apns-bridge handles a registration in the packet callback, fcm-bridge spawns
\* a thread for each, which run in any order.
InThreads(bridge) == bridge = "fcm"

\* BUG: apns-bridge spawns a thread for each as well.
InThreadsBoth(bridge) == bridge \in {"apns", "fcm"}

spawned(bridge) == InThreads(bridge)

\* One upsert, or delete. On a database error the row stays as it was, and
\* nobody is told.
try_handle_register(request) ==
  \/ /\ tokens' = [tokens EXCEPT ![request.sub] = request.entry]
     /\ UNCHANGED standing
  \/ /\ standing' = standing \ {request}
     /\ UNCHANGED tokens

HandleRegistration(i) ==
  /\ i \in DOMAIN inbox
  /\ i = 1 \/ spawned(scene.bridge)
  /\ try_handle_register(inbox[i])
  /\ inbox' = SubSeq(inbox, 1, i - 1) \o SubSeq(inbox, i + 1, Len(inbox))
  /\ UNCHANGED <<scene, rows, waking, packets, wakes, route_vars, good, given,
                 sends, sent>>

\* The device is given another token; the one it had is good nowhere now.
Rotated ==
  /\ "tokens" \in scene.requests
  /\ given < Tokens
  /\ given' = given + 1
  /\ good' = [good EXCEPT ![given] = {}]
  /\ UNCHANGED <<scene, rows, waking, packets, wakes, route_vars, inbox, standing,
                 tokens, sends, sent>>

-----------------------------------------------------------------------------
\* A wake at the bridge

\* A sandbox token is tried at both gateways of Apple's.
Tried(env) ==
  IF scene.bridge = "apns" /\ env = "sandbox" THEN {"sandbox", "production"} ELSE {env}

\* The receiver's token is read, its guard released, and each gateway tried.
dispatch_wake(s) ==
  IF tokens[s] = NoToken THEN {}
  ELSE {[to |-> tokens[s], left |-> Tried(tokens[s].env), home |-> tokens[s].env]}

\* On a thread of its own, unless the packet is lost on the way.
WakeArrives(s) ==
  /\ s \in packets
  /\ packets' = packets \ {s}
  /\ sends' \in {sends, sends \cup dispatch_wake(s)}
  /\ UNCHANGED <<scene, rows, waking, wakes, route_vars, inbox, standing, tokens,
                 good, given, sent>>

\* The rows a purge deletes once the gateway `env` refused the token of `send`.
ByToken(send, env) ==
  IF env # send.home THEN {}
  ELSE {s \in Subs : tokens[s] = Entry(send.to.token, env)}

\* BUG: what the other gateway refuses is purged, too.
ByAnyGateway(send, env) == {s \in Subs : tokens[s] = send.to}

invalidate_token(send, env) == ByToken(send, env)

\* A gateway's answer is that the token is gone for good only where it is no
\* good.
should_invalidate(send, env) == env \notin good[send.to.token]

\* Of the registrations that stand, those of s the bridge has handled.
Handled(s) == {r \in standing : r.sub = s /\ \A i \in DOMAIN inbox : inbox[i] # r}

\* A gateway answers: it takes the push, fails it, or refuses the token; a
\* purge the database fails leaves the row.
Answered(send, env) ==
  /\ send \in sends
  /\ env \in send.left
  /\ send.left = {env} \/ env = send.home  \* the registered gateway first
  /\ sends' = (sends \ {send}) \cup
       (IF send.left = {env} THEN {} ELSE {[send EXCEPT !.left = @ \ {env}]})
  /\ \/ UNCHANGED <<tokens, standing>>
     \/ /\ should_invalidate(send, env)
        /\ tokens' = [s \in Subs |->
             IF s \in invalidate_token(send, env) THEN NoToken ELSE tokens[s]]
        /\ standing' = standing \ UNION {Handled(s) : s \in invalidate_token(send, env)}
  /\ UNCHANGED <<scene, rows, waking, packets, wakes, route_vars, inbox, good,
                 given, sent>>

-----------------------------------------------------------------------------
Node ==
  \/ NotifyService
  \/ \E s \in Subs, kind \in Kinds : WakeBegins(s, kind)
  \/ RestartNode
  \/ \E row \in waking : Dispatch(row)

Bridge ==
  \/ \E s \in Subs : Arrives(s) \/ WakeArrives(s)
  \/ \E i \in 1..MaxPackets : HandleRegistration(i)
  \/ Rotated
  \/ \E send \in sends, env \in Gateways : Answered(send, env)

Next == Node \/ PathResponse \/ PathLost \/ Bridge

Spec == Init /\ [][Next]_vars

\* A path request is answered while the relay is on the network. Nothing else
\* is assumed to happen.
FairSpec == Spec /\ WF_vars(PathResponse)

-----------------------------------------------------------------------------
\* Properties

\* "running this at every start, or again after a start where it failed, never
\* hashes a key twice" (notify/mod.rs rekey_identity_channel_rows): whatever is
\* registered between two starts, no row ends under a key no wake is for.
KeyedOnce == \A r \in rows : r.hashed < 2

\* A wake dropped for want of a route issues a path request, "whose response
\* brings the route and the relay's key for the subscriber's next wake"
\* (notify/rns.rs, Outcome): also when a key was known and was not the relay's.
RouteComesBack == missed ~> (path /\ key = "relay")

\* A token row disappears at a gateway's word only if the gateway it is
\* registered for has no use for its token: neither the other gateway's
\* refusal, "expected for one of the two sends", nor the refusal of a token the
\* device has replaced since takes the registration away (bridge.rs
\* dispatch_wake, TokenDB::invalidate_token).
PurgeIsDeserved ==
  [][\A s \in Subs :
       tokens[s] # NoToken /\ tokens'[s] = NoToken /\ inbox' = inbox
         => tokens[s].env \notin good[tokens[s].token]]_vars

Newest(requests) == {r \in requests : \A q \in requests : q.at <= r.at}

\* With apns-bridge a subscriber has at all times the token of the registration
\* that came last of those the bridge has handled: of those its database wrote,
\* and no gateway has refused since; it has none where there is none. No
\* registration is undone by an older one, and none brings back a token purged.
\* (fcm-bridge handles each on a thread and promises no such thing.)
LastTokenStands ==
  scene.bridge = "apns" =>
    \A s \in Subs :
      IF Handled(s) = {} THEN tokens[s] = NoToken
      ELSE \E r \in Newest(Handled(s)) : tokens[s] = r.entry
=============================================================================
