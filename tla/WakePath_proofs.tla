--------------------------- MODULE WakePath_proofs ---------------------------
(***************************************************************************)
(* For any number of subscribers, tokens, restarts and wakes: the rekey at *)
(* every start hashes no key twice, and no gateway's word takes a token    *)
(* that its own gateway would still serve.  For any peers, budget, window  *)
(* and offers: all peers' sessions together keep to the outbound budget    *)
(* (SyncBudget).                                                           *)
(***************************************************************************)
EXTENDS WakePath, SyncBudget, SequenceTheorems, FiniteSetTheorems, TLAPS

-----------------------------------------------------------------------------
(***************************************************************************)
(* The rows.                                                               *)
(***************************************************************************)

\* KeyedOnce with the type it is about.
RowsInv == rows \subseteq [sub : Subs, hashed : 0..1, kind : Kinds]

LEMMA CommandKeepsRows ==
  ASSUME RowsInv, NEW s \in Subs, NEW command \in Commands, NEW kind \in Kinds
  PROVE  store_notify_command(s, command, kind) \subseteq [sub : Subs, hashed : 0..1, kind : Kinds]
<1>1. register(s, kind) \subseteq [sub : Subs, hashed : 0..1, kind : Kinds]
  BY DEF RowsInv, register, Row
<1>2. unregister(s, kind) \subseteq rows /\ clear(s) \subseteq rows
  BY DEF unregister, clear
<1> QED BY <1>1, <1>2 DEF RowsInv, Commands, store_notify_command

\* A row under a delivery hash is never taken for one under an identity hash:
\* nothing is registered under what its key hashes to.
LEMMA RekeyKeepsRows ==
  ASSUME RowsInv
  PROVE  Rekeyed \subseteq [sub : Subs, hashed : 0..1, kind : Kinds]
<1>1. ASSUME NEW r \in rows, is_identity(r)
      PROVE  [r EXCEPT !.hashed = @ + 1] \in [sub : Subs, hashed : 0..1, kind : Kinds]
  <2>1. r.hashed = 0
    <3>1. r.hashed \in 0..1 /\ \A other \in rows : other.hashed \in 0..1
      BY DEF RowsInv
    <3>2. CASE r.hashed = 1
      <4>1. PICK other \in rows : other.hashed = r.hashed + 1
        BY <1>1, <3>2 DEF is_identity, OnEvidence
      <4> QED BY <4>1, <3>1, <3>2
    <3> QED BY <3>1, <3>2
  <2> QED BY <2>1 DEF RowsInv
<1>2. ASSUME NEW x \in Rekeyed
      PROVE  x \in [sub : Subs, hashed : 0..1, kind : Kinds]
  <2>1. x \in rows \/ \E r \in rows : is_identity(r) /\ x = [r EXCEPT !.hashed = @ + 1]
    BY <1>2 DEF Rekeyed
  <2> QED BY <2>1, <1>1 DEF RowsInv
<1> QED BY <1>2

LEMMA StepKeepsRows == RowsInv /\ [Next]_vars => RowsInv'
<1> SUFFICES ASSUME RowsInv, [Next]_vars PROVE RowsInv'
  OBVIOUS
<1>1. CASE NotifyService
  <2>1. PICK s \in Subs, command \in Commands, kind \in Kinds : handle_notify_command(s, command, kind)
    BY <1>1 DEF NotifyService
  <2>2. rows' = rows \/ rows' = store_notify_command(s, command, kind)
    BY <2>1 DEF handle_notify_command
  <2> QED BY <2>2, CommandKeepsRows DEF RowsInv
<1>2. CASE RestartNode
  BY <1>2, RekeyKeepsRows DEF RestartNode, RowsInv
<1>3. CASE rows' = rows
  BY <1>3 DEF RowsInv
<1>4. CASE \E s \in Subs, kind \in Kinds : WakeBegins(s, kind)
  BY <1>4, <1>3 DEF WakeBegins
<1>5. CASE \E row \in waking : Dispatch(row)
  BY <1>5, <1>3 DEF Dispatch
<1>6. CASE PathResponse \/ PathLost
  BY <1>6, <1>3 DEF PathResponse, PathLost
<1>7. CASE Bridge
  BY <1>7, <1>3 DEF Bridge, Arrives, WakeArrives, HandleRegistration, Rotated, Answered
<1>8. CASE UNCHANGED vars
  BY <1>8, <1>3 DEF vars
<1> QED BY <1>1, <1>2, <1>4, <1>5, <1>6, <1>7, <1>8 DEF Next, Node

\* "running this at every start, or again after a start where it failed, never
\* hashes a key twice" (notify/mod.rs rekey_identity_channel_rows), whatever is
\* registered and however often the node starts.
THEOREM NeverHashedTwice == Spec => []KeyedOnce
<1>1. Init => RowsInv
  BY ScenesAssumption DEF Init, RowsInv
<1>2. RowsInv => KeyedOnce
  <2> SUFFICES ASSUME RowsInv, NEW r \in rows PROVE r.hashed < 2
    BY DEF KeyedOnce
  <2>1. r.hashed \in 0..1
    BY DEF RowsInv
  <2> QED BY <2>1
<1> QED BY <1>1, <1>2, StepKeepsRows, PTL DEF Spec

-----------------------------------------------------------------------------
(***************************************************************************)
(* The registrations that wait at the bridge.                              *)
(***************************************************************************)

Entries == {NoToken} \cup {Entry(t, env) : t \in Nat, env \in Gateways}
Requests == [sub : Subs, entry : Entries, at : Nat]

\* A registration handled leaves the others as they were, in their order.
LEMMA OneTakenOut ==
  ASSUME NEW q \in Seq(Requests), NEW i \in 1..Len(q),
         NEW rest, rest = SubSeq(q, 1, i - 1) \o SubSeq(q, i + 1, Len(q))
  PROVE  /\ rest \in Seq(Requests)
         /\ Len(rest) = Len(q) - 1
         /\ \A k \in 1..Len(rest) : rest[k] = IF k < i THEN q[k] ELSE q[k + 1]
<1> DEFINE before == SubSeq(q, 1, i - 1)
           after == SubSeq(q, i + 1, Len(q))
<1>1. Len(q) \in Nat /\ \A k \in 1..Len(q) : q[k] \in Requests
  BY LenProperties, ElementOfSeq
<1>2. /\ before \in Seq(Requests)
      /\ Len(before) = i - 1
      /\ \A k \in 1..(i - 1) : before[k] = q[k]
  <2>1. \A k \in 1..(i - 1) : q[k] \in Requests
    BY <1>1
  <2>2. /\ before \in Seq(Requests)
        /\ Len(before) = IF 1 <= i - 1 THEN (i - 1) - 1 + 1 ELSE 0
        /\ \A k \in 1..((i - 1) - 1 + 1) : before[k] = q[1 + k - 1]
    BY <2>1, <1>1, SubSeqProperties
  <2> QED BY <2>2, <1>1
<1>3. /\ after \in Seq(Requests)
      /\ Len(after) = Len(q) - i
      /\ \A k \in 1..(Len(q) - i) : after[k] = q[k + i]
  <2>1. \A k \in (i + 1)..Len(q) : q[k] \in Requests
    BY <1>1
  <2>2. /\ after \in Seq(Requests)
        /\ Len(after) = IF i + 1 <= Len(q) THEN Len(q) - (i + 1) + 1 ELSE 0
        /\ \A k \in 1..(Len(q) - (i + 1) + 1) : after[k] = q[(i + 1) + k - 1]
    BY <2>1, <1>1, SubSeqProperties
  <2> QED BY <2>2, <1>1
<1>4. /\ rest \in Seq(Requests)
      /\ Len(rest) = Len(before) + Len(after)
      /\ \A k \in 1..(Len(before) + Len(after)) :
           rest[k] = IF k <= Len(before) THEN before[k] ELSE after[k - Len(before)]
  BY <1>2, <1>3, ConcatProperties
<1> HIDE DEF before, after
<1>5. /\ i \in Int /\ Len(before) = i - 1
      /\ Len(before) + Len(after) = Len(q) - 1
  BY <1>1, <1>2, <1>3
<1>6. ASSUME NEW k \in 1..(Len(q) - 1), k < i
      PROVE  rest[k] = q[k]
  <2>1. k <= Len(before) /\ k \in 1..(i - 1) /\ k \in 1..(Len(before) + Len(after))
    BY <1>1, <1>5, <1>6
  <2> QED BY <2>1, <1>2, <1>4
<1>7. ASSUME NEW k \in 1..(Len(q) - 1), ~(k < i)
      PROVE  rest[k] = q[k + 1]
  <2>1. /\ ~(k <= Len(before))
        /\ k - Len(before) = k - i + 1
        /\ k - i + 1 \in 1..(Len(q) - i)
        /\ (k - i + 1) + i = k + 1
        /\ k \in 1..(Len(before) + Len(after))
    BY <1>1, <1>5, <1>7
  <2> QED BY <2>1, <1>3, <1>4
<1>8. rest \in Seq(Requests) /\ Len(rest) = Len(q) - 1
  BY <1>4, <1>5
<1> QED BY <1>6, <1>7, <1>8

InboxInv ==
  /\ inbox \in Seq(Requests)
  /\ given \in Nat /\ sent \in Nat
  /\ scene \in Scenes

LEMMA StepKeepsInbox == InboxInv /\ [Next]_vars => InboxInv'
<1> SUFFICES ASSUME InboxInv, [Next]_vars PROVE InboxInv'
  OBVIOUS
<1>1. ASSUME NEW s \in Subs, Arrives(s) PROVE InboxInv'
  <2>1. PICK entry \in {NoToken} \cup {Entry(given, env) : env \in scene.envs} :
          inbox' = Append(inbox, [sub |-> s, entry |-> entry, at |-> sent'])
    BY <1>1 DEF Arrives
  <2>2. scene.envs \subseteq Gateways
    BY ScenesAssumption DEF InboxInv
  <2>3. [sub |-> s, entry |-> entry, at |-> sent'] \in Requests
    BY <1>1, <2>2 DEF Arrives, Requests, Entries, InboxInv
  <2>4. inbox' \in Seq(Requests)
    BY <2>1, <2>3, AppendProperties DEF InboxInv
  <2> QED BY <1>1, <2>4 DEF InboxInv, Arrives
<1>2. ASSUME NEW i \in 1..MaxPackets, HandleRegistration(i) PROVE InboxInv'
  <2>1. i \in 1..Len(inbox)
    BY <1>2, LenProperties DEF HandleRegistration, InboxInv
  <2>2. inbox' \in Seq(Requests)
    BY <2>1, <1>2, OneTakenOut DEF HandleRegistration, InboxInv
  <2> QED BY <1>2, <2>2 DEF InboxInv, HandleRegistration
<1>3. CASE Rotated
  BY <1>3 DEF InboxInv, Rotated
<1>4. CASE UNCHANGED <<inbox, given, sent, scene>>
  BY <1>4 DEF InboxInv
<1>5. CASE Node
  BY <1>5, <1>4 DEF Node, NotifyService, handle_notify_command, WakeBegins, RestartNode, Dispatch, bridge_vars
<1>6. CASE PathResponse \/ PathLost
  BY <1>6, <1>4 DEF PathResponse, PathLost, bridge_vars
<1>7. ASSUME NEW s \in Subs, WakeArrives(s) PROVE InboxInv'
  BY <1>7, <1>4 DEF WakeArrives
<1>8. ASSUME NEW send \in sends, NEW env \in Gateways, Answered(send, env) PROVE InboxInv'
  BY <1>8, <1>4 DEF Answered
<1>9. CASE UNCHANGED vars
  BY <1>9, <1>4 DEF vars, bridge_vars
<1> QED BY <1>1, <1>2, <1>3, <1>5, <1>6, <1>7, <1>8, <1>9 DEF Next, Bridge

LEMMA InitInbox == Init => InboxInv
BY EmptySeq DEF Init, InboxInv

\* Only a gateway's answer takes a token away without a registration.
LEMMA PurgeStep ==
  ASSUME InboxInv, [Next]_vars, NEW s \in Subs,
         tokens[s] # NoToken, tokens'[s] = NoToken, inbox' = inbox
  PROVE  tokens[s].env \notin good[tokens[s].token]
<1>1. ASSUME NEW send \in sends, NEW env \in Gateways, Answered(send, env)
      PROVE  tokens[s].env \notin good[tokens[s].token]
  <2>1. s \in invalidate_token(send, env) /\ should_invalidate(send, env)
    BY <1>1 DEF Answered
  <2>2. tokens[s] = Entry(send.to.token, env)
    BY <2>1 DEF invalidate_token, ByToken
  <2> QED BY <2>1, <2>2 DEF Entry, should_invalidate
<1>2. ASSUME NEW i \in 1..MaxPackets, HandleRegistration(i) PROVE FALSE
  <2>1. i \in 1..Len(inbox)
    BY <1>2, LenProperties DEF HandleRegistration, InboxInv
  <2>2. Len(inbox') = Len(inbox) - 1
    BY <2>1, <1>2, OneTakenOut DEF HandleRegistration, InboxInv
  <2> QED BY <2>2, LenProperties DEF InboxInv
<1>3. tokens' # tokens
  OBVIOUS
<1>4. ~Node
  BY <1>3 DEF Node, NotifyService, handle_notify_command, WakeBegins, RestartNode, Dispatch, bridge_vars
<1>5. ~(PathResponse \/ PathLost \/ Rotated \/ UNCHANGED vars)
  BY <1>3 DEF PathResponse, PathLost, Rotated, vars, bridge_vars
<1>6. ASSUME NEW u \in Subs PROVE ~Arrives(u) /\ ~WakeArrives(u)
  BY <1>3 DEF Arrives, WakeArrives
<1> QED BY <1>1, <1>2, <1>4, <1>5, <1>6 DEF Next, Bridge

\* "a BadDeviceToken from the fanout gateway just means the token doesn't
\* belong to that environment" (apns-bridge bridge.rs, dispatch_wake): whatever
\* gateways answer, late or early, a row goes only if its own has no use for it.
THEOREM OnlyDeservedPurges == Spec => PurgeIsDeserved
<1>1. InboxInv /\ [Next]_vars =>
        [\A s \in Subs :
           tokens[s] # NoToken /\ tokens'[s] = NoToken /\ inbox' = inbox
             => tokens[s].env \notin good[tokens[s].token]]_vars
  BY PurgeStep
<1> QED BY <1>1, InitInbox, StepKeepsInbox, PTL DEF Spec, PurgeIsDeserved

-----------------------------------------------------------------------------
(***************************************************************************)
(* The registration that stands.                                           *)
(***************************************************************************)

\* The requests are numbered in the order they came; what apns-bridge handled
\* is older than what waits.
LastInv ==
  /\ InboxInv
  /\ tokens \in [Subs -> Entries]
  /\ standing \subseteq Requests /\ \A r \in standing : r.at <= sent
  /\ \A i \in 1..Len(inbox) : inbox[i] \in standing
  /\ \A i, j \in 1..Len(inbox) : i < j => inbox[i].at < inbox[j].at
  /\ scene.bridge = "apns" =>
       \A s \in Subs : \A r \in Handled(s), i \in 1..Len(inbox) : r.at < inbox[i].at
  /\ LastTokenStands

LEMMA InitLast == Init => LastInv
BY InitInbox, EmptySeq DEF Init, LastInv, Entries, LastTokenStands, Handled

LEMMA WaitingPlaces == InboxInv => DOMAIN inbox = 1..Len(inbox) /\ Len(inbox) \in Nat
BY LenProperties DEF InboxInv

\* One more that waits.
LEMMA ArrivesKeepsLast ==
  ASSUME LastInv, NEW u \in Subs, Arrives(u), InboxInv'
  PROVE  LastInv'
<1>1. PICK entry \in {NoToken} \cup {Entry(given, env) : env \in scene.envs} :
        /\ inbox' = Append(inbox, [sub |-> u, entry |-> entry, at |-> sent'])
        /\ standing' = standing \cup {[sub |-> u, entry |-> entry, at |-> sent']}
  BY DEF Arrives
<1> DEFINE new == [sub |-> u, entry |-> entry, at |-> sent']
<1>2. new \in Requests /\ new.at = sent' /\ sent' = sent + 1 /\ sent \in Nat
  <2>1. scene.envs \subseteq Gateways
    BY ScenesAssumption DEF LastInv, InboxInv
  <2>2. entry \in Entries
    BY <2>1 DEF Entries, LastInv, InboxInv
  <2> QED BY <2>2 DEF Requests, LastInv, InboxInv, Arrives
<1>3. inbox' = Append(inbox, new) /\ standing' = standing \cup {new}
  BY <1>1
<1> HIDE DEF new
<1>4. /\ Len(inbox') = Len(inbox) + 1
      /\ \A i \in 1..Len(inbox) : inbox'[i] = inbox[i]
      /\ inbox'[Len(inbox) + 1] = new
  BY <1>2, <1>3, AppendProperties DEF LastInv, InboxInv
<1>5. /\ DOMAIN inbox = 1..Len(inbox) /\ DOMAIN inbox' = 1..Len(inbox')
      /\ Len(inbox) \in Nat /\ \A i \in 1..Len(inbox') : i \in 1..Len(inbox) \/ i = Len(inbox) + 1
  BY <1>4, WaitingPlaces, LenProperties DEF LastInv, InboxInv
<1>6. ASSUME NEW r \in standing PROVE r # new /\ r.at <= sent /\ r.at < new.at /\ r.at \in Nat
  BY <1>2 DEF LastInv, Requests
<1>7. ASSUME NEW s \in Subs PROVE Handled(s)' = Handled(s)
  <2>1. ASSUME NEW r \in standing
        PROVE  (\A i \in DOMAIN inbox' : inbox'[i] # r) <=> \A i \in DOMAIN inbox : inbox[i] # r
    <3>1. r # new
      BY <1>6
    <3>2. \A i \in 1..Len(inbox) : i \in 1..Len(inbox') /\ inbox'[i] = inbox[i]
      BY <1>4, <1>5
    <3>3. \A i \in 1..Len(inbox') : inbox'[i] = new \/ \E j \in 1..Len(inbox) : inbox'[i] = inbox[j]
      BY <1>4, <1>5
    <3> QED BY <1>5, <3>1, <3>2, <3>3
  <2>2. Len(inbox) + 1 \in DOMAIN inbox' /\ inbox'[Len(inbox) + 1] = new
    BY <1>4, <1>5
  <2> QED BY <1>3, <2>1, <2>2 DEF Handled
<1>8. tokens' = tokens /\ scene' = scene
  BY DEF Arrives
<1>9. /\ standing' \subseteq Requests /\ \A r \in standing' : r.at <= sent'
      /\ \A i \in 1..Len(inbox') : inbox'[i] \in standing'
  <2>1. \A r \in standing : r.at <= sent'
    BY <1>2, <1>6
  <2> QED BY <1>2, <1>3, <1>4, <1>5, <2>1 DEF LastInv
<1>10. \A i, j \in 1..Len(inbox') : i < j => inbox'[i].at < inbox'[j].at
  <2>1. ASSUME NEW i \in 1..Len(inbox'), NEW j \in 1..Len(inbox'), i < j
        PROVE  inbox'[i].at < inbox'[j].at
    <3>1. i \in 1..Len(inbox)
      BY <1>4, <1>5, <2>1
    <3>2. CASE j = Len(inbox) + 1
      BY <1>4, <1>6, <3>1, <3>2 DEF LastInv
    <3>3. CASE j \in 1..Len(inbox)
      BY <1>4, <2>1, <3>1, <3>3 DEF LastInv
    <3> QED BY <1>5, <3>2, <3>3
  <2> QED BY <2>1
<1>11. ASSUME scene.bridge = "apns", NEW s \in Subs, NEW r \in Handled(s), NEW i \in 1..Len(inbox')
       PROVE  r.at < inbox'[i].at
  <2>1. r \in standing
    BY DEF Handled
  <2>2. CASE i = Len(inbox) + 1
    BY <1>4, <1>6, <2>1, <2>2
  <2>3. CASE i \in 1..Len(inbox)
    BY <1>4, <1>11, <2>3 DEF LastInv
  <2> QED BY <1>5, <2>2, <2>3
<1>12. LastTokenStands'
  BY <1>7, <1>8 DEF LastInv, LastTokenStands, Newest
<1> QED BY <1>7, <1>8, <1>9, <1>10, <1>11, <1>12 DEF LastInv

\* One taken out and written, or failed by the database.
LEMMA HandledKeepsLast ==
  ASSUME LastInv, NEW i \in 1..MaxPackets, HandleRegistration(i), InboxInv'
  PROVE  LastInv'
<1> DEFINE request == inbox[i]
<1>1. /\ i \in 1..Len(inbox) /\ request \in Requests /\ Len(inbox) \in Nat
      /\ DOMAIN inbox = 1..Len(inbox) /\ DOMAIN inbox' = 1..Len(inbox')
  BY LenProperties, ElementOfSeq DEF HandleRegistration, LastInv, InboxInv
<1>2. /\ Len(inbox') = Len(inbox) - 1
      /\ \A k \in 1..Len(inbox') : inbox'[k] = IF k < i THEN inbox[k] ELSE inbox[k + 1]
  <2>1. inbox \in Seq(Requests)
    BY DEF LastInv, InboxInv
  <2>2. inbox' = SubSeq(inbox, 1, i - 1) \o SubSeq(inbox, i + 1, Len(inbox))
    BY DEF HandleRegistration
  <2> QED BY <1>1, <2>1, <2>2, OneTakenOut
<1>3. scene' = scene /\ sent' = sent
  BY DEF HandleRegistration
<1>4. ASSUME NEW k \in 1..Len(inbox), k # i PROVE inbox[k] # request
  <2>1. inbox[k].at # request.at
    <3>1. inbox[k] \in Requests
      BY ElementOfSeq DEF LastInv, InboxInv
    <3>2. k < i \/ i < k
      BY <1>1, <1>4
    <3> QED BY <1>1, <3>1, <3>2 DEF LastInv, Requests
  <2> QED BY <2>1
<1> DEFINE From(k) == IF k < i THEN k ELSE k + 1
<1>5. ASSUME NEW k \in 1..Len(inbox')
      PROVE  From(k) \in 1..Len(inbox) /\ From(k) # i /\ inbox'[k] = inbox[From(k)]
  BY <1>1, <1>2
<1>6. ASSUME NEW k \in 1..Len(inbox), k # i
      PROVE  \E j \in 1..Len(inbox') : inbox'[j] = inbox[k]
  <2>1. CASE k < i
    <3>1. k \in 1..Len(inbox') /\ inbox'[k] = inbox[k]
      BY <1>1, <1>2, <2>1
    <3> QED BY <3>1
  <2>2. CASE i < k
    <3>1. k - 1 \in 1..Len(inbox') /\ ~(k - 1 < i) /\ (k - 1) + 1 = k
      BY <1>1, <1>2, <2>2
    <3> QED BY <1>2, <3>1
  <2> QED BY <1>1, <1>6, <2>1, <2>2
<1> HIDE DEF request
<1>7. ASSUME NEW r \in standing, r # request
      PROVE  (\A k \in DOMAIN inbox' : inbox'[k] # r) <=> \A k \in DOMAIN inbox : inbox[k] # r
  <2>1. \A k \in 1..Len(inbox) : inbox[k] = r => k # i
    BY <1>7 DEF request
  <2> HIDE DEF From
  <2> QED BY <1>1, <1>5, <1>6, <2>1
<1>8. request \in standing /\ \A s \in Subs : request \notin Handled(s)
  BY <1>1 DEF LastInv, Handled, request
<1>9. \A k \in DOMAIN inbox' : inbox'[k] # request
  BY <1>1, <1>4, <1>5
<1>10. /\ standing' \subseteq standing
       /\ \A k \in 1..Len(inbox') : inbox'[k] \in standing'
  <2>1. standing' = standing \/ standing' = standing \ {request}
    BY DEF HandleRegistration, try_handle_register, request
  <2>2. \A k \in 1..Len(inbox') : inbox'[k] \in standing
    BY <1>5 DEF LastInv
  <2> QED BY <1>1, <1>9, <2>1, <2>2
<1>11. \A k, j \in 1..Len(inbox') : k < j => inbox'[k].at < inbox'[j].at
  <2>1. ASSUME NEW k \in 1..Len(inbox'), NEW j \in 1..Len(inbox'), k < j
        PROVE  From(k) < From(j)
    BY <1>1, <1>2, <2>1
  <2> HIDE DEF From
  <2> QED BY <1>5, <2>1 DEF LastInv
<1>12. ASSUME scene.bridge = "apns", NEW s \in Subs, NEW r \in Handled(s)', NEW k \in 1..Len(inbox')
       PROVE  r.at < inbox'[k].at
  <2>1. i = 1
    BY <1>12 DEF HandleRegistration, spawned, InThreads
  <2>2. r \in standing /\ r.sub = s
    BY <1>10 DEF Handled
  <2>3. CASE r = request
    <3>1. From(k) \in 1..Len(inbox) /\ 1 < From(k)
      BY <1>1, <1>2, <2>1
    <3> HIDE DEF From
    <3> QED BY <1>1, <1>5, <2>1, <2>3, <3>1 DEF LastInv, request
  <2>4. CASE r # request
    <3>1. r \in Handled(s)
      BY <1>7, <2>2, <2>4 DEF Handled
    <3> HIDE DEF From
    <3> QED BY <1>5, <1>12, <3>1 DEF LastInv
  <2> QED BY <2>3, <2>4
<1>13. LastTokenStands'
  <2> SUFFICES ASSUME scene.bridge = "apns", NEW s \in Subs
               PROVE  IF Handled(s)' = {} THEN tokens'[s] = NoToken
                      ELSE \E r \in Newest(Handled(s)') : tokens'[s] = r.entry
    BY <1>3 DEF LastTokenStands, Newest
  <2>1. IF Handled(s) = {} THEN tokens[s] = NoToken
        ELSE \E r \in Newest(Handled(s)) : tokens[s] = r.entry
    BY DEF LastInv, LastTokenStands
  <2>2. CASE standing' = standing \ {request} /\ tokens' = tokens
    <3>1. Handled(s)' = Handled(s)
      BY <1>7, <1>8, <2>2 DEF Handled
    <3> QED BY <2>1, <2>2, <3>1
  <2>3. CASE standing' = standing /\ tokens' = [tokens EXCEPT ![request.sub] = request.entry]
    <3>1. CASE request.sub # s
      <4>1. Handled(s)' = Handled(s)
        BY <1>7, <1>8, <2>3, <3>1 DEF Handled
      <4>2. tokens'[s] = tokens[s]
        BY <2>3, <3>1 DEF LastInv
      <4> QED BY <2>1, <4>1, <4>2
    <3>2. CASE request.sub = s
      <4>1. Handled(s)' = Handled(s) \cup {request}
        BY <1>7, <1>8, <1>9, <2>3, <3>2 DEF Handled
      <4>2. \A r \in Handled(s) : r.at <= request.at
        <5>1. \A r \in Handled(s) : r.at < request.at
          BY <1>1 DEF LastInv, request
        <5>2. \A r \in Handled(s) : r.at \in Nat
          BY DEF Handled, LastInv, Requests
        <5> QED BY <1>1, <5>1, <5>2 DEF Requests
      <4>3. request.at <= request.at
        BY <1>1 DEF Requests
      <4>4. request \in Newest(Handled(s)')
        BY <4>1, <4>2, <4>3 DEF Newest
      <4>5. tokens'[s] = request.entry
        BY <2>3, <3>2 DEF LastInv
      <4> QED BY <4>1, <4>4, <4>5
    <3> QED BY <3>1, <3>2
  <2> QED BY <2>2, <2>3 DEF HandleRegistration, try_handle_register, request
<1>14. tokens' \in [Subs -> Entries]
  <2>1. request.entry \in Entries
    BY <1>1 DEF Requests
  <2> QED BY <2>1 DEF LastInv, HandleRegistration, try_handle_register, request
<1>15. standing' \subseteq Requests /\ \A r \in standing' : r.at <= sent'
  BY <1>3, <1>10 DEF LastInv
<1> QED BY <1>3, <1>10, <1>11, <1>12, <1>13, <1>14, <1>15 DEF LastInv

\* A refusal takes back what the bridge has handled.
LEMMA AnswerKeepsLast ==
  ASSUME LastInv, NEW send \in sends, NEW env \in Gateways, Answered(send, env), InboxInv'
  PROVE  LastInv'
<1> DEFINE gone == invalidate_token(send, env)
<1>1. inbox' = inbox /\ scene' = scene /\ sent' = sent
  BY DEF Answered
<1>2. CASE UNCHANGED <<tokens, standing>>
  <2>1. \A s \in Subs : Handled(s)' = Handled(s)
    BY <1>1, <1>2 DEF Handled
  <2> QED BY <1>1, <1>2, <2>1 DEF LastInv, LastTokenStands, Newest
<1>3. CASE /\ tokens' = [s \in Subs |-> IF s \in gone THEN NoToken ELSE tokens[s]]
           /\ standing' = standing \ UNION {Handled(s) : s \in gone}
  <2> HIDE DEF gone
  <2>1. DOMAIN inbox = 1..Len(inbox)
    BY LenProperties DEF LastInv, InboxInv
  <2>2. ASSUME NEW s \in Subs
        PROVE  Handled(s)' = IF s \in gone THEN {} ELSE Handled(s)
    BY <1>1, <1>3 DEF Handled
  <2>3. standing' \subseteq standing /\ \A i \in 1..Len(inbox) : inbox[i] \in standing'
    BY <1>3, <2>1 DEF LastInv, Handled
  <2>4. tokens' \in [Subs -> Entries]
    BY <1>3 DEF LastInv, Entries
  <2>5. LastTokenStands'
    <3> SUFFICES ASSUME scene.bridge = "apns", NEW s \in Subs
                 PROVE  IF Handled(s)' = {} THEN tokens'[s] = NoToken
                        ELSE \E r \in Newest(Handled(s)') : tokens'[s] = r.entry
      BY <1>1 DEF LastTokenStands, Newest
    <3>1. CASE s \in gone
      BY <1>3, <2>2, <3>1
    <3>2. CASE s \notin gone
      <4>1. tokens'[s] = tokens[s] /\ Handled(s)' = Handled(s)
        BY <1>3, <2>2, <3>2
      <4> QED BY <4>1 DEF LastInv, LastTokenStands
    <3> QED BY <3>1, <3>2
  <2>6. ASSUME scene.bridge = "apns", NEW s \in Subs, NEW r \in Handled(s)', NEW i \in 1..Len(inbox)
        PROVE  r.at < inbox[i].at
    <3>1. r \in Handled(s)
      BY <2>2
    <3> QED BY <2>6, <3>1 DEF LastInv
  <2> QED BY <1>1, <2>3, <2>4, <2>5, <2>6 DEF LastInv
<1> QED BY <1>2, <1>3 DEF Answered

LEMMA StepKeepsLast == LastInv /\ [Next]_vars => LastInv'
<1> SUFFICES ASSUME LastInv, [Next]_vars PROVE LastInv'
  OBVIOUS
<1>1. InboxInv'
  BY StepKeepsInbox DEF LastInv
<1>2. CASE UNCHANGED <<inbox, tokens, standing, sent, scene>>
  <2>1. \A s \in Subs : Handled(s)' = Handled(s)
    BY <1>2 DEF Handled
  <2> QED BY <1>1, <1>2, <2>1 DEF LastInv, LastTokenStands, Newest
<1>3. ASSUME NEW s \in Subs, Arrives(s) PROVE LastInv'
  BY <1>1, <1>3, ArrivesKeepsLast
<1>4. ASSUME NEW i \in 1..MaxPackets, HandleRegistration(i) PROVE LastInv'
  BY <1>1, <1>4, HandledKeepsLast
<1>5. ASSUME NEW send \in sends, NEW env \in Gateways, Answered(send, env) PROVE LastInv'
  BY <1>1, <1>5, AnswerKeepsLast
<1>6. CASE Node
  BY <1>6, <1>2 DEF Node, NotifyService, handle_notify_command, WakeBegins, RestartNode, Dispatch, bridge_vars
<1>7. CASE PathResponse \/ PathLost \/ Rotated \/ UNCHANGED vars
  BY <1>7, <1>2 DEF PathResponse, PathLost, Rotated, vars, bridge_vars
<1>8. ASSUME NEW s \in Subs, WakeArrives(s) PROVE LastInv'
  BY <1>8, <1>2 DEF WakeArrives
<1> QED BY <1>3, <1>4, <1>5, <1>6, <1>7, <1>8 DEF Next, Bridge

\* apns-bridge handles registrations where they arrive (bridge.rs): for any
\* number of them, database errors and gateways' refusals in between, a
\* subscriber's token is that of the last one handled and written, until a
\* gateway refuses it.
THEOREM LastRegistrationStands == Spec => []LastTokenStands
<1>1. LastInv => LastTokenStands
  BY DEF LastInv
<1> QED BY <1>1, InitLast, StepKeepsLast, PTL DEF Spec

-----------------------------------------------------------------------------
(***************************************************************************)
(* Types of WakePath.                                                      *)
(***************************************************************************)

NodeTypes ==
  /\ RowsInv
  /\ waking \subseteq [sub : Subs, hashed : {1}, kind : Kinds]
  /\ path \in BOOLEAN /\ key \in {"none", "other", "relay"}
  /\ packets \subseteq Subs

\* What a subscriber may register: a token the device was given, or none.
Known == {NoToken} \cup [token : 1..Tokens, env : Gateways]

TokenTypes ==
  /\ InboxInv
  /\ given \in 1..Tokens /\ DOMAIN good = 1..Tokens
  /\ \A i \in 1..Len(inbox) : inbox[i].entry \in Known
  /\ tokens \in [Subs -> Known]

LEMMA StepKeepsNode == NodeTypes /\ [Next]_vars => NodeTypes'
<1> SUFFICES ASSUME NodeTypes, [Next]_vars PROVE NodeTypes'
  OBVIOUS
<1>1. RowsInv'
  BY StepKeepsRows DEF NodeTypes
<1>2. CASE NotifyService
  BY <1>1, <1>2 DEF NotifyService, handle_notify_command, remember_self_hosted_relay, NodeTypes
<1>3. ASSUME NEW s \in Subs, NEW kind \in Kinds, WakeBegins(s, kind) PROVE NodeTypes'
  <2>1. get_for_channel(s, kind) \subseteq [sub : Subs, hashed : {1}, kind : Kinds]
    BY DEF get_for_channel, Row
  <2>2. waking' = waking \cup get_for_channel(s, kind) /\ UNCHANGED <<path, key, packets>>
    BY <1>3 DEF WakeBegins, route_vars
  <2> QED BY <1>1, <2>1, <2>2 DEF NodeTypes
<1>4. CASE RestartNode
  BY <1>1, <1>4 DEF RestartNode, route_vars, NodeTypes
<1>5. ASSUME NEW row \in waking, Dispatch(row) PROVE NodeTypes'
  <2>1. row.sub \in Subs
    BY DEF NodeTypes
  <2>2. waking' \subseteq waking /\ packets' \subseteq packets \cup {row.sub} /\ UNCHANGED <<path, key>>
    BY <1>5 DEF Dispatch
  <2> QED BY <1>1, <2>1, <2>2 DEF NodeTypes
<1>6. CASE PathResponse \/ PathLost
  BY <1>1, <1>6 DEF PathResponse, PathLost, NodeTypes
<1>7. CASE Bridge
  <2>1. waking' = waking /\ UNCHANGED <<path, key>> /\ packets' \subseteq packets
    BY <1>7 DEF Bridge, Arrives, WakeArrives, HandleRegistration, Rotated, Answered, route_vars
  <2> QED BY <1>1, <2>1 DEF NodeTypes
<1>8. CASE UNCHANGED vars
  BY <1>1, <1>8 DEF vars, route_vars, NodeTypes
<1> QED BY <1>2, <1>3, <1>4, <1>5, <1>6, <1>7, <1>8 DEF Next, Node

LEMMA StepKeepsTokens == TokenTypes /\ [Next]_vars => TokenTypes'
<1> SUFFICES ASSUME TokenTypes, [Next]_vars PROVE TokenTypes'
  OBVIOUS
<1>1. InboxInv /\ InboxInv'
  BY StepKeepsInbox DEF TokenTypes
<1>2. ASSUME NEW s \in Subs, Arrives(s) PROVE TokenTypes'
  <2>1. PICK entry \in {NoToken} \cup {Entry(given, env) : env \in scene.envs} :
          inbox' = Append(inbox, [sub |-> s, entry |-> entry, at |-> sent'])
    BY <1>2 DEF Arrives
  <2>2. scene.envs \subseteq Gateways
    BY ScenesAssumption DEF TokenTypes, InboxInv
  <2>3. entry \in Known
    BY <2>2 DEF Known, Entry, TokenTypes
  <2>4. [sub |-> s, entry |-> entry, at |-> sent'] \in Requests
    <3>1. given \in Nat /\ sent' \in Nat
      BY <1>1 DEF InboxInv
    <3> QED BY <2>2, <3>1 DEF Requests, Entries
  <2>5. /\ Len(inbox') = Len(inbox) + 1
        /\ \A i \in 1..Len(inbox) : inbox'[i] = inbox[i]
        /\ inbox'[Len(inbox) + 1] = [sub |-> s, entry |-> entry, at |-> sent']
    BY <2>1, <2>4, AppendProperties DEF TokenTypes, InboxInv
  <2>6. \A i \in 1..Len(inbox') : inbox'[i].entry \in Known
    <3>1. Len(inbox) \in Nat
      BY LenProperties DEF TokenTypes, InboxInv
    <3>2. ASSUME NEW i \in 1..Len(inbox') PROVE i \in 1..Len(inbox) \/ i = Len(inbox) + 1
      BY <2>5, <3>1
    <3> QED BY <2>3, <2>5, <3>2 DEF TokenTypes
  <2> QED BY <1>1, <1>2, <2>6 DEF Arrives, TokenTypes
<1>3. ASSUME NEW i \in 1..MaxPackets, HandleRegistration(i) PROVE TokenTypes'
  <2>1. i \in 1..Len(inbox) /\ Len(inbox) \in Nat
    BY <1>1, <1>3, LenProperties DEF HandleRegistration, InboxInv
  <2>2. /\ Len(inbox') = Len(inbox) - 1
        /\ \A k \in 1..Len(inbox') : inbox'[k] = IF k < i THEN inbox[k] ELSE inbox[k + 1]
    <3>1. inbox \in Seq(Requests)
      BY <1>1 DEF InboxInv
    <3>2. inbox' = SubSeq(inbox, 1, i - 1) \o SubSeq(inbox, i + 1, Len(inbox))
      BY <1>3 DEF HandleRegistration
    <3> QED BY <2>1, <3>1, <3>2, OneTakenOut
  <2>3. \A k \in 1..Len(inbox') : k \in 1..Len(inbox) /\ k + 1 \in 1..Len(inbox)
    BY <2>1, <2>2
  <2>4. \A k \in 1..Len(inbox') : inbox'[k].entry \in Known
    BY <2>2, <2>3 DEF TokenTypes
  <2>5. inbox[i].entry \in Known
    BY <2>1 DEF TokenTypes
  <2>6. tokens' \in [Subs -> Known]
    BY <1>3, <2>5 DEF HandleRegistration, try_handle_register, TokenTypes
  <2> QED BY <1>1, <1>3, <2>4, <2>6 DEF HandleRegistration, TokenTypes
<1>4. CASE Rotated
  <2>1. given' \in 1..Tokens
    BY <1>4, TokensAssumption DEF Rotated, TokenTypes
  <2> QED BY <1>1, <1>4, <2>1 DEF Rotated, TokenTypes
<1>5. ASSUME NEW send \in sends, NEW env \in Gateways, Answered(send, env) PROVE TokenTypes'
  <2>1. tokens' \in [Subs -> Known]
    BY <1>5 DEF Answered, TokenTypes, Known
  <2> QED BY <1>1, <1>5, <2>1 DEF Answered, TokenTypes
<1>6. CASE UNCHANGED <<inbox, given, good, tokens>>
  BY <1>1, <1>6 DEF TokenTypes
<1>7. CASE Node
  BY <1>6, <1>7 DEF Node, NotifyService, handle_notify_command, WakeBegins, RestartNode, Dispatch, bridge_vars
<1>8. CASE PathResponse \/ PathLost \/ UNCHANGED vars
  BY <1>6, <1>8 DEF PathResponse, PathLost, vars, bridge_vars
<1>9. ASSUME NEW s \in Subs, WakeArrives(s) PROVE TokenTypes'
  BY <1>6, <1>9 DEF WakeArrives
<1> QED BY <1>2, <1>3, <1>4, <1>5, <1>7, <1>8, <1>9 DEF Next, Bridge

\* Types for any subscribers, tokens, restarts and wakes: every wake that waits
\* is for a row under a notify_key, and a token the bridge has is one of the
\* device's, for a gateway there is (notify/mod.rs get_for_channel, TokenDB).
THEOREM TypeCorrect == Spec => []TypeOK
<1>1. Init => NodeTypes /\ TokenTypes
  <2> SUFFICES ASSUME Init PROVE NodeTypes /\ TokenTypes
    OBVIOUS
  <2>1. NodeTypes
    BY ScenesAssumption DEF Init, NodeTypes, RowsInv
  <2>2. inbox = <<>> /\ given = 1 /\ good \in [1..Tokens -> scene.good] /\ tokens = [s \in Subs |-> NoToken]
    BY DEF Init
  <2>3. Len(inbox) = 0
    BY <2>2, EmptySeq
  <2> QED BY <2>1, <2>2, <2>3, InitInbox, TokensAssumption DEF TokenTypes, Known
<1>2. NodeTypes /\ TokenTypes => TypeOK
  <2> SUFFICES ASSUME NodeTypes, TokenTypes PROVE TypeOK
    OBVIOUS
  <2>1. rows \subseteq [sub : Subs, hashed : 0..2, kind : Kinds]
    BY DEF NodeTypes, RowsInv
  <2> QED BY <2>1 DEF NodeTypes, TokenTypes, Known, TypeOK
<1> QED BY <1>1, <1>2, StepKeepsNode, StepKeepsTokens, PTL DEF Spec

-----------------------------------------------------------------------------
(***************************************************************************)
(* Sums over functions.  SumFunction is a fold: its equation has a         *)
(* solution, and any solution sums in any order.  Induction is over sets   *)
(* of numbers, by their least element.                                     *)
(***************************************************************************)

LEMMA Induction ==
  ASSUME NEW T \in SUBSET Nat, 0 \in T, \A n \in T : n + 1 \in T
  PROVE  T = Nat
<1>1. SUFFICES ASSUME Nat \ T # {} PROVE FALSE
  OBVIOUS
<1>2. \E x \in Nat \ T : \A y \in Nat \ T : ~(<<y, x>> \in OpToRel(<, Nat))
  BY <1>1, NatLessThanWellFounded, WFMin
<1>3. \E x \in Nat \ T : \A y \in Nat \ T : ~(y < x)
  BY <1>2 DEF OpToRel
<1>4. PICK x \in Nat \ T : \A y \in Nat \ T : ~(y < x)
  BY <1>3
<1>5. x - 1 \in T
  BY <1>4
<1> QED BY <1>4, <1>5

Any(s) == CHOOSE x \in s : TRUE

LEMMA AnyIsIn == \A s : s # {} => Any(s) \in s
BY DEF Any

\* The equation by which the fold of a sum is defined.
Equation(g, f, S) ==
  g = [s \in SUBSET S |-> IF s = {} THEN 0 ELSE f[Any(s)] + g[s \ {Any(s)}]]

LEMMA SumIsFold ==
  ASSUME NEW f, NEW S, DOMAIN f = S
  PROVE  SumFunction(f) = (CHOOSE g : Equation(g, f, S))[S]
BY DEF SumFunction, SumFunctionOnSet, FoldFunctionOnSet, MapThenFoldSet, Equation, Any

\* What the equation says of subsets of k elements at most.
UpTo(k, g, f, S) ==
  \A s \in SUBSET S : Cardinality(s) <= k =>
    g[s] = IF s = {} THEN 0 ELSE f[Any(s)] + g[s \ {Any(s)}]

LEMMA OneLess ==
  ASSUME NEW S, IsFiniteSet(S), NEW s \in SUBSET S, NEW x \in s
  PROVE  /\ IsFiniteSet(s) /\ s \ {x} \in SUBSET S /\ Cardinality(s) \in Nat
         /\ Cardinality(s \ {x}) = Cardinality(s) - 1
BY FS_Subset, FS_RemoveElement, FS_CardinalityType

LEMMA FoldExists ==
  ASSUME NEW S, IsFiniteSet(S), NEW f \in [S -> Nat]
  PROVE  \E g \in [SUBSET S -> Nat] : Equation(g, f, S)
<1> DEFINE T == {k \in Nat : \E g \in [SUBSET S -> Nat] : UpTo(k, g, f, S)}
<1>1. 0 \in T
  <2> DEFINE g == [s \in SUBSET S |-> 0]
  <2>1. g \in [SUBSET S -> Nat]
    OBVIOUS
  <2>2. ASSUME NEW s \in SUBSET S, Cardinality(s) <= 0 PROVE s = {}
    BY <2>2, FS_Subset, FS_EmptySet, FS_CardinalityType
  <2>3. UpTo(0, g, f, S)
    BY <2>2 DEF UpTo
  <2> QED BY <2>1, <2>3
<1>2. ASSUME NEW k \in T PROVE k + 1 \in T
  <2>1. PICK g \in [SUBSET S -> Nat] : UpTo(k, g, f, S)
    BY <1>2
  <2> DEFINE v(s) == IF s = {} THEN 0 ELSE f[Any(s)] + g[s \ {Any(s)}]
             h == [s \in SUBSET S |-> v(s)]
  <2>2. ASSUME NEW s \in SUBSET S PROVE v(s) \in Nat
    <3>1. CASE s = {}
      BY <3>1
    <3>2. CASE s # {}
      <4>1. Any(s) \in s
        BY <3>2, AnyIsIn
      <4>2. f[Any(s)] \in Nat /\ g[s \ {Any(s)}] \in Nat
        BY <4>1
      <4> QED BY <4>2
    <3> QED BY <3>1, <3>2
  <2>3. h \in [SUBSET S -> Nat]
    BY <2>2
  <2>4. ASSUME NEW s \in SUBSET S, Cardinality(s) <= k PROVE h[s] = g[s]
    BY <2>1, <2>4 DEF UpTo
  <2>5. ASSUME NEW s \in SUBSET S, Cardinality(s) <= k + 1, s # {}
        PROVE  h[s \ {Any(s)}] = g[s \ {Any(s)}]
    <3>1. Any(s) \in s
      BY <2>5, AnyIsIn
    <3>2. s \ {Any(s)} \in SUBSET S /\ Cardinality(s \ {Any(s)}) <= k
      BY <2>5, <3>1, OneLess, k \in Nat
    <3> HIDE DEF h
    <3> QED BY <2>4, <3>2
  <2>6. UpTo(k + 1, h, f, S)
    BY <2>5 DEF UpTo
  <2>7. k + 1 \in Nat
    OBVIOUS
  <2> HIDE DEF h
  <2> QED BY <2>3, <2>6, <2>7
<1>3. T = Nat
  BY <1>1, <1>2, Induction, Zenon
<1>4. PICK g \in [SUBSET S -> Nat] : UpTo(Cardinality(S), g, f, S)
  BY <1>3, FS_CardinalityType
<1>5. Equation(g, f, S)
  <2>1. \A s \in SUBSET S : Cardinality(s) <= Cardinality(S)
    BY FS_Subset
  <2>2. \A s \in SUBSET S : g[s] = IF s = {} THEN 0 ELSE f[Any(s)] + g[s \ {Any(s)}]
    BY <1>4, <2>1 DEF UpTo
  <2> QED BY <2>2 DEF Equation
<1> QED BY <1>5

\* g is the sum of f over each subset, whichever element is taken first.
SumsOver(g, f, S) ==
  /\ g \in [SUBSET S -> Nat] /\ g[{}] = 0
  /\ \A s \in SUBSET S : \A x \in s : g[s] = f[x] + g[s \ {x}]

LEMMA AnyOrder ==
  ASSUME NEW S, IsFiniteSet(S), NEW f \in [S -> Nat], NEW g, Equation(g, f, S)
  PROVE  SumsOver(g, f, S)
<1>1. \A s \in SUBSET S : g[s] = IF s = {} THEN 0 ELSE f[Any(s)] + g[s \ {Any(s)}]
  BY DEF Equation
<1> DEFINE Sums(s) == g[s] \in Nat /\ \A x \in s : g[s] = f[x] + g[s \ {x}]
           T == {k \in Nat : \A s \in SUBSET S : Cardinality(s) <= k => Sums(s)}
<1>2. 0 \in T
  <2>1. ASSUME NEW s \in SUBSET S, Cardinality(s) <= 0 PROVE s = {}
    BY <2>1, FS_Subset, FS_EmptySet, FS_CardinalityType
  <2> QED BY <1>1, <2>1
<1>3. ASSUME NEW k \in T PROVE k + 1 \in T
  <2>1. ASSUME NEW s \in SUBSET S, Cardinality(s) <= k + 1, NEW x \in s
        PROVE  g[s] \in Nat /\ g[s] = f[x] + g[s \ {x}]
    <3> DEFINE c == Any(s)
    <3>1. c \in s /\ g[s] = f[c] + g[s \ {c}]
      BY <1>1, AnyIsIn
    <3> HIDE DEF c
    <3>2. s \ {c} \in SUBSET S /\ Cardinality(s \ {c}) <= k /\ s \ {x} \in SUBSET S /\ Cardinality(s \ {x}) <= k
      BY <2>1, <3>1, OneLess, k \in Nat
    <3>3. Sums(s \ {c}) /\ Sums(s \ {x})
      BY <3>2
    <3>4. f[x] \in Nat /\ f[c] \in Nat
      BY <3>1
    <3>5. CASE x = c
      BY <3>1, <3>3, <3>4, <3>5
    <3>6. CASE x # c
      <4> DEFINE r == g[(s \ {c}) \ {x}]
      <4>1. x \in s \ {c} /\ c \in s \ {x} /\ (s \ {c}) \ {x} = (s \ {x}) \ {c}
        BY <3>1, <3>6
      <4>2. g[s \ {c}] = f[x] + r /\ g[s \ {x}] = f[c] + r
        BY <3>3, <4>1
      <4>3. r \in Nat
        <5>1. (s \ {c}) \ {x} \in SUBSET S /\ Cardinality((s \ {c}) \ {x}) <= k
          BY <3>2, <4>1, OneLess, k \in Nat
        <5> QED BY <5>1
      <4> HIDE DEF r
      <4> QED BY <3>1, <3>4, <4>2, <4>3
    <3> QED BY <3>5, <3>6
  <2>2. ASSUME NEW s \in SUBSET S, Cardinality(s) <= k + 1 PROVE Sums(s)
    <3>1. CASE s = {}
      BY <1>1, <3>1
    <3>2. CASE s # {}
      BY <2>1, <2>2, <3>2
    <3> QED BY <3>1, <3>2
  <2>3. k + 1 \in Nat
    OBVIOUS
  <2> HIDE DEF Sums
  <2> QED BY <2>2, <2>3
<1>4. T = Nat
  BY <1>2, <1>3, Induction, Zenon
<1>5. ASSUME NEW s \in SUBSET S PROVE Sums(s)
  <2>1. Cardinality(s) \in Nat
    BY FS_Subset, FS_CardinalityType
  <2>2. Cardinality(s) \in T
    BY <1>4, <2>1, Zenon
  <2>3. Cardinality(s) <= Cardinality(s)
    BY <2>1
  <2> QED BY <2>2, <2>3
<1>6. g \in [SUBSET S -> Nat]
  BY <1>5 DEF Equation
<1>7. g[{}] = 0
  BY <1>1
<1> QED BY <1>5, <1>6, <1>7 DEF SumsOver

LEMMA SumIsSum ==
  ASSUME NEW S, IsFiniteSet(S), NEW f \in [S -> Nat]
  PROVE  \E g : SumsOver(g, f, S) /\ SumFunction(f) = g[S]
<1> DEFINE g == CHOOSE g : Equation(g, f, S)
<1>1. Equation(g, f, S)
  BY FoldExists
<1>2. SumFunction(f) = g[S]
  BY SumIsFold
<1> HIDE DEF g
<1> QED BY <1>1, <1>2, AnyOrder

\* Sums of functions that agree on s agree on s.
LEMMA SumsAgree ==
  ASSUME NEW S, IsFiniteSet(S), NEW f \in [S -> Nat], NEW h \in [S -> Nat], NEW R \in SUBSET S,
         \A x \in R : f[x] = h[x],
         NEW F, SumsOver(F, f, S), NEW H, SumsOver(H, h, S)
  PROVE  F[R] = H[R]
<1> DEFINE T == {k \in Nat : \A s \in SUBSET R : Cardinality(s) <= k => F[s] = H[s]}
<1>1. 0 \in T
  <2>1. ASSUME NEW s \in SUBSET R, Cardinality(s) <= 0 PROVE s = {}
    BY <2>1, FS_Subset, FS_EmptySet, FS_CardinalityType
  <2> QED BY <2>1 DEF SumsOver
<1>2. ASSUME NEW k \in T PROVE k + 1 \in T
  <2>1. ASSUME NEW s \in SUBSET R, Cardinality(s) <= k + 1, NEW x \in s PROVE F[s] = H[s]
    <3>1. s \ {x} \in SUBSET R /\ Cardinality(s \ {x}) <= k
      BY <2>1, OneLess, k \in Nat
    <3>2. F[s \ {x}] = H[s \ {x}]
      BY <3>1
    <3> QED BY <3>2 DEF SumsOver
  <2>2. F[{}] = H[{}]
    BY DEF SumsOver
  <2>3. ASSUME NEW s \in SUBSET R, Cardinality(s) <= k + 1 PROVE F[s] = H[s]
    BY <2>1, <2>2, <2>3
  <2>4. k + 1 \in Nat
    OBVIOUS
  <2> QED BY <2>3, <2>4
<1>3. T = Nat
  BY <1>1, <1>2, Induction, Zenon
<1>4. Cardinality(R) \in Nat
  BY FS_Subset, FS_CardinalityType
<1>5. Cardinality(R) \in T
  BY <1>3, <1>4, Zenon
<1>6. Cardinality(R) <= Cardinality(R)
  BY <1>4
<1> QED BY <1>5, <1>6

LEMMA SumType ==
  ASSUME NEW S, IsFiniteSet(S), NEW f \in [S -> Nat]
  PROVE  SumFunction(f) \in Nat
<1>1. PICK F : SumsOver(F, f, S) /\ SumFunction(f) = F[S]
  BY SumIsSum
<1> QED BY <1>1 DEF SumsOver

\* One value changes.
LEMMA SumChanges ==
  ASSUME NEW S, IsFiniteSet(S), NEW f \in [S -> Nat], NEW x \in S, NEW v \in Nat
  PROVE  /\ f[x] <= SumFunction(f)
         /\ SumFunction([f EXCEPT ![x] = v]) = SumFunction(f) - f[x] + v
<1> DEFINE h == [f EXCEPT ![x] = v]
           R == S \ {x}
<1>1. h \in [S -> Nat] /\ h[x] = v /\ \A y \in R : f[y] = h[y]
  OBVIOUS
<1>2. PICK F : SumsOver(F, f, S) /\ SumFunction(f) = F[S]
  BY SumIsSum
<1> HIDE DEF h
<1>3. PICK H : SumsOver(H, h, S) /\ SumFunction(h) = H[S]
  BY <1>1, SumIsSum
<1>4. F[R] = H[R]
  BY <1>1, <1>2, <1>3, SumsAgree
<1>5. F[S] = f[x] + F[R] /\ H[S] = v + H[R] /\ F[R] \in Nat /\ f[x] \in Nat
  BY <1>1, <1>2, <1>3 DEF SumsOver
<1>6. f[x] <= SumFunction(f) /\ SumFunction(h) = SumFunction(f) - f[x] + v
  BY <1>2, <1>3, <1>4, <1>5
<1> QED BY <1>6 DEF h

LEMMA SumOfZeros ==
  ASSUME NEW S, IsFiniteSet(S), NEW f \in [S -> Nat], \A x \in S : f[x] = 0
  PROVE  SumFunction(f) = 0
<1>1. PICK F : SumsOver(F, f, S) /\ SumFunction(f) = F[S]
  BY SumIsSum
<1> DEFINE H == [s \in SUBSET S |-> 0]
<1>2. SumsOver(H, f, S)
  BY DEF SumsOver
<1>3. H[S] = 0
  OBVIOUS
<1> HIDE DEF H
<1> QED BY <1>1, <1>2, <1>3, SumsAgree

\* What is shifted by one place: the last value falls out.
LEMMA SumShifts ==
  ASSUME NEW n \in Nat \ {0}, NEW f \in [0 .. n - 1 -> Nat]
  PROVE  SumFunction([a \in 0 .. n - 1 |-> IF a = 0 THEN 0 ELSE f[a - 1]]) <= SumFunction(f)
<1> DEFINE S == 0 .. n - 1
           h == [a \in S |-> IF a = 0 THEN 0 ELSE f[a - 1]]
<1>1. IsFiniteSet(S) /\ h \in [S -> Nat]
  <2>1. IsFiniteSet(S)
    BY FS_Interval
  <2>2. ASSUME NEW a \in S, a # 0 PROVE f[a - 1] \in Nat
    <3>1. a - 1 \in 0 .. n - 1
      BY <2>2
    <3> QED BY <3>1
  <2> QED BY <2>1, <2>2
<1>2. PICK F : SumsOver(F, f, S) /\ SumFunction(f) = F[S]
  BY <1>1, SumIsSum
<1>3. PICK H : SumsOver(H, h, S) /\ SumFunction(h) = H[S]
  <2> HIDE DEF h, S
  <2> QED BY <1>1, SumIsSum
<1> DEFINE T == {k \in Nat : k < n => H[0 .. k] = F[0 .. k - 1]}
<1>4. 0 \in T
  <2>1. 0 .. 0 \in SUBSET S /\ 0 \in 0 .. 0 /\ (0 .. 0) \ {0} = {} /\ 0 .. (0 - 1) = {} /\ h[0] = 0
    OBVIOUS
  <2>2. H[0 .. 0] = 0 + H[{}]
    <3>1. \A s \in SUBSET S : \A x \in s : H[s] = h[x] + H[s \ {x}]
      BY <1>3 DEF SumsOver
    <3>2. H[0 .. 0] = h[0] + H[(0 .. 0) \ {0}]
      <4> HIDE DEF h, S
      <4> QED BY <2>1, <3>1
    <3> QED BY <2>1, <3>2
  <2> QED BY <1>2, <1>3, <2>1, <2>2 DEF SumsOver
<1>5. ASSUME NEW k \in T PROVE k + 1 \in T
  <2>1. SUFFICES ASSUME k + 1 < n PROVE H[0 .. k + 1] = F[0 .. k]
    <3>1. (k + 1) - 1 = k /\ k + 1 \in Nat
      OBVIOUS
    <3> QED BY <3>1
  <2>2. /\ 0 .. k + 1 \in SUBSET S /\ k + 1 \in 0 .. k + 1 /\ (0 .. k + 1) \ {k + 1} = 0 .. k
        /\ 0 .. k \in SUBSET S /\ k \in 0 .. k /\ (0 .. k) \ {k} = 0 .. k - 1
    BY <2>1
  <2>3. h[k + 1] = f[k]
    BY <2>1
  <2>4. H[0 .. k] = F[0 .. k - 1]
    BY <2>1
  <2> HIDE DEF h, S, T
  <2>5. H[0 .. k + 1] = h[k + 1] + H[0 .. k]
    <3> DEFINE A == 0 .. k + 1
               B == 0 .. k
    <3>1. A \in SUBSET S /\ k + 1 \in A /\ A \ {k + 1} = B
      BY <2>2
    <3> HIDE DEF A, B
    <3>2. H[A] = h[k + 1] + H[B]
      BY <1>3, <3>1 DEF SumsOver
    <3> QED BY <3>2 DEF A, B
  <2>6. F[0 .. k] = f[k] + F[0 .. k - 1]
    <3> DEFINE A == 0 .. k
               B == 0 .. k - 1
    <3>1. A \in SUBSET S /\ k \in A /\ A \ {k} = B
      BY <2>2
    <3> HIDE DEF A, B
    <3>2. F[A] = f[k] + F[B]
      BY <1>2, <3>1 DEF SumsOver
    <3> QED BY <3>2 DEF A, B
  <2> QED BY <2>3, <2>4, <2>5, <2>6
<1>6. T = Nat
  BY <1>4, <1>5, Induction, Zenon
<1>7. n - 1 \in T
  <2>1. n - 1 \in Nat
    OBVIOUS
  <2> QED BY <1>6, <2>1, Zenon
<1> DEFINE R == 0 .. (n - 1) - 1
<1>8. H[S] = F[R]
  BY <1>7
<1>9. S \in SUBSET S /\ n - 1 \in S /\ S \ {n - 1} = R /\ R \in SUBSET S /\ f[n - 1] \in Nat
  OBVIOUS
<1>10. F[S] = f[n - 1] + F[R] /\ F[R] \in Nat
  <2> HIDE DEF S, R
  <2> QED BY <1>2, <1>9 DEF SumsOver
<1>11. H[S] <= F[S]
  <2> HIDE DEF S, R
  <2> QED BY <1>8, <1>9, <1>10
<1> QED BY <1>2, <1>3, <1>11

-----------------------------------------------------------------------------
(***************************************************************************)
(* SyncBudget: what is handed to links and what is reserved.               *)
(***************************************************************************)

BudgetSorts ==
  /\ outbound_sends \in [Ages -> Nat] /\ handed \in [Ages -> Nat]
  /\ budget_reserved \in [Peers -> Nat] /\ turn_sent \in [Peers -> Nat]
  /\ record_age \in 0 .. Window

\* While the record is younger than the window nothing is reserved or sent, and
\* what was handed before the restart ages away; from then on the record is all
\* that was handed.
RecordTells ==
  IF record_age < Window
    THEN /\ \A p \in Peers : budget_reserved[p] = 0
         /\ \A a \in Ages : outbound_sends[a] = 0 /\ (a < record_age => handed[a] = 0)
    ELSE handed = outbound_sends

WithinBudget == SumFunction(handed) + SumFunction(budget_reserved) <= Budget

BudgetInv == BudgetSorts /\ RecordTells /\ WithinBudget

LEMMA BudgetConstants ==
  /\ IsFiniteSet(Peers) /\ Budget \in Nat \ {0} /\ Window \in Nat \ {0}
  /\ Ages = 0 .. Window - 1 /\ IsFiniteSet(Ages) /\ 0 \in Ages
<1>1. IsFiniteSet(Peers) /\ Budget \in Nat \ {0} /\ Window \in Nat \ {0}
  BY BudgetAssumption
<1>2. IsFiniteSet(0 .. Window - 1)
  <2>1. Window - 1 \in Int
    BY <1>1
  <2> QED BY <2>1, FS_Interval
<1> QED BY <1>1, <1>2 DEF Ages

LEMMA AllowanceIsCounted ==
  ASSUME BudgetSorts
  PROVE  outbound_allowance \in Nat
<1>1. SumFunction(outbound_sends) \in Nat /\ SumFunction(budget_reserved) \in Nat /\ Budget \in Nat
  BY BudgetConstants, SumType DEF BudgetSorts
<1> QED BY <1>1 DEF outbound_allowance, Without

\* What may still be handed out does not pass the budget.
LEMMA AllowanceIsLeft ==
  ASSUME BudgetInv
  PROVE  /\ outbound_allowance \in Nat
         /\ record_age < Window => outbound_allowance = 0
         /\ outbound_allowance > 0 =>
              outbound_allowance + SumFunction(handed) + SumFunction(budget_reserved) <= Budget
<1>1. SumFunction(outbound_sends) \in Nat /\ SumFunction(budget_reserved) \in Nat
  BY BudgetConstants, SumType DEF BudgetInv, BudgetSorts
<1>2. Budget \in Nat /\ Window \in Nat /\ record_age \in 0 .. Window
  BY BudgetConstants DEF BudgetInv, BudgetSorts
<1>3. outbound_allowance =
        IF record_age < Window THEN 0
        ELSE IF Budget < SumFunction(outbound_sends) + SumFunction(budget_reserved) THEN 0
             ELSE Budget - (SumFunction(outbound_sends) + SumFunction(budget_reserved))
  BY DEF outbound_allowance, Without
<1>4. ~(record_age < Window) => handed = outbound_sends
  BY DEF BudgetInv, RecordTells
<1> QED BY <1>1, <1>2, <1>3, <1>4

\* A session comes to reserve no more than it did, or what is left.
LEMMA Reserves ==
  ASSUME BudgetInv, NEW p \in Peers, NEW r \in Nat, NEW t \in Nat,
         budget_reserved' = [budget_reserved EXCEPT ![p] = r],
         turn_sent' = [turn_sent EXCEPT ![p] = t],
         UNCHANGED <<outbound_sends, handed, record_age>>,
         r <= budget_reserved[p] \/ r <= outbound_allowance
  PROVE  BudgetInv'
<1>1. BudgetSorts'
  BY DEF BudgetInv, BudgetSorts
<1>2. budget_reserved \in [Peers -> Nat] /\ IsFiniteSet(Peers) /\ budget_reserved[p] \in Nat
  BY BudgetConstants DEF BudgetInv, BudgetSorts
<1>3. /\ SumFunction(budget_reserved') = SumFunction(budget_reserved) - budget_reserved[p] + r
      /\ budget_reserved[p] <= SumFunction(budget_reserved)
  BY <1>2, SumChanges
<1>4. RecordTells'
  <2>1. record_age < Window => r = 0
    BY <1>2, AllowanceIsLeft DEF BudgetInv, RecordTells
  <2> QED BY <1>2, <2>1 DEF BudgetInv, RecordTells
<1>5. SumFunction(handed) \in Nat /\ SumFunction(budget_reserved) \in Nat /\ Budget \in Nat
  BY BudgetConstants, SumType DEF BudgetInv, BudgetSorts
<1>6. WithinBudget'
  <2>1. SumFunction(handed') = SumFunction(handed)
    OBVIOUS
  <2>2. SumFunction(handed) + SumFunction(budget_reserved) <= Budget
    BY DEF BudgetInv, WithinBudget
  <2>3. SumFunction(handed) + SumFunction(budget_reserved') <= Budget
    BY <1>2, <1>3, <1>5, <2>2, AllowanceIsLeft
  <2> QED BY <2>1, <2>3 DEF WithinBudget
<1> QED BY <1>1, <1>4, <1>6 DEF BudgetInv

LEMMA BudgetStutters ==
  ASSUME BudgetInv, UNCHANGED <<outbound_sends, handed, record_age, budget_reserved, turn_sent>>
  PROVE  BudgetInv'
BY DEF BudgetInv, BudgetSorts, RecordTells, WithinBudget

\* Nothing is reserved by a session that is over, or about to offer.
LEMMA LetsGo ==
  ASSUME BudgetInv, NEW p \in Peers, NEW n, NEW again,
         end_sync(p) \/ PrepareIdle(p, n) \/ PrepareReady(p, n, again),
         UNCHANGED <<outbound_sends, handed, record_age>>
  PROVE  BudgetInv'
<1>1. turn_sent[p] \in Nat /\ budget_reserved[p] \in Nat /\ 0 <= budget_reserved[p]
  BY DEF BudgetInv, BudgetSorts
<1>2. PICK t \in {0, turn_sent[p]} :
        /\ budget_reserved' = [budget_reserved EXCEPT ![p] = 0]
        /\ turn_sent' = [turn_sent EXCEPT ![p] = t]
  BY DEF end_sync, PrepareIdle, PrepareReady, SessionBecomes
<1> QED BY <1>1, <1>2, Reserves

LEMMA CapIsAllowed ==
  ASSUME BudgetSorts, NEW p \in Peers, NEW n \in Nat
  PROVE  OfferCap(p, n) \in Nat /\ OfferCap(p, n) <= outbound_allowance
<1>1. outbound_allowance \in Nat /\ turn_sent[p] \in Nat
  BY AllowanceIsCounted DEF BudgetSorts
<1>2. Share(p) \in Nat
  <2> DEFINE others == Contenders \ {p}
             k == Cardinality(others) + 1
  <2>1. k \in Nat \ {0}
    <3>1. others \in SUBSET Peers /\ IsFiniteSet(Peers)
      BY BudgetConstants DEF Contenders
    <3>2. Cardinality(others) \in Nat
      BY <3>1, FS_Subset, FS_CardinalityType
    <3> QED BY <3>2
  <2> HIDE DEF k
  <2>2. Budget \in Nat \ {0} /\ Window \in Nat \ {0}
    BY BudgetConstants
  <2>3. ASSUME NEW b \in Nat \ {0} PROVE (Budget + b - 1) \div b \in Nat
    BY <2>2
  <2>4. fair_share(k) \in Nat
    BY <2>1, <2>2, <2>3 DEF fair_share
  <2> QED BY <2>4 DEF Share, k
<1> QED BY <1>1, <1>2 DEF OfferCap, Least, Without

LEMMA SessionSteps ==
  ASSUME BudgetInv, NEW p \in Peers,
         Start(p) \/ LinkActive(p) \/ LinkDown(p) \/ ResourceCompleted(p)
  PROVE  BudgetInv'
<1>1. UNCHANGED <<outbound_sends, handed, record_age>>
  BY DEF Start, LinkActive, LinkDown, ResourceCompleted, NothingSent, SessionStep, clock
<1>2. \/ \E n, again : end_sync(p) \/ PrepareIdle(p, n) \/ PrepareReady(p, n, again)
      \/ UNCHANGED <<budget_reserved, turn_sent>>
  <2>1. CASE Start(p)
    BY <2>1 DEF Start, sessions
  <2>2. CASE LinkActive(p)
    BY <2>2 DEF LinkActive
  <2>3. CASE LinkDown(p)
    BY <2>3 DEF LinkDown
  <2>4. CASE ResourceCompleted(p)
    BY <2>4 DEF ResourceCompleted
  <2> QED BY <2>1, <2>2, <2>3, <2>4
<1> QED BY <1>1, <1>2, LetsGo, BudgetStutters

\* An offer is cut to what is left.
LEMMA OfferFits ==
  ASSUME BudgetInv, NEW p \in Peers, SendOffer(p)
  PROVE  BudgetInv'
<1>1. UNCHANGED <<outbound_sends, handed, record_age>>
  BY DEF SendOffer, NothingSent, SessionStep, clock
<1>2. CASE end_sync(p)
  BY <1>1, <1>2, LetsGo
<1>3. CASE ~end_sync(p)
  <2>1. PICK n \in 1 .. next_batch_demand(p) :
          LET offered == Least(n, OfferCap(p, n))
          IN  SessionBecomes(p, "REQUEST_SENT", offered, turn_sent[p], 0, reidentified[p]) /\ offered # 0
    BY <1>3 DEF SendOffer
  <2>2. n \in Nat
    OBVIOUS
  <2>3. OfferCap(p, n) \in Nat /\ OfferCap(p, n) <= outbound_allowance
    BY <2>2, CapIsAllowed DEF BudgetInv
  <2> DEFINE offered == Least(n, OfferCap(p, n))
  <2>4. offered \in Nat /\ offered <= outbound_allowance
    BY <2>2, <2>3, AllowanceIsLeft DEF Least
  <2>5. /\ budget_reserved' = [budget_reserved EXCEPT ![p] = offered]
        /\ turn_sent' = [turn_sent EXCEPT ![p] = turn_sent[p]]
    BY <2>1 DEF SessionBecomes
  <2>6. turn_sent[p] \in Nat
    BY DEF BudgetInv, BudgetSorts
  <2> HIDE DEF offered
  <2> QED BY <1>1, <2>4, <2>5, <2>6, Reserves
<1> QED BY <1>2, <1>3

\* What is wanted of an offer is at most the offer, as its ids differ.
LEMMA AnswerFits ==
  ASSUME ListsTwice = FALSE, BudgetInv, NEW p \in Peers, OfferResponse(p)
  PROVE  BudgetInv'
<1>1. UNCHANGED <<outbound_sends, handed, record_age>>
  BY DEF OfferResponse, NothingSent, SessionStep, clock
<1>2. budget_reserved[p] \in Nat /\ turn_sent[p] \in Nat
  BY DEF BudgetInv, BudgetSorts
<1>3. CASE \E n \in 0 .. (IF ListsTwice THEN 2 ELSE 1) * budget_reserved[p] : Wanted(p, n)
  <2>1. PICK n \in Nat : n <= budget_reserved[p] /\ Wanted(p, n)
    BY <1>2, <1>3
  <2>2. CASE end_sync(p)
    BY <1>1, <2>2, LetsGo
  <2>3. CASE ~end_sync(p)
    <3>1. /\ budget_reserved' = [budget_reserved EXCEPT ![p] = n]
          /\ turn_sent' = [turn_sent EXCEPT ![p] = turn_sent[p]]
      BY <2>1, <2>3 DEF Wanted, SessionBecomes
    <3> QED BY <1>1, <1>2, <2>1, <3>1, Reserves
  <2> QED BY <2>2, <2>3
<1>4. CASE NoIdentity(p) \/ Refused(p)
  BY <1>1, <1>4, LetsGo DEF NoIdentity, Refused
<1> QED BY <1>3, <1>4 DEF OfferResponse

\* What is sent was reserved.
LEMMA BatchFits ==
  ASSUME BudgetInv, NEW p \in Peers, send_sync_resource(p)
  PROVE  BudgetInv'
<1>1. UNCHANGED record_age
  BY DEF send_sync_resource, SessionStep, clock
<1>2. budget_reserved[p] \in Nat /\ turn_sent[p] \in Nat /\ Budget \in Nat
  BY BudgetConstants DEF BudgetInv, BudgetSorts
<1>3. PICK read \in 0 .. budget_reserved[p] :
        IF read = 0 THEN end_sync(p) /\ NothingSent
        ELSE /\ record_outbound_send(read)
             /\ SessionBecomes(p, "RESOURCE_TRANSFERRING", 0, Least(turn_sent[p] + read, Budget), read,
                                   reidentified[p])
  BY DEF send_sync_resource
<1>4. CASE read = 0
  BY <1>1, <1>3, <1>4, LetsGo DEF NothingSent
<1>5. CASE read # 0
  <2> DEFINE t == Least(turn_sent[p] + read, Budget)
  <2>1. /\ outbound_sends' = [outbound_sends EXCEPT ![0] = outbound_sends[0] + read]
        /\ handed' = [handed EXCEPT ![0] = handed[0] + read]
        /\ budget_reserved' = [budget_reserved EXCEPT ![p] = 0]
        /\ turn_sent' = [turn_sent EXCEPT ![p] = t]
    BY <1>3, <1>5 DEF record_outbound_send, SessionBecomes
  <2>2. t \in Nat /\ read \in Nat /\ read <= budget_reserved[p]
    BY <1>2 DEF Least
  <2> HIDE DEF t
  <2>3. ~(record_age < Window)
    BY <1>2, <1>5, <2>2 DEF BudgetInv, RecordTells
  <2>4. 0 \in Ages /\ IsFiniteSet(Ages) /\ IsFiniteSet(Peers)
    BY BudgetConstants
  <2>5. handed \in [Ages -> Nat] /\ handed[0] + read \in Nat /\ handed[0] \in Nat /\ outbound_sends[0] + read \in Nat
    BY <2>2, <2>4 DEF BudgetInv, BudgetSorts
  <2>6. BudgetSorts'
    BY <1>1, <2>1, <2>2, <2>5 DEF BudgetInv, BudgetSorts
  <2>7. RecordTells'
    BY <1>1, <2>1, <2>3 DEF BudgetInv, RecordTells
  <2>8. SumFunction(handed') = SumFunction(handed) - handed[0] + (handed[0] + read)
    <3> DEFINE v == handed[0] + read
    <3>1. v \in Nat /\ handed' = [handed EXCEPT ![0] = v]
      BY <2>1, <2>5
    <3> HIDE DEF v
    <3>2. SumFunction([handed EXCEPT ![0] = v]) = SumFunction(handed) - handed[0] + v
      BY <2>4, <2>5, <3>1, SumChanges
    <3>3. SumFunction(handed') = SumFunction(handed) - handed[0] + v
      BY <3>1, <3>2
    <3> QED BY <3>3 DEF v
  <2>9. /\ SumFunction(budget_reserved') = SumFunction(budget_reserved) - budget_reserved[p] + 0
        /\ budget_reserved[p] <= SumFunction(budget_reserved)
    <3>1. budget_reserved \in [Peers -> Nat] /\ 0 \in Nat
      BY DEF BudgetInv, BudgetSorts
    <3>2. /\ budget_reserved[p] <= SumFunction(budget_reserved)
          /\ SumFunction([budget_reserved EXCEPT ![p] = 0])
             = SumFunction(budget_reserved) - budget_reserved[p] + 0
      BY <2>4, <3>1, SumChanges
    <3> QED BY <2>1, <3>2
  <2>10. SumFunction(handed) \in Nat /\ SumFunction(budget_reserved) \in Nat
    BY <2>4, SumType DEF BudgetInv, BudgetSorts
  <2>11. WithinBudget'
    BY <1>2, <2>2, <2>5, <2>8, <2>9, <2>10 DEF BudgetInv, WithinBudget
  <2> QED BY <2>6, <2>7, <2>11 DEF BudgetInv
<1> QED BY <1>4, <1>5

\* Time passes: what falls out of the window is counted no longer.
LEMMA ElapseFits ==
  ASSUME BudgetInv, Elapse
  PROVE  BudgetInv'
<1>1. /\ Budget \in Nat /\ Window \in Nat \ {0} /\ Ages = 0 .. Window - 1 /\ IsFiniteSet(Peers)
      /\ IsFiniteSet(Ages)
  BY BudgetConstants
<1>2. /\ outbound_sends \in [Ages -> Nat] /\ handed \in [Ages -> Nat]
      /\ budget_reserved \in [Peers -> Nat] /\ turn_sent \in [Peers -> Nat] /\ record_age \in 0 .. Window
  BY DEF BudgetInv, BudgetSorts
<1>3. /\ outbound_sends' = [a \in Ages |-> IF a = 0 THEN 0 ELSE outbound_sends[a - 1]]
      /\ handed' = [a \in Ages |-> IF a = 0 THEN 0 ELSE handed[a - 1]]
      /\ UNCHANGED <<budget_reserved, turn_sent>>
  BY DEF Elapse, Aged, sessions
<1>4. record_age' = IF record_age < Window THEN record_age + 1 ELSE Window
  BY <1>1, <1>2 DEF Elapse, Least
<1>5. \A a \in Ages : a # 0 => a - 1 \in Ages
  BY <1>1
<1>6. BudgetSorts'
  <2>1. outbound_sends' \in [Ages -> Nat]
    BY <1>2, <1>3, <1>5
  <2>2. handed' \in [Ages -> Nat]
    BY <1>2, <1>3, <1>5
  <2>3. record_age' \in 0 .. Window
    BY <1>1, <1>2, <1>4
  <2> QED BY <1>2, <1>3, <2>1, <2>2, <2>3 DEF BudgetSorts
<1>7. RecordTells'
  <2>1. CASE record_age < Window
    <3>1. \A p \in Peers : budget_reserved'[p] = 0
      BY <1>3, <2>1 DEF BudgetInv, RecordTells
    <3>2. \A a \in Ages : outbound_sends[a] = 0 /\ (a < record_age => handed[a] = 0)
      BY <2>1 DEF BudgetInv, RecordTells
    <3>3. \A a \in Ages : outbound_sends'[a] = 0
      BY <1>3, <1>5, <3>2
    <3>4. ASSUME NEW a \in Ages, a < record_age' PROVE handed'[a] = 0
      BY <1>1, <1>2, <1>3, <1>4, <1>5, <2>1, <3>2, <3>4
    <3>5. CASE record_age' < Window
      BY <3>1, <3>3, <3>4, <3>5 DEF RecordTells
    <3>6. CASE ~(record_age' < Window)
      <4>1. \A a \in Ages : a < record_age'
        BY <1>1, <1>2, <1>4, <2>1, <3>6
      <4>2. \A a \in Ages : handed'[a] = outbound_sends'[a]
        BY <3>3, <3>4, <4>1
      <4>3. handed' = outbound_sends'
        BY <1>3, <4>2
      <4> QED BY <3>6, <4>3 DEF RecordTells
    <3> QED BY <3>5, <3>6
  <2>2. CASE ~(record_age < Window)
    <3>1. handed = outbound_sends
      BY <2>2 DEF BudgetInv, RecordTells
    <3>2. handed' = outbound_sends' /\ ~(record_age' < Window)
      BY <1>1, <1>3, <1>4, <2>2, <3>1
    <3> QED BY <3>2 DEF RecordTells
  <2> QED BY <2>1, <2>2
<1>8. SumFunction(handed') <= SumFunction(handed)
  <2>1. SumFunction([a \in 0 .. Window - 1 |-> IF a = 0 THEN 0 ELSE handed[a - 1]]) <= SumFunction(handed)
    BY <1>1, <1>2, SumShifts
  <2> QED BY <1>1, <1>3, <2>1
<1>9. SumFunction(handed') \in Nat /\ SumFunction(handed) \in Nat /\ SumFunction(budget_reserved) \in Nat
  BY <1>1, <1>2, <1>6, SumType DEF BudgetSorts
<1>10. WithinBudget'
  <2>1. SumFunction(budget_reserved') = SumFunction(budget_reserved)
    BY <1>3
  <2>2. SumFunction(handed) + SumFunction(budget_reserved) <= Budget
    BY DEF BudgetInv, WithinBudget
  <2>3. SumFunction(handed') + SumFunction(budget_reserved) <= Budget
    BY <1>1, <1>8, <1>9, <2>2
  <2> QED BY <2>1, <2>3 DEF WithinBudget
<1> QED BY <1>6, <1>7, <1>10 DEF BudgetInv

\* A node that starts waits for a window to pass.
LEMMA RestartFits ==
  ASSUME BudgetInv, Restart
  PROVE  BudgetInv'
<1>1. /\ Budget \in Nat /\ Window \in Nat \ {0} /\ Ages = 0 .. Window - 1 /\ IsFiniteSet(Peers)
      /\ IsFiniteSet(Ages)
  BY BudgetConstants
<1>2. /\ outbound_sends' = [a \in Ages |-> 0] /\ record_age' = 0
      /\ budget_reserved' = [p \in Peers |-> 0] /\ turn_sent' = [p \in Peers |-> 0] /\ handed' = handed
  BY DEF Restart
<1>3. BudgetSorts'
  BY <1>1, <1>2 DEF BudgetInv, BudgetSorts
<1>4. RecordTells'
  BY <1>1, <1>2 DEF RecordTells
<1>5. SumFunction(budget_reserved') = 0
  BY <1>1, <1>2, <1>3, SumOfZeros DEF BudgetSorts
<1>6. SumFunction(handed) \in Nat /\ SumFunction(budget_reserved) \in Nat
  BY <1>1, SumType DEF BudgetInv, BudgetSorts
<1>7. WithinBudget'
  <2>1. SumFunction(handed') = SumFunction(handed)
    BY <1>2
  <2> QED BY <1>1, <1>5, <1>6, <2>1 DEF BudgetInv, WithinBudget
<1> QED BY <1>3, <1>4, <1>7 DEF BudgetInv

LEMMA InitBudget ==
  ASSUME BudgetInit
  PROVE  BudgetInv
<1>1. /\ Budget \in Nat /\ Window \in Nat \ {0} /\ Ages = 0 .. Window - 1 /\ IsFiniteSet(Peers)
      /\ IsFiniteSet(Ages)
  BY BudgetConstants
<1>2. /\ outbound_sends = [a \in Ages |-> 0] /\ handed = [a \in Ages |-> 0] /\ record_age = 0
      /\ budget_reserved = [p \in Peers |-> 0] /\ turn_sent = [p \in Peers |-> 0]
  BY DEF BudgetInit
<1>3. BudgetSorts
  BY <1>1, <1>2 DEF BudgetSorts
<1>4. RecordTells
  BY <1>1, <1>2 DEF RecordTells
<1>5. SumFunction(budget_reserved) = 0 /\ SumFunction(handed) = 0
  BY <1>1, <1>2, <1>3, SumOfZeros DEF BudgetSorts
<1> QED BY <1>1, <1>3, <1>4, <1>5 DEF BudgetInv, WithinBudget

LEMMA BudgetInvKept ==
  ASSUME ListsTwice = FALSE, BudgetInv, [BudgetNext]_budget_vars
  PROVE  BudgetInv'
<1>1. ASSUME NEW p \in Peers, Session(p) PROVE BudgetInv'
  BY <1>1, SessionSteps, OfferFits, AnswerFits, BatchFits DEF Session
<1>2. CASE \/ tick_sync \/ MessagesCome
           \/ \E p \in Peers : MessageLeaves(p) \/ WaitOver(p) \/ Announced(p)
  <2>1. UNCHANGED <<outbound_sends, handed, record_age, budget_reserved, turn_sent>>
    BY <1>2 DEF tick_sync, NobodySelected, select_sync_peer, MessagesCome, MessageLeaves,
       WaitOver, Announced, SessionsGoOn, sessions, clock, history
  <2> QED BY <2>1, BudgetStutters
<1>3. CASE UNCHANGED budget_vars
  BY <1>3, BudgetStutters DEF budget_vars, sessions, clock, history
<1> QED BY <1>1, <1>2, <1>3, ElapseFits, RestartFits DEF BudgetNext

\* In every window the messages handed to links, all peers together and over
\* restarts, number at most the budget, for any peers, budget, window and
\* offers, as long as an answer wants an id once (outbound_allowance,
\* budget_reserved, record_outbound_send; lxmf_propagation.rs).
THEOREM BudgetIsKept ==
  ASSUME ListsTwice = FALSE
  PROVE  BudgetSpec => []BudgetKept
<1>1. BudgetInit => BudgetInv
  BY InitBudget
<1>2. BudgetInv /\ [BudgetNext]_budget_vars => BudgetInv'
  BY BudgetInvKept
<1>3. BudgetInv => BudgetKept
  <2>1. SUFFICES ASSUME BudgetInv PROVE BudgetKept
    OBVIOUS
  <2>2. SumFunction(handed) \in Nat /\ SumFunction(budget_reserved) \in Nat /\ Budget \in Nat
    <3>1. handed \in [Ages -> Nat] /\ budget_reserved \in [Peers -> Nat]
      BY <2>1 DEF BudgetInv, BudgetSorts
    <3> QED BY <3>1, BudgetConstants, SumType
  <2>3. SumFunction(handed) <= Budget
    BY <2>1, <2>2 DEF BudgetInv, WithinBudget
  <2> QED BY <2>3 DEF BudgetKept
<1> QED BY <1>1, <1>2, <1>3, PTL DEF BudgetSpec

-----------------------------------------------------------------------------
(***************************************************************************)
(* Types of SyncBudget.                                                    *)
(***************************************************************************)

ClockTypes ==
  /\ outbound_sends \in [Ages -> Nat] /\ handed \in [Ages -> Nat]
  /\ record_age \in 0 .. Window /\ ticked \in BOOLEAN
  /\ restarts \in 0 .. MaxRestarts
  /\ starts \subseteq Peers

\* What a session holds goes with its state.
SessionShape(p) ==
  /\ budget_reserved[p] > 0 <=> state[p] \in {"REQUEST_SENT", "RESPONSE_RECEIVED"}
  /\ batch[p] > 0 <=> state[p] = "RESOURCE_TRANSFERRING"
  /\ state[p] = "IDLE" => turn_sent[p] = 0

SessionTypes ==
  /\ state \in [Peers -> States]
  /\ budget_reserved \in [Peers -> Nat] /\ batch \in [Peers -> Nat]
  /\ turn_sent \in [Peers -> Nat] /\ reidentified \in [Peers -> BOOLEAN]
  /\ \A p \in Peers : SessionShape(p)

ChoiceTypes ==
  /\ alive \in [Peers -> BOOLEAN]
  /\ wait \in [Peers -> {"none", "failed", "throttled"}]
  /\ last_turn \in [Peers -> 0 .. Cardinality(Peers)]

\* What a peer was offered it still lacks: an answer takes no more away.
LackTypes ==
  /\ lacking \in [Peers -> 0 .. MaxLacks]
  /\ \A p \in Peers : state[p] = "REQUEST_SENT" => budget_reserved[p] <= lacking[p]

BudgetTypes == ClockTypes /\ SessionTypes /\ ChoiceTypes /\ LackTypes

LEMMA SessionMoves ==
  ASSUME SessionTypes, NEW p \in Peers, NEW s \in States,
         NEW r \in Nat, NEW t \in Nat, NEW ids \in Nat, NEW again \in BOOLEAN,
         SessionBecomes(p, s, r, t, ids, again),
         r > 0 <=> s \in {"REQUEST_SENT", "RESPONSE_RECEIVED"},
         ids > 0 <=> s = "RESOURCE_TRANSFERRING",
         s = "IDLE" => t = 0
  PROVE  /\ SessionTypes'
         /\ state'[p] = s /\ budget_reserved'[p] = r
         /\ \A q \in Peers \ {p} : state'[q] = state[q] /\ budget_reserved'[q] = budget_reserved[q]
<1>1. /\ state' \in [Peers -> States]
      /\ budget_reserved' \in [Peers -> Nat] /\ batch' \in [Peers -> Nat]
      /\ turn_sent' \in [Peers -> Nat] /\ reidentified' \in [Peers -> BOOLEAN]
  BY DEF SessionTypes, SessionBecomes
<1>2. state'[p] = s /\ budget_reserved'[p] = r /\ batch'[p] = ids /\ turn_sent'[p] = t
  BY DEF SessionTypes, SessionBecomes
<1>3. \A q \in Peers \ {p} :
        /\ state'[q] = state[q] /\ budget_reserved'[q] = budget_reserved[q]
        /\ batch'[q] = batch[q] /\ turn_sent'[q] = turn_sent[q]
  BY DEF SessionTypes, SessionBecomes
<1>4. ASSUME NEW q \in Peers PROVE SessionShape(q)'
  BY <1>2, <1>3 DEF SessionTypes, SessionShape
<1> QED BY <1>1, <1>2, <1>3, <1>4 DEF SessionTypes

\* The peers are as many places as there can be turns.
LEMMA TurnsArePlaces ==
  ASSUME last_turn \in [Peers -> 0 .. Cardinality(Peers)], NEW p \in Peers
  PROVE  TurnOf(p) \in [Peers -> 0 .. Cardinality(Peers)]
<1> DEFINE others == Peers \ {p}
           turns == {last_turn[q] : q \in others}
           places == turns \ {0}
<1>1. IsFiniteSet(Peers)
  BY BudgetConstants
<1>2. IsFiniteSet(others) /\ Cardinality(others) = Cardinality(Peers) - 1
      /\ Cardinality(Peers) \in Nat /\ Cardinality(others) \in Nat
  BY <1>1, FS_RemoveElement, FS_CardinalityType
<1>3. IsFiniteSet(turns) /\ Cardinality(turns) <= Cardinality(others)
  <2> DEFINE f == [q \in others |-> last_turn[q]]
  <2>1. f \in Surjection(others, turns)
    BY DEF Surjection
  <2> QED BY <1>2, <2>1, FS_Surjection
<1>4. IsFiniteSet(places) /\ Cardinality(places) <= Cardinality(turns)
  BY <1>3, FS_Subset
<1>5. \A n : IsFiniteSet(places \cap 1 .. n) /\ Cardinality(places \cap 1 .. n) <= Cardinality(places)
  BY <1>4, FS_Subset
<1>6. /\ Cardinality(places) \in Nat /\ Cardinality(turns) \in Nat
      /\ \A n : Cardinality(places \cap 1 .. n) \in Nat
  BY <1>3, <1>4, <1>5, FS_CardinalityType
<1>7. Cardinality(places) + 1 \in 0 .. Cardinality(Peers)
  BY <1>2, <1>3, <1>4, <1>6
<1>8. ASSUME NEW n PROVE Cardinality(places \cap 1 .. n) \in 0 .. Cardinality(Peers)
  <2> DEFINE below == Cardinality(places \cap 1 .. n)
  <2>1. below \in Nat /\ below <= Cardinality(places)
    BY <1>5, <1>6
  <2> HIDE DEF below, places
  <2>2. below \in 0 .. Cardinality(Peers)
    BY <1>7, <1>6, <2>1, <1>2
  <2> QED BY <2>2 DEF below
<1>9. TurnOf(p) = [q \in Peers |-> IF q = p THEN Cardinality(places) + 1
                                   ELSE Cardinality(places \cap 1 .. last_turn[q])]
  BY DEF TurnOf
<1> HIDE DEF places
<1> QED BY <1>7, <1>8, <1>9

\* A session that ends, begins or comes to its link.
Prepares(p) ==
  \/ end_sync(p)
  \/ \E n : PrepareIdle(p, n)
  \/ \E n : \E again \in BOOLEAN : PrepareReady(p, n, again)

LEMMA PreparesKeepsSession ==
  ASSUME SessionTypes, NEW p \in Peers, Prepares(p)
  PROVE  /\ SessionTypes'
         /\ state'[p] # "REQUEST_SENT"
         /\ \A q \in Peers \ {p} : state'[q] = state[q] /\ budget_reserved'[q] = budget_reserved[q]
<1>1. ASSUME NEW s \in {"IDLE", "LINK_ESTABLISHING", "LINK_READY"},
             NEW t \in Nat, s = "IDLE" => t = 0, NEW again \in BOOLEAN,
             SessionBecomes(p, s, 0, t, 0, again)
      PROVE  /\ SessionTypes' /\ state'[p] = s
             /\ \A q \in Peers \ {p} : state'[q] = state[q] /\ budget_reserved'[q] = budget_reserved[q]
  <2>1. /\ s \in States /\ 0 \in Nat
        /\ 0 > 0 <=> s \in {"REQUEST_SENT", "RESPONSE_RECEIVED"}
        /\ 0 > 0 <=> s = "RESOURCE_TRANSFERRING"
    BY DEF States
  <2> QED BY <1>1, <2>1, SessionMoves
<1>2. turn_sent[p] \in Nat
  BY DEF SessionTypes
<1>3. \E s \in {"IDLE", "LINK_ESTABLISHING", "LINK_READY"}, t \in {0, turn_sent[p]}, again \in BOOLEAN :
        SessionBecomes(p, s, 0, t, 0, again) /\ (s = "IDLE" => t = 0)
  BY DEF Prepares, PrepareIdle, PrepareReady, end_sync
<1> QED BY <1>1, <1>2, <1>3

\* What becomes of the choice where a session is prepared.
LEMMA PreparesKeepsChoice ==
  ASSUME ChoiceTypes, NEW p \in Peers,
         \/ UNCHANGED choice
         \/ \E n : PrepareIdle(p, n)
         \/ \E n, again : PrepareReady(p, n, again)
                          /\ (UNCHANGED wait \/ wait' = [wait EXCEPT ![p] = "none"])
  PROVE  ChoiceTypes'
<1>1. last_turn' \in [Peers -> 0 .. Cardinality(Peers)]
  <2>1. last_turn' = last_turn \/ last_turn' = TurnOf(p)
    BY DEF choice, PrepareIdle, PrepareReady
  <2> QED BY <2>1, TurnsArePlaces DEF ChoiceTypes
<1>2. alive' \in [Peers -> BOOLEAN]
  <2>1. alive[p] \in BOOLEAN
    BY DEF ChoiceTypes
  <2>2. \/ alive' = alive \/ alive' = [alive EXCEPT ![p] = TRUE]
        \/ alive' = [alive EXCEPT ![p] = alive[p] /\ wait[p] # "failed"]
    BY DEF choice, PrepareIdle, PrepareReady
  <2>3. (alive[p] /\ wait[p] # "failed") \in BOOLEAN
    OBVIOUS
  <2> QED BY <2>2, <2>3 DEF ChoiceTypes
<1>3. wait' \in [Peers -> {"none", "failed", "throttled"}]
  <2>1. \E w \in {"none", "failed"} : wait' = wait \/ wait' = [wait EXCEPT ![p] = w]
    BY DEF choice, PrepareIdle, PrepareReady
  <2> QED BY <2>1 DEF ChoiceTypes
<1> QED BY <1>1, <1>2, <1>3 DEF ChoiceTypes

\* With what a session holds unchanged or gone, no offer is out of measure.
LEMMA LackKept ==
  ASSUME LackTypes, lacking' \in [Peers -> 0 .. MaxLacks], NEW p \in Peers,
         \A q \in Peers \ {p} : /\ state'[q] = state[q] /\ budget_reserved'[q] = budget_reserved[q]
                                /\ lacking'[q] = lacking[q],
         state'[p] = "REQUEST_SENT" => budget_reserved'[p] <= lacking'[p]
  PROVE  LackTypes'
<1>1. ASSUME NEW q \in Peers, state'[q] = "REQUEST_SENT" PROVE budget_reserved'[q] <= lacking'[q]
  <2>1. CASE q = p
    BY <1>1, <2>1
  <2>2. CASE q # p
    BY <1>1, <2>2 DEF LackTypes
  <2> QED BY <2>1, <2>2
<1> QED BY <1>1 DEF LackTypes

LEMMA OfferIsCounted ==
  ASSUME BudgetTypes, NEW p \in Peers, NEW n \in 1 .. next_batch_demand(p)
  PROVE  /\ Least(n, OfferCap(p, n)) \in Nat
         /\ Least(n, OfferCap(p, n)) <= lacking[p]
<1>1. BudgetSorts
  BY DEF BudgetTypes, ClockTypes, SessionTypes, BudgetSorts
<1>2. lacking[p] \in Nat /\ MaxOffer \in Nat
  BY BudgetAssumption DEF BudgetTypes, LackTypes
<1>3. n \in Nat /\ n <= lacking[p]
  BY <1>2 DEF next_batch_demand, Least
<1>4. OfferCap(p, n) \in Nat
  BY <1>1, <1>3, CapIsAllowed
<1> QED BY <1>2, <1>3, <1>4 DEF Least

\* A session's step is its own, and what it offers its peer lacks.
LEMMA SessionKeepsSessions ==
  ASSUME BudgetTypes, NEW p \in Peers, Session(p)
  PROVE  /\ SessionTypes'
         /\ \A q \in Peers \ {p} : state'[q] = state[q] /\ budget_reserved'[q] = budget_reserved[q]
         /\ state'[p] = "REQUEST_SENT" => budget_reserved'[p] <= lacking'[p]
<1>1. SessionTypes /\ turn_sent[p] \in Nat /\ budget_reserved[p] \in Nat /\ reidentified[p] \in BOOLEAN
  BY DEF BudgetTypes, SessionTypes
<1>2. CASE Prepares(p)
  BY <1>1, <1>2, PreparesKeepsSession
<1>3. CASE Start(p)
  <2>1. CASE UNCHANGED sessions
    <3>1. UNCHANGED <<sessions, lacking>>
      BY <1>3, <2>1 DEF Start
    <3> QED BY <1>1, <3>1 DEF sessions, BudgetTypes, LackTypes, SessionTypes, SessionShape
  <2>2. Prepares(p) \/ UNCHANGED sessions
    BY <1>3 DEF Start, Prepares
  <2> QED BY <1>2, <2>1, <2>2
<1>4. CASE LinkActive(p) \/ LinkDown(p)
  BY <1>2, <1>4 DEF LinkActive, LinkDown, Prepares
<1>5. CASE SendOffer(p)
  <2>1. SUFFICES ASSUME ~end_sync(p)
        PROVE  /\ SessionTypes'
               /\ \A q \in Peers \ {p} : state'[q] = state[q] /\ budget_reserved'[q] = budget_reserved[q]
               /\ state'[p] = "REQUEST_SENT" => budget_reserved'[p] <= lacking'[p]
    BY <1>2 DEF Prepares
  <2>2. PICK n \in 1 .. next_batch_demand(p) :
          /\ Least(n, OfferCap(p, n)) # 0
          /\ SessionBecomes(p, "REQUEST_SENT", Least(n, OfferCap(p, n)), turn_sent[p], 0, reidentified[p])
    BY <1>5, <2>1 DEF SendOffer
  <2> DEFINE offered == Least(n, OfferCap(p, n))
  <2>3. offered \in Nat /\ offered <= lacking[p] /\ offered # 0
    BY <2>2, OfferIsCounted
  <2>4. SessionBecomes(p, "REQUEST_SENT", offered, turn_sent[p], 0, reidentified[p])
    BY <2>2
  <2>5. lacking' = lacking
    BY <1>5 DEF SendOffer
  <2> HIDE DEF offered
  <2>6. /\ "REQUEST_SENT" \in States /\ 0 \in Nat /\ offered > 0
        /\ ~(0 > 0)
    BY <2>3 DEF States
  <2> QED BY <1>1, <2>3, <2>4, <2>5, <2>6, SessionMoves
<1>6. CASE OfferResponse(p)
  <2>1. CASE \E n \in 0 .. (IF ListsTwice THEN 2 ELSE 1) * budget_reserved[p] : Wanted(p, n)
    <3>1. PICK n \in Nat : Wanted(p, n)
      BY <1>1, <2>1
    <3>2. CASE n = 0
      BY <1>2, <3>1, <3>2 DEF Wanted, Prepares
    <3>3. CASE n # 0
      <4>1. SessionBecomes(p, "RESPONSE_RECEIVED", n, turn_sent[p], 0, reidentified[p])
        BY <3>1, <3>3 DEF Wanted
      <4>2. "RESPONSE_RECEIVED" \in States /\ 0 \in Nat /\ n > 0 /\ ~(0 > 0)
        BY <3>3 DEF States
      <4> QED BY <1>1, <4>1, <4>2, SessionMoves
    <3> QED BY <3>2, <3>3
  <2>2. CASE NoIdentity(p) \/ Refused(p)
    BY <1>2, <2>2 DEF NoIdentity, Refused, Prepares
  <2> QED BY <1>6, <2>1, <2>2 DEF OfferResponse
<1>7. CASE send_sync_resource(p)
  <2>1. PICK read \in 0 .. budget_reserved[p] :
          IF read = 0 THEN end_sync(p)
          ELSE SessionBecomes(p, "RESOURCE_TRANSFERRING", 0, Least(turn_sent[p] + read, Budget), read,
                              reidentified[p])
    BY <1>7 DEF send_sync_resource
  <2>2. CASE read = 0
    BY <1>2, <2>1, <2>2 DEF Prepares
  <2>3. CASE read # 0
    <3> DEFINE t == Least(turn_sent[p] + read, Budget)
    <3>1. SessionBecomes(p, "RESOURCE_TRANSFERRING", 0, t, read, reidentified[p])
      BY <2>1, <2>3
    <3>2. t \in Nat /\ read \in Nat /\ read > 0
      BY <1>1, <2>3, BudgetConstants DEF Least
    <3> HIDE DEF t
    <3>3. "RESOURCE_TRANSFERRING" \in States /\ 0 \in Nat /\ ~(0 > 0)
      BY DEF States
    <3> QED BY <1>1, <3>1, <3>2, <3>3, SessionMoves
  <2> QED BY <2>2, <2>3
<1>8. CASE ResourceCompleted(p)
  <2>1. Prepares(p)
    BY <1>1, <1>8 DEF ResourceCompleted, Prepares
  <2> QED BY <1>2, <2>1
<1> QED BY <1>3, <1>4, <1>5, <1>6, <1>7, <1>8 DEF Session

\* What a peer no longer lacks, it lacked.
LEMMA SessionKeepsLacks ==
  ASSUME BudgetTypes, NEW p \in Peers, Session(p)
  PROVE  LackTypes'
<1>1. /\ lacking \in [Peers -> 0 .. MaxLacks] /\ lacking[p] \in 0 .. MaxLacks /\ MaxLacks \in Nat
      /\ budget_reserved[p] \in Nat /\ batch[p] \in Nat
  BY BudgetAssumption DEF BudgetTypes, LackTypes, SessionTypes
<1>2. CASE UNCHANGED lacking
  BY <1>1, <1>2, SessionKeepsSessions, LackKept DEF BudgetTypes
<1>3. ASSUME NEW left \in 0 .. MaxLacks, lacking' = [lacking EXCEPT ![p] = left]
      PROVE  LackTypes'
  <2>1. lacking' \in [Peers -> 0 .. MaxLacks] /\ \A q \in Peers \ {p} : lacking'[q] = lacking[q]
    BY <1>1, <1>3
  <2> QED BY <2>1, SessionKeepsSessions, LackKept DEF BudgetTypes
<1>4. CASE OfferResponse(p)
  <2>1. CASE \E n \in 0 .. (IF ListsTwice THEN 2 ELSE 1) * budget_reserved[p] : Wanted(p, n)
    <3>1. PICK n \in Nat : Wanted(p, n)
      BY <1>1, <2>1
    <3>2. budget_reserved[p] <= lacking[p]
      BY <1>4 DEF OfferResponse, BudgetTypes, LackTypes
    <3> DEFINE left == lacking[p] - Without(budget_reserved[p], n)
    <3>3. left \in 0 .. MaxLacks
      BY <1>1, <3>2 DEF Without
    <3>4. lacking' = [lacking EXCEPT ![p] = left]
      BY <3>1 DEF Wanted
    <3> QED BY <1>3, <3>3, <3>4
  <2>2. CASE NoIdentity(p) \/ Refused(p)
    BY <1>2, <2>2 DEF NoIdentity, Refused
  <2> QED BY <1>4, <2>1, <2>2 DEF OfferResponse
<1>5. CASE send_sync_resource(p)
  <2>1. \E read \in 0 .. budget_reserved[p] :
          \E missing \in 0 .. Least(budget_reserved[p] - read, lacking[p]) :
            lacking' = [lacking EXCEPT ![p] = lacking[p] - missing]
    BY <1>5 DEF send_sync_resource
  <2>2. \E missing \in 0 .. lacking[p] : lacking' = [lacking EXCEPT ![p] = lacking[p] - missing]
    <3>1. ASSUME NEW read \in 0 .. budget_reserved[p],
                 NEW missing \in 0 .. Least(budget_reserved[p] - read, lacking[p])
          PROVE  missing \in 0 .. lacking[p]
      BY <1>1 DEF Least
    <3> QED BY <2>1, <3>1
  <2>3. PICK missing \in 0 .. lacking[p] : lacking' = [lacking EXCEPT ![p] = lacking[p] - missing]
    BY <2>2
  <2>4. lacking[p] - missing \in 0 .. MaxLacks
    BY <1>1
  <2> QED BY <1>3, <2>3, <2>4
<1>6. CASE ResourceCompleted(p)
  <2>1. lacking' = [lacking EXCEPT ![p] = Without(lacking[p], batch[p])]
    BY <1>6 DEF ResourceCompleted
  <2>2. Without(lacking[p], batch[p]) \in 0 .. MaxLacks
    BY <1>1 DEF Without
  <2> QED BY <1>3, <2>1, <2>2
<1>7. CASE Start(p) \/ LinkActive(p) \/ LinkDown(p) \/ SendOffer(p)
  BY <1>2, <1>7 DEF Start, LinkActive, LinkDown, SendOffer
<1> QED BY <1>4, <1>5, <1>6, <1>7 DEF Session

LEMMA SessionKeepsChoice ==
  ASSUME BudgetTypes, NEW p \in Peers, Session(p)
  PROVE  ChoiceTypes'
<1>1. ChoiceTypes
  BY DEF BudgetTypes
<1>2. CASE \/ UNCHANGED choice
           \/ \E n : PrepareIdle(p, n)
           \/ \E n, again : PrepareReady(p, n, again)
                            /\ (UNCHANGED wait \/ wait' = [wait EXCEPT ![p] = "none"])
  BY <1>1, <1>2, PreparesKeepsChoice
<1>3. CASE Start(p) \/ LinkActive(p) \/ LinkDown(p)
  BY <1>2, <1>3 DEF Start, LinkActive, LinkDown
<1>4. CASE SendOffer(p) \/ send_sync_resource(p)
  BY <1>2, <1>4 DEF SendOffer, send_sync_resource
<1>5. CASE OfferResponse(p)
  <2>1. CASE \E n : Wanted(p, n)
    BY <1>2, <2>1 DEF Wanted
  <2>2. CASE NoIdentity(p)
    BY <1>2, <2>2 DEF NoIdentity
  <2>3. CASE Refused(p)
    BY <1>1, <2>3 DEF Refused, ChoiceTypes
  <2> QED BY <1>5, <2>1, <2>2, <2>3 DEF OfferResponse
<1>6. CASE ResourceCompleted(p)
  BY <1>2, <1>6 DEF ResourceCompleted
<1> QED BY <1>3, <1>4, <1>5, <1>6 DEF Session

LEMMA SessionKeepsClock ==
  ASSUME BudgetTypes, NEW p \in Peers, Session(p)
  PROVE  ClockTypes'
<1>1. UNCHANGED <<record_age, ticked, restarts>> /\ starts' \subseteq starts
  BY DEF Session, Start, LinkActive, LinkDown, SendOffer, OfferResponse, send_sync_resource,
     ResourceCompleted, SessionStep, clock
<1>2. outbound_sends' \in [Ages -> Nat] /\ handed' \in [Ages -> Nat]
  <2>1. outbound_sends \in [Ages -> Nat] /\ handed \in [Ages -> Nat] /\ 0 \in Ages
    BY BudgetConstants DEF BudgetTypes, ClockTypes
  <2>2. CASE NothingSent
    BY <2>1, <2>2 DEF NothingSent
  <2>3. CASE send_sync_resource(p)
    <3>1. budget_reserved[p] \in Nat
      BY DEF BudgetTypes, SessionTypes
    <3>2. PICK read \in 0 .. budget_reserved[p] : NothingSent \/ record_outbound_send(read)
      BY <2>3 DEF send_sync_resource
    <3>3. read \in Nat /\ outbound_sends[0] + read \in Nat /\ handed[0] + read \in Nat
      BY <2>1, <3>1
    <3> QED BY <2>1, <2>2, <3>2, <3>3 DEF record_outbound_send
  <2> QED BY <2>2, <2>3 DEF Session, Start, LinkActive, LinkDown, SendOffer, OfferResponse, ResourceCompleted
<1> QED BY <1>1, <1>2 DEF BudgetTypes, ClockTypes

LEMMA SessionKeepsTypes ==
  ASSUME BudgetTypes, NEW p \in Peers, Session(p)
  PROVE  BudgetTypes'
BY SessionKeepsSessions, SessionKeepsLacks, SessionKeepsChoice, SessionKeepsClock DEF BudgetTypes

\* The clock, the tick and what goes on beside the sessions.
LEMMA TickKeepsTypes ==
  ASSUME BudgetTypes, tick_sync
  PROVE  BudgetTypes'
<1>1. ticked' = TRUE /\ starts' \subseteq Peers /\ alive' \in {alive, Demoted}
  <2>1. CASE NobodySelected
    BY <2>1 DEF NobodySelected, BudgetTypes, ClockTypes
  <2>2. CASE \E p \in Peers : select_sync_peer(p)
    BY <2>2 DEF select_sync_peer, BudgetTypes, ClockTypes
  <2> QED BY <2>1, <2>2 DEF tick_sync
<1>2. UNCHANGED <<outbound_sends, record_age, sessions, lacking, wait, last_turn, history>>
  BY DEF tick_sync, NobodySelected, select_sync_peer
<1>3. alive' \in [Peers -> BOOLEAN]
  <2>1. Demoted \in [Peers -> BOOLEAN]
    <3>1. \A p \in Peers : (alive[p] /\ ~(Idle(p) /\ wait[p] = "failed")) \in BOOLEAN
      OBVIOUS
    <3> QED BY <3>1 DEF Demoted
  <2> QED BY <1>1, <2>1 DEF BudgetTypes, ChoiceTypes
<1>4. ClockTypes'
  BY <1>1, <1>2 DEF BudgetTypes, ClockTypes, history
<1>5. SessionTypes' /\ LackTypes'
  BY <1>2 DEF BudgetTypes, SessionTypes, SessionShape, LackTypes, sessions
<1>6. ChoiceTypes'
  BY <1>2, <1>3 DEF BudgetTypes, ChoiceTypes
<1> QED BY <1>4, <1>5, <1>6 DEF BudgetTypes

LEMMA BesideKeepsTypes ==
  ASSUME BudgetTypes, MessagesCome \/ \E p \in Peers : MessageLeaves(p) \/ WaitOver(p) \/ Announced(p)
  PROVE  BudgetTypes'
<1>1. SessionsGoOn
  BY DEF MessagesCome, MessageLeaves, WaitOver, Announced
<1>2. ClockTypes' /\ SessionTypes'
  BY <1>1 DEF SessionsGoOn, BudgetTypes, ClockTypes, SessionTypes, SessionShape, sessions, clock, history
<1>3. ChoiceTypes'
  <2>1. CASE UNCHANGED choice
    BY <2>1 DEF BudgetTypes, ChoiceTypes, choice
  <2>2. ASSUME NEW p \in Peers, WaitOver(p) \/ Announced(p) PROVE ChoiceTypes'
    BY <2>2 DEF WaitOver, Announced, BudgetTypes, ChoiceTypes
  <2> QED BY <2>1, <2>2 DEF MessagesCome, MessageLeaves
<1>4. LackTypes'
  <2>1. /\ MaxLacks \in Nat /\ \A p \in Peers : lacking[p] \in 0 .. MaxLacks
        /\ \A p \in Peers : budget_reserved[p] \in Nat /\ batch[p] \in Nat
    BY BudgetAssumption DEF BudgetTypes, LackTypes, SessionTypes
  <2>2. state' = state /\ budget_reserved' = budget_reserved
    BY <1>1 DEF SessionsGoOn, sessions
  <2>3. CASE UNCHANGED lacking
    BY <2>2, <2>3 DEF BudgetTypes, LackTypes
  <2>4. CASE MessagesCome
    <3>1. PICK S \in SUBSET Peers :
            lacking' = [p \in Peers |-> IF p \in S THEN Least(lacking[p] + 1, MaxLacks) ELSE lacking[p]]
      BY <2>4 DEF MessagesCome
    <3>2. \A p \in Peers : lacking'[p] \in 0 .. MaxLacks /\ lacking[p] <= lacking'[p]
      BY <2>1, <3>1 DEF Least
    <3>3. lacking' \in [Peers -> 0 .. MaxLacks]
      BY <3>1, <3>2
    <3>4. \A p \in Peers : state'[p] = "REQUEST_SENT" => budget_reserved'[p] <= lacking'[p]
      BY <2>1, <2>2, <3>2 DEF BudgetTypes, LackTypes
    <3> QED BY <3>3, <3>4 DEF LackTypes
  <2>5. ASSUME NEW p \in Peers, MessageLeaves(p) PROVE LackTypes'
    <3>1. /\ lacking' = [lacking EXCEPT ![p] = lacking[p] - 1]
          /\ lacking[p] > budget_reserved[p] + batch[p]
      BY <2>5 DEF MessageLeaves
    <3>2. lacking[p] - 1 \in 0 .. MaxLacks /\ budget_reserved[p] <= lacking[p] - 1
      BY <2>1, <3>1
    <3>3. /\ lacking' \in [Peers -> 0 .. MaxLacks] /\ lacking'[p] = lacking[p] - 1
          /\ \A q \in Peers \ {p} : lacking'[q] = lacking[q]
      BY <3>1, <3>2 DEF BudgetTypes, LackTypes
    <3> QED BY <2>2, <3>2, <3>3, LackKept DEF BudgetTypes
  <2> QED BY <2>3, <2>4, <2>5 DEF WaitOver, Announced
<1> QED BY <1>2, <1>3, <1>4 DEF BudgetTypes

LEMMA ElapseKeepsTypes ==
  ASSUME BudgetTypes, Elapse
  PROVE  BudgetTypes'
<1>1. ASSUME NEW f \in [Ages -> Nat] PROVE Aged(f) \in [Ages -> Nat]
  <2>1. ASSUME NEW a \in Ages, a # 0 PROVE a - 1 \in Ages
    BY <2>1, BudgetConstants
  <2> QED BY <2>1 DEF Aged
<1>2. record_age' \in 0 .. Window
  BY BudgetConstants DEF Elapse, Least, BudgetTypes, ClockTypes
<1>3. ClockTypes'
  BY <1>1, <1>2 DEF Elapse, BudgetTypes, ClockTypes
<1> QED BY <1>3 DEF Elapse, BudgetTypes, SessionTypes, SessionShape, ChoiceTypes, LackTypes, sessions, choice

LEMMA RestartKeepsTypes ==
  ASSUME BudgetTypes, Restart
  PROVE  BudgetTypes'
<1>1. ClockTypes'
  <2>1. restarts' \in 0 .. MaxRestarts
    BY BudgetAssumption DEF Restart, BudgetTypes, ClockTypes
  <2>2. record_age' \in 0 .. Window
    BY BudgetConstants DEF Restart
  <2> QED BY <2>1, <2>2 DEF Restart, BudgetTypes, ClockTypes
<1>2. SessionTypes'
  BY DEF Restart, SessionTypes, SessionShape, States
<1>3. ChoiceTypes'
  <2>1. 0 \in 0 .. Cardinality(Peers)
    BY BudgetConstants, FS_CardinalityType
  <2> QED BY <2>1 DEF Restart, BudgetTypes, ChoiceTypes
<1>4. LackTypes'
  BY BudgetAssumption DEF Restart, LackTypes
<1> QED BY <1>1, <1>2, <1>3, <1>4 DEF BudgetTypes

LEMMA InitTypes ==
  ASSUME BudgetInit
  PROVE  BudgetTypes
<1>1. ClockTypes
  <2>1. restarts \in 0 .. MaxRestarts /\ record_age \in 0 .. Window
    BY BudgetAssumption DEF BudgetInit
  <2> QED BY <2>1 DEF BudgetInit, ClockTypes
<1>2. SessionTypes
  BY DEF BudgetInit, SessionTypes, SessionShape, States
<1>3. ChoiceTypes
  <2>1. 0 \in 0 .. Cardinality(Peers)
    BY BudgetConstants, FS_CardinalityType
  <2> QED BY <2>1 DEF BudgetInit, ChoiceTypes
<1>4. LackTypes
  BY BudgetAssumption DEF BudgetInit, LackTypes
<1> QED BY <1>1, <1>2, <1>3, <1>4 DEF BudgetTypes

\* Types for any peers, budget, window and offers, whether an answer lists an id
\* twice or not: what is reserved is an offer or an answer, what is in flight a
\* transfer, and no answer takes from a peer what it no longer lacks, whatever
\* comes and leaves between the offer and the answer (lxmf_propagation.rs).
THEOREM BudgetTypeCorrect == BudgetSpec => []BudgetTypeOK
<1>1. BudgetTypes /\ [BudgetNext]_budget_vars => BudgetTypes'
  <2> SUFFICES ASSUME BudgetTypes, [BudgetNext]_budget_vars PROVE BudgetTypes'
    OBVIOUS
  <2>1. CASE UNCHANGED budget_vars
    BY <2>1 DEF budget_vars, BudgetTypes, ClockTypes, SessionTypes, SessionShape, ChoiceTypes, LackTypes,
       sessions, choice, clock, history
  <2> QED BY <2>1, SessionKeepsTypes, TickKeepsTypes, BesideKeepsTypes, ElapseKeepsTypes, RestartKeepsTypes
          DEF BudgetNext
<1>2. BudgetTypes => BudgetTypeOK
  BY DEF BudgetTypes, ClockTypes, SessionTypes, SessionShape, ChoiceTypes, LackTypes, BudgetTypeOK
<1> QED BY InitTypes, <1>1, <1>2, PTL DEF BudgetSpec
=============================================================================
