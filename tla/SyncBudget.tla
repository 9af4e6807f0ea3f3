------------------------------ MODULE SyncBudget ------------------------------
(***************************************************************************)
(* The outbound sync budget all peers share (rfed/src/lxmf_propagation.rs, *)
(* "The per-minute outbound budget" and "Sharing the budget"): the tick    *)
(* that chooses a peer, the sessions that reserve of the budget and spend  *)
(* it, the window that rolls, restarts.                                    *)
(*                                                                         *)
(* Messages are counted, not told apart, and what a session does otherwise *)
(* is PeerSync's; every peer's stamp costs are known and its key is ready. *)
(* One worker runs every session's events, so between an event and the     *)
(* offer or the batch it leads to no other session moves.                  *)
(***************************************************************************)
EXTENDS Integers, FiniteSets, Functions

CONSTANTS
  Peers,
  Budget,       \* outbound_sync_msgs_per_min
  Window,       \* OUTBOUND_BUDGET_WINDOW_SECS, in PEER_SYNC_INTERVAL_SECS
  MaxOffer,     \* MAX_OFFER_IDS
  MaxLacks,     \* bound on the messages one peer lacks
  MaxRestarts,  \* bound on restarts
  ListsTwice    \* whether an answer may list a wanted id twice

ASSUME BudgetAssumption ==
  /\ IsFiniteSet(Peers) /\ Peers # {}
  /\ Budget \in Nat \ {0} /\ Window \in Nat \ {0} /\ MaxOffer \in Nat \ {0}
  /\ MaxLacks \in Nat /\ MaxRestarts \in Nat
  /\ ListsTwice \in BOOLEAN

VARIABLES
  outbound_sends,   \* what was handed to links, by how long ago
  record_age,       \* how long ago outbound_record_start was, up to Window
  ticked,           \* last_sync_tick: whether the tick of this interval was
  starts,           \* the peers whose Start waits for the worker
  state,            \* of each peer: its state,
  budget_reserved,
  turn_sent,
  batch,            \*   the messages of the Resource in flight,
  reidentified,     \*   whether its link was identified a second time,
  lacking,          \*   the messages it may be offered,
  alive,
  wait,             \*   what it must wait out: next_sync_attempt, throttled_until
  last_turn,        \*   last_sync_attempt: its place among them, 0: never
  restarts,
  handed            \* history: outbound_sends, whatever restarts

sessions == <<state, budget_reserved, turn_sent, batch, reidentified>>
choice == <<alive, wait, last_turn>>
clock == <<record_age, ticked>>
history == <<restarts, handed>>
budget_vars == <<outbound_sends, clock, starts, sessions, lacking, choice, history>>

Ages == 0 .. Window - 1
Least(a, b) == IF a < b THEN a ELSE b
Without(a, b) == IF a < b THEN 0 ELSE a - b

-----------------------------------------------------------------------------
(***************************************************************************)
(* The budget and its sharing.                                             *)
(***************************************************************************)

\* BUG: what the running sessions hold is not counted.
allowance_of_sends ==
  IF record_age < Window THEN 0 ELSE Without(Budget, SumFunction(outbound_sends))

outbound_allowance ==
  IF record_age < Window
    THEN 0
    ELSE Without(Budget, SumFunction(outbound_sends) + SumFunction(budget_reserved))

Idle(p) == state[p] = "IDLE" /\ lacking[p] > 0
contends_for_sync(p) == Idle(p) /\ wait[p] = "none"
Contenders == {p \in Peers : contends_for_sync(p)}
next_batch_demand(p) == Least(lacking[p], MaxOffer)
Demand(S) == SumFunction([p \in S |-> next_batch_demand(p)])

fair_share(n) ==
  LET CeilDiv(a, b) == (a + b - 1) \div b
      equal == CeilDiv(Budget, n)
      per_tick == CeilDiv(Budget, Window)
  IN  IF equal > per_tick THEN equal ELSE per_tick

\* Whether others are waiting for what a session that wants n would leave.
Contended(p, n) ==
  LET others == Contenders \ {p}
  IN  others # {} /\ n + Demand(others) > outbound_allowance

Share(p) == fair_share(Cardinality(Contenders \ {p}) + 1)

\* What an offer of n messages is cut to.
OfferCap(p, n) ==
  IF Contended(p, n)
    THEN Least(outbound_allowance, Without(Share(p), turn_sent[p]))
    ELSE outbound_allowance

-----------------------------------------------------------------------------
(***************************************************************************)
(* The tick chooses a peer.                                                *)
(***************************************************************************)

Binds == Demand(Contenders) > outbound_allowance
Waiting == {p \in Contenders : alive[p]}

\* BUG: the reference's choice, whether or not the budget binds.
reference_pool == IF Waiting # {} THEN Waiting ELSE Contenders

\* Under a budget that binds, whose turn is longest past; else any that is
\* alive, which is which is a matter of their speed.
pool ==
  IF Binds
    THEN {p \in Contenders : \A q \in Contenders : last_turn[p] <= last_turn[q]}
    ELSE IF Waiting # {} THEN Waiting ELSE Contenders

\* It goes by as though the peer had been tried.
Demoted == [p \in Peers |-> alive[p] /\ ~(Idle(p) /\ wait[p] = "failed")]

select_sync_peer(p) ==
  /\ ~ticked
  /\ outbound_allowance > 0
  /\ p \in pool
  /\ ticked' = TRUE
  /\ alive' = Demoted
  /\ starts' = starts \cup {p}
  /\ UNCHANGED <<outbound_sends, record_age, sessions, lacking, wait, last_turn, history>>

NobodySelected ==
  /\ ~ticked
  /\ outbound_allowance = 0 \/ Contenders = {}
  /\ ticked' = TRUE
  /\ alive' = IF outbound_allowance > 0 THEN Demoted ELSE alive
  /\ UNCHANGED <<outbound_sends, record_age, starts, sessions, lacking, wait, last_turn, history>>

tick_sync == NobodySelected \/ \E p \in Peers : select_sync_peer(p)

-----------------------------------------------------------------------------
(***************************************************************************)
(* A session's steps.                                                      *)
(***************************************************************************)

WorkerFree == \A p \in Peers : state[p] \notin {"LINK_READY", "RESPONSE_RECEIVED"}

\* The newest turn of all.
TurnOf(p) ==
  LET places == {last_turn[q] : q \in Peers \ {p}} \ {0}
  IN  [q \in Peers |-> IF q = p THEN Cardinality(places) + 1
                       ELSE Cardinality(places \cap 1 .. last_turn[q])]

SessionBecomes(p, s, reserved, sent, ids, again) ==
  /\ state' = [state EXCEPT ![p] = s]
  /\ budget_reserved' = [budget_reserved EXCEPT ![p] = reserved]
  /\ turn_sent' = [turn_sent EXCEPT ![p] = sent]
  /\ batch' = [batch EXCEPT ![p] = ids]
  /\ reidentified' = [reidentified EXCEPT ![p] = again]

end_sync(p) == SessionBecomes(p, "IDLE", 0, 0, 0, FALSE)

\* From IDLE, with n messages to sync: a new turn, for which the backoff
\* runs until the link is up; or the peer is left as it is.
PrepareIdle(p, n) ==
  /\ last_turn' = TurnOf(p)
  /\ IF wait[p] = "none" /\ n > 0
       THEN /\ SessionBecomes(p, "LINK_ESTABLISHING", 0, 0, 0, FALSE)
            /\ wait' = [wait EXCEPT ![p] = "failed"]
            /\ UNCHANGED alive
       ELSE /\ end_sync(p)
            /\ alive' = [alive EXCEPT ![p] = @ /\ wait[p] # "failed"]
            /\ UNCHANGED wait

\* On the session's link.
PrepareReady(p, n, again) ==
  /\ last_turn' = TurnOf(p)
  /\ IF n > 0
       THEN /\ SessionBecomes(p, "LINK_READY", 0, turn_sent[p], 0, again)
            /\ alive' = [alive EXCEPT ![p] = TRUE]
       ELSE end_sync(p) /\ UNCHANGED alive

SessionStep == UNCHANGED <<clock, restarts>>
NothingSent == UNCHANGED <<outbound_sends, handed>>

Start(p) ==
  /\ WorkerFree
  /\ p \in starts
  /\ starts' = starts \ {p}
  /\ IF state[p] = "IDLE"
       THEN PrepareIdle(p, lacking[p])
       ELSE UNCHANGED <<sessions, choice>>
  /\ UNCHANGED lacking
  /\ NothingSent /\ SessionStep

LinkActive(p) ==
  /\ WorkerFree
  /\ state[p] = "LINK_ESTABLISHING"
  /\ wait' = [wait EXCEPT ![p] = "none"]
  /\ PrepareReady(p, lacking[p], FALSE)
  /\ UNCHANGED <<lacking, starts>>
  /\ NothingSent /\ SessionStep

\* The attempt fails, or the link closes, or the offer is not answered.
LinkDown(p) ==
  /\ WorkerFree
  /\ state[p] # "IDLE"
  /\ end_sync(p)
  /\ UNCHANGED <<lacking, choice, starts>>
  /\ NothingSent /\ SessionStep

\* What the peer's own limits leave of what it lacks is cut to the budget.
SendOffer(p) ==
  /\ state[p] = "LINK_READY"
  /\ \/ \E n \in 1 .. next_batch_demand(p) :
          LET offered == Least(n, OfferCap(p, n))
          IN  IF offered = 0
                THEN end_sync(p)
                ELSE SessionBecomes(p, "REQUEST_SENT", offered, turn_sent[p], 0, reidentified[p])
     \/ end_sync(p)
  /\ UNCHANGED <<lacking, choice, starts>>
  /\ NothingSent /\ SessionStep

\* What it does not want, or is gone from the store, it no longer lacks.
\* Nothing makes the wanted ids differ from one another.
Wanted(p, n) ==
  /\ lacking' = [lacking EXCEPT ![p] = @ - Without(budget_reserved[p], n)]
  /\ IF n = 0
       THEN end_sync(p)
       ELSE SessionBecomes(p, "RESPONSE_RECEIVED", n, turn_sent[p], 0, reidentified[p])
  /\ UNCHANGED choice

\* Once per link; the re-offer is sized afresh.
NoIdentity(p) ==
  /\ ~reidentified[p]
  /\ PrepareReady(p, lacking[p], TRUE)
  /\ UNCHANGED <<wait, lacking>>

Refused(p) ==
  /\ end_sync(p)
  /\ wait' = [wait EXCEPT ![p] = "throttled"]
  /\ UNCHANGED <<alive, last_turn, lacking>>

OfferResponse(p) ==
  /\ WorkerFree
  /\ state[p] = "REQUEST_SENT"
  /\ \/ \E n \in 0 .. (IF ListsTwice THEN 2 ELSE 1) * budget_reserved[p] : Wanted(p, n)
     \/ NoIdentity(p)
     \/ Refused(p)
  /\ UNCHANGED starts
  /\ NothingSent /\ SessionStep

record_outbound_send(n) ==
  /\ outbound_sends' = [outbound_sends EXCEPT ![0] = @ + n]
  /\ handed' = [handed EXCEPT ![0] = @ + n]

\* Files may be missing, and are no longer lacked, or unreadable.  A
\* Resource that then does not start still counts.  Sent past the budget,
\* a turn is as long as any.
send_sync_resource(p) ==
  /\ state[p] = "RESPONSE_RECEIVED"
  /\ \E read \in 0 .. budget_reserved[p] :
       /\ \E missing \in 0 .. Least(budget_reserved[p] - read, lacking[p]) :
            lacking' = [lacking EXCEPT ![p] = @ - missing]
       /\ IF read = 0
            THEN end_sync(p) /\ NothingSent
            ELSE /\ record_outbound_send(read)
                 /\ SessionBecomes(p, "RESOURCE_TRANSFERRING", 0, Least(turn_sent[p] + read, Budget), read,
                                   reidentified[p])
  /\ UNCHANGED <<choice, starts>>
  /\ SessionStep

\* With others waiting, a session's turn is its share, on one link.
Yields(p, n, held) ==
  /\ Contended(p, n)
  /\ turn_sent[p] >= Share(p) \/ outbound_allowance = 0 \/ ~held

\* Once its batch has gone through the session ends, takes its next batch
\* on the held link, or starts anew.
ResourceCompleted(p) ==
  /\ WorkerFree
  /\ state[p] = "RESOURCE_TRANSFERRING"
  /\ lacking' = [lacking EXCEPT ![p] = Without(@, batch[p])]
  /\ \E held \in BOOLEAN :
       IF lacking'[p] = 0 \/ Yields(p, Least(lacking'[p], MaxOffer), held)
         THEN end_sync(p) /\ UNCHANGED choice
         ELSE IF held THEN PrepareReady(p, lacking'[p], reidentified[p]) /\ UNCHANGED wait
                      ELSE PrepareIdle(p, lacking'[p])
  /\ UNCHANGED starts
  /\ NothingSent /\ SessionStep

-----------------------------------------------------------------------------
(***************************************************************************)
(* What goes on beside the sessions.                                       *)
(***************************************************************************)

SessionsGoOn == UNCHANGED <<outbound_sends, clock, starts, sessions, history>>

\* Stored for every peer but its sender; or the backlog is released.
MessagesCome ==
  \E S \in SUBSET Peers :
    /\ lacking' = [p \in Peers |-> IF p \in S THEN Least(lacking[p] + 1, MaxLacks) ELSE lacking[p]]
    /\ UNCHANGED choice
    /\ SessionsGoOn

\* One the session holds is accounted for by the answer, or the batch.
MessageLeaves(p) ==
  /\ lacking[p] > budget_reserved[p] + batch[p]
  /\ lacking' = [lacking EXCEPT ![p] = @ - 1]
  /\ UNCHANGED choice
  /\ SessionsGoOn

WaitOver(p) ==
  /\ wait[p] # "none"
  /\ wait' = [wait EXCEPT ![p] = "none"]
  /\ UNCHANGED <<alive, last_turn, lacking>>
  /\ SessionsGoOn

Announced(p) ==
  /\ alive' = [alive EXCEPT ![p] = TRUE]
  /\ wait' = [wait EXCEPT ![p] = IF @ = "failed" THEN "none" ELSE @]
  /\ UNCHANGED <<last_turn, lacking>>
  /\ SessionsGoOn

Aged(f) == [a \in Ages |-> IF a = 0 THEN 0 ELSE f[a - 1]]

Elapse ==
  /\ outbound_sends' = Aged(outbound_sends)
  /\ handed' = Aged(handed)
  /\ record_age' = Least(record_age + 1, Window)
  /\ ticked' = FALSE
  /\ UNCHANGED <<starts, sessions, lacking, choice, restarts>>

\* The peers' turns are as they were last saved; what is stored is backlog
\* again, for the hold.
Restart ==
  /\ restarts < MaxRestarts
  /\ restarts' = restarts + 1
  /\ outbound_sends' = [a \in Ages |-> 0]
  /\ record_age' = 0
  /\ ticked' = FALSE
  /\ starts' = {}
  /\ state' = [p \in Peers |-> "IDLE"]
  /\ budget_reserved' = [p \in Peers |-> 0]
  /\ turn_sent' = [p \in Peers |-> 0]
  /\ batch' = [p \in Peers |-> 0]
  /\ reidentified' = [p \in Peers |-> FALSE]
  /\ lacking' = [p \in Peers |-> 0]
  /\ wait' = [p \in Peers |-> "none"]
  /\ last_turn' \in {last_turn, [p \in Peers |-> 0]}
  /\ UNCHANGED <<alive, handed>>

-----------------------------------------------------------------------------

BudgetInit ==
  /\ outbound_sends = [a \in Ages |-> 0]
  /\ record_age = 0 /\ ticked = FALSE /\ starts = {}
  /\ state = [p \in Peers |-> "IDLE"]
  /\ budget_reserved = [p \in Peers |-> 0]
  /\ turn_sent = [p \in Peers |-> 0]
  /\ batch = [p \in Peers |-> 0]
  /\ reidentified = [p \in Peers |-> FALSE]
  /\ lacking = [p \in Peers |-> 0]
  /\ alive \in [Peers -> BOOLEAN]
  /\ wait = [p \in Peers |-> "none"]
  /\ last_turn = [p \in Peers |-> 0]
  /\ restarts = 0
  /\ handed = [a \in Ages |-> 0]

Session(p) ==
  \/ Start(p) \/ LinkActive(p) \/ LinkDown(p)
  \/ SendOffer(p) \/ OfferResponse(p)
  \/ send_sync_resource(p) \/ ResourceCompleted(p)

BudgetNext ==
  \/ tick_sync
  \/ \E p \in Peers :
       Session(p) \/ MessageLeaves(p) \/ WaitOver(p) \/ Announced(p)
  \/ MessagesCome
  \/ Elapse
  \/ Restart

BudgetSpec == BudgetInit /\ [][BudgetNext]_budget_vars

\* The main loop ticks; an attempt, a request and a Resource come to an end
\* of their own, and an event waits only for those the worker got before it.
BudgetFairness ==
  /\ WF_budget_vars(tick_sync) /\ WF_budget_vars(Elapse)
  /\ \A p \in Peers :
       /\ SF_budget_vars(Session(p)) /\ WF_budget_vars(WaitOver(p))

FairBudgetSpec == BudgetSpec /\ BudgetFairness

-----------------------------------------------------------------------------

States == {"IDLE", "LINK_ESTABLISHING", "LINK_READY", "REQUEST_SENT",
           "RESPONSE_RECEIVED", "RESOURCE_TRANSFERRING"}

\* Every variable has its type; only a session holds of the budget, and
\* only what an answer or a batch of it will yet settle.
BudgetTypeOK ==
  /\ outbound_sends \in [Ages -> Nat] /\ handed \in [Ages -> Nat]
  /\ record_age \in 0 .. Window /\ ticked \in BOOLEAN
  /\ starts \subseteq Peers
  /\ state \in [Peers -> States]
  /\ budget_reserved \in [Peers -> Nat] /\ batch \in [Peers -> Nat]
  /\ turn_sent \in [Peers -> Nat] /\ reidentified \in [Peers -> BOOLEAN]
  /\ lacking \in [Peers -> 0 .. MaxLacks]
  /\ alive \in [Peers -> BOOLEAN]
  /\ wait \in [Peers -> {"none", "failed", "throttled"}]
  /\ last_turn \in [Peers -> 0 .. Cardinality(Peers)]
  /\ restarts \in 0 .. MaxRestarts
  /\ \A p \in Peers :
       /\ budget_reserved[p] > 0 <=> state[p] \in {"REQUEST_SENT", "RESPONSE_RECEIVED"}
       /\ batch[p] > 0 <=> state[p] = "RESOURCE_TRANSFERRING"
       /\ state[p] = "IDLE" => turn_sent[p] = 0

\* "For every moment t, the messages in sync Resources handed to a link in
\* (t - 60 s, t] number at most outbound_sync_msgs_per_min, all peers
\* together, including across a restart": whatever sessions run at once, and
\* however their offers, answers and batches interleave with the window.
BudgetKept == SumFunction(handed) <= Budget

\* A peer is served by the reference's choice or strategy, as the budget
\* then left enough for all.
ServedFreely ==
  \E p \in Peers :
    \/ select_sync_peer(p) /\ ~Binds
    \/ /\ ResourceCompleted(p)
       /\ state'[p] # "IDLE"
       /\ ~Contended(p, Least(lacking'[p], MaxOffer))

\* "Every ready peer is served in turn", alive or not, while the budget
\* binds: once it binds whenever a peer is chosen or a session goes on, no
\* peer stays ready for ever.
TurnComes ==
  \A p \in Peers : <>[][~ServedFreely]_budget_vars => []<>(~contends_for_sync(p))
=============================================================================
