----------------------------- MODULE InboundSync -----------------------------
(***************************************************************************)
(* The receiving side of LXMF propagation sync (rfed/src/                  *)
(* lxmf_propagation.rs): the /offer handler, a link's Resource, the        *)
(* validation of its stamps, and what InboundSyncs records of them.  What  *)
(* becomes of a batch's messages is PropStore's.                           *)
(*                                                                         *)
(* The offer handler holds the node's lock and takes the lock of           *)
(* InboundSyncs for a moment at a time; the Resource and link callbacks    *)
(* and the ingest take the latter alone, so each comes between any two     *)
(* steps of the others.  A link's id is taken up again once the link is    *)
(* closed and nothing is at work on it.                                    *)
(***************************************************************************)
EXTENDS Integers, FiniteSets

CONSTANTS
  Links,
  Nodes,       \* the lxmf.propagation hashes of sending nodes
  Nobody,      \* the sender of a link on which nobody identified
  Configs,     \* who sends on the links, on which offers come, and how the
               \* node is configured
  MaxInbound   \* max_inbound_syncs

ASSUME InboundAssumption ==
  /\ Nobody \notin Nodes
  /\ Configs \subseteq [sender : [Links -> Nodes \cup {Nobody}], offers : SUBSET Links,
                        static : SUBSET Nodes, static_only : BOOLEAN, sequential : BOOLEAN, bypass : BOOLEAN]
  /\ MaxInbound \in Nat

VARIABLES
  config,
  link,         \* per link: "up", "closing" (its callback is due), "closed"
  offer,        \* per link, where the handler of its offer is
  batch,        \* per link, its Resource
  throttled,    \* throttled_peers
  validated,    \* validated_peer_links
  accepted,     \* accepted_offer_links, "none" where there is no entry
  validating,   \* validating_pn_stamps_from
  sync_links

inbound == <<throttled, validated, accepted, validating, sync_links>>
inbound_vars == <<config, link, offer, batch, inbound>>

-----------------------------------------------------------------------------

\* AdvertisedSender, and whether a valid key had been presented on the link.
Batch == [step : {"none", "transferring", "received", "validating", "storing", "concluding"},
          sender : Nodes \cup {Nobody}, keyed : BOOLEAN, presented : BOOLEAN]

NoBatch == [step |-> "none", sender |-> Nobody, keyed |-> FALSE, presented |-> FALSE]

InboundInit ==
  /\ config \in Configs
  /\ link = [l \in Links |-> "closed"]
  /\ offer = [l \in Links |-> "none"]
  /\ batch = [l \in Links |-> NoBatch]
  /\ throttled = {}
  /\ validated = {}
  /\ accepted = [l \in Links |-> "none"]
  /\ validating = {}
  /\ sync_links = {}

Sender(l) == config.sender[l]

\* An offer handler between its judgement and its answer holds the node.
NodeFree == \A l \in Links : offer[l] \notin {"key", "accept"}

-----------------------------------------------------------------------------
(***************************************************************************)
(* The link.                                                               *)
(***************************************************************************)

LinkOpens(l) ==
  /\ link[l] = "closed"
  /\ offer[l] = "none" /\ batch[l].step = "none"
  /\ link' = [link EXCEPT ![l] = "up"]
  /\ UNCHANGED <<config, offer, batch, inbound>>

\* torn down by either side, lost, or idle for too long (clean_links).
InboundLinkCloses(l) ==
  /\ link[l] = "up"
  /\ link' = [link EXCEPT ![l] = "closing"]
  /\ UNCHANGED <<config, offer, batch, inbound>>

\* teardown, which finds the link closed or closes it.
Down(l) == link' = [link EXCEPT ![l] = IF @ = "up" THEN "closing" ELSE @]

\* forget_link: all but the entry of a batch that is being validated.
forget_link(l) ==
  /\ validated' = validated \ {l}
  /\ sync_links' = sync_links \ {l}
  /\ accepted' = [accepted EXCEPT ![l] = IF @ = "VALIDATING" THEN @ ELSE "none"]
  /\ UNCHANGED <<throttled, validating>>

ClosedCallback(l) ==
  /\ link[l] = "closing"
  /\ link' = [link EXCEPT ![l] = "closed"]
  /\ forget_link(l)
  /\ UNCHANGED <<config, offer, batch>>

\* clean_links forgets a link it finds dead, or has just torn down.
clean_links(l) ==
  /\ l \in sync_links /\ link[l] # "up"
  /\ forget_link(l)
  /\ UNCHANGED <<config, link, offer, batch>>

-----------------------------------------------------------------------------
(***************************************************************************)
(* /offer.                                                                 *)
(***************************************************************************)

OfferComes(l) ==
  /\ link[l] = "up" /\ offer[l] = "none" /\ l \in config.offers
  /\ offer' = [offer EXCEPT ![l] = "judge"]
  /\ UNCHANGED <<config, link, batch, inbound>>

Transferring == {l \in Links : accepted[l] \in {"TRANSFERRING", "VALIDATING"}}

Busy == \/ config.sequential /\ validating # {}
        \/ MaxInbound > 0 /\ Cardinality(Transferring) >= MaxInbound

\* An offer that no rule refuses: there remain its data and its peering key.
Admissible(l) ==
  /\ Sender(l) # Nobody
  /\ Busy => config.bypass /\ Sender(l) \in config.static
  /\ Sender(l) \notin throttled
  /\ config.static_only => Sender(l) \in config.static

OfferAdmitted(l) ==
  /\ offer[l] = "judge" /\ NodeFree
  /\ Admissible(l)
  /\ offer' = [offer EXCEPT ![l] = "key"]
  /\ UNCHANGED <<config, link, batch, inbound>>

\* Whatever the reason, an error code is the answer.
OfferRefused(l) ==
  /\ offer[l] = "judge" /\ NodeFree
  /\ offer' = [offer EXCEPT ![l] = "record"]
  /\ UNCHANGED <<config, link, batch, inbound>>

\* The key is valid: the link may carry a transfer of many messages.
KeyPresented(l) ==
  /\ offer[l] = "key"
  /\ validated' = validated \cup {l}
  /\ offer' = [offer EXCEPT ![l] = "accept"]
  /\ UNCHANGED <<config, link, batch, throttled, accepted, validating, sync_links>>

\* The answer: an offer wanted in part is entered; all or nothing is not.
OfferAnswered(l) ==
  /\ offer[l] = "accept"
  /\ \/ accepted' = [accepted EXCEPT ![l] = "ACCEPTED"]
     \/ UNCHANGED accepted
  /\ offer' = [offer EXCEPT ![l] = "record"]
  /\ UNCHANGED <<config, link, batch, throttled, validated, validating, sync_links>>

\* after_offer, outside the node's lock.
AfterOffer(l) ==
  /\ offer[l] = "record"
  /\ sync_links' = sync_links \cup {l}
  /\ offer' = [offer EXCEPT ![l] = "check"]
  /\ UNCHANGED <<config, link, batch, throttled, validated, accepted, validating>>

\* BUG: the close callback is trusted to come after the entries.
left_to_callback(l) == UNCHANGED inbound

forget_link_if_closed(l) == IF link[l] = "up" THEN UNCHANGED inbound ELSE forget_link(l)

OfferOver(l) ==
  /\ offer[l] = "check"
  /\ forget_link_if_closed(l)
  /\ offer' = [offer EXCEPT ![l] = "none"]
  /\ UNCHANGED <<config, link, batch>>

-----------------------------------------------------------------------------
(***************************************************************************)
(* A link's Resource.                                                      *)
(***************************************************************************)

Moves(l, step) == batch' = [batch EXCEPT ![l].step = step]

\* Advertised and accepted: who sends, and whether with a key, is recorded.
Advertised(l) ==
  /\ link[l] = "up" /\ batch[l].step = "none"
  /\ config.static_only => Sender(l) \in config.static
  /\ accepted' = [accepted EXCEPT ![l] = IF @ = "none" THEN @ ELSE "TRANSFERRING"]
  /\ batch' = [batch EXCEPT ![l] =
       [step |-> "transferring", sender |-> Sender(l),
        keyed |-> Sender(l) # Nobody /\ l \in validated, presented |-> l \in validated]]
  /\ UNCHANGED <<config, link, offer, throttled, validated, validating, sync_links>>

\* The last part came, and the proof went out: the sender may hang up.
Received(l) ==
  /\ batch[l].step = "transferring" /\ link[l] = "up"
  /\ Moves(l, "received")
  /\ UNCHANGED <<config, link, offer, inbound>>

\* It failed, or its link went down.
TransferFails(l) ==
  /\ batch[l].step = "transferring"
  /\ Moves(l, "concluding")
  /\ UNCHANGED <<config, link, offer, inbound>>

\* BUG: asked when the transfer is over, when the link may be forgotten.
KeyedNow(l) == l \in validated

\* peering_key_valid, as recorded at the advertisement.
Keyed(l) == batch[l].keyed

\* ingest: a Resource of many messages without a key is refused whole; one
\* without messages is over.
Refuse(l) ==
  /\ batch[l].step = "received" /\ NodeFree
  /\ ~Keyed(l)
  /\ Down(l) /\ Moves(l, "concluding")
  /\ UNCHANGED <<config, offer, inbound>>

NoMessages(l) ==
  /\ batch[l].step = "received" /\ NodeFree
  /\ Moves(l, "concluding")
  /\ UNCHANGED <<config, link, offer, inbound>>

\* ValidationMark::new, for a sender that identified.
Validate(l) ==
  LET sender == batch[l].sender IN
  /\ batch[l].step = "received" /\ NodeFree
  /\ Moves(l, "validating")
  /\ validating' = validating \cup ({sender} \ {Nobody})
  /\ accepted' = [accepted EXCEPT ![l] = IF sender = Nobody THEN @ ELSE "VALIDATING"]
  /\ UNCHANGED <<config, link, offer, throttled, validated, sync_links>>

\* BUG: the mark outlives a link that closed meanwhile.
unmarked_if_up(l) == IF link[l] = "up" THEN validating \ {batch[l].sender} ELSE validating

\* ValidationMark::drop, in two parts: the sender's mark and the link's entry.
unmarked(l) == validating \ {batch[l].sender}

entry_dropped(l) ==
  [accepted EXCEPT ![l] = IF batch[l].sender = Nobody THEN @ ELSE "none"]

Validated(l) ==
  /\ batch[l].step = "validating"
  /\ Moves(l, "storing")
  /\ validating' = unmarked(l)
  /\ accepted' = entry_dropped(l)
  /\ UNCHANGED <<config, link, offer, throttled, validated, sync_links>>

\* The valid messages are stored.  Had one an invalid stamp, the link is torn
\* down and an identified sender throttled.
Stored(l) ==
  /\ batch[l].step = "storing" /\ NodeFree
  /\ Moves(l, "concluding")
  /\ \/ UNCHANGED <<link, throttled>>
     \/ Down(l) /\ throttled' = throttled \cup ({batch[l].sender} \ {Nobody})
  /\ UNCHANGED <<config, offer, validated, accepted, validating, sync_links>>

\* However it ended, the accepted offer is done with.
Concluded(l) ==
  /\ batch[l].step = "concluding"
  /\ accepted' = [accepted EXCEPT ![l] = "none"]
  /\ batch' = [batch EXCEPT ![l] = NoBatch]
  /\ UNCHANGED <<config, link, offer, throttled, validated, validating, sync_links>>

\* PN_STAMP_THROTTLE_SECS are over.
ThrottleEnds(n) ==
  /\ n \in throttled
  /\ throttled' = throttled \ {n}
  /\ UNCHANGED <<config, link, offer, batch, validated, accepted, validating, sync_links>>

-----------------------------------------------------------------------------

Handles(l) ==
  \/ OfferAdmitted(l) \/ OfferRefused(l) \/ KeyPresented(l) \/ OfferAnswered(l)
  \/ AfterOffer(l) \/ OfferOver(l)

Ingests(l) == Refuse(l) \/ NoMessages(l) \/ Validate(l) \/ Validated(l) \/ Stored(l) \/ Concluded(l)

InboundNext ==
  \/ \E l \in Links :
       \/ LinkOpens(l) \/ InboundLinkCloses(l) \/ ClosedCallback(l) \/ clean_links(l)
       \/ OfferComes(l) \/ Handles(l)
       \/ Advertised(l) \/ Received(l) \/ TransferFails(l) \/ Ingests(l)
  \/ \E n \in Nodes : ThrottleEnds(n)

InboundSpec == InboundInit /\ [][InboundNext]_inbound_vars

\* Handlers, the ingest and callbacks run to their end, a transfer ends.
FairInboundSpec ==
  /\ InboundSpec
  /\ \A l \in Links :
       /\ SF_inbound_vars(Handles(l)) /\ SF_inbound_vars(Ingests(l))
       /\ WF_inbound_vars(Received(l) \/ TransferFails(l)) /\ WF_inbound_vars(ClosedCallback(l))

-----------------------------------------------------------------------------
(***************************************************************************)
(* Properties.                                                             *)
(***************************************************************************)

\* Types; an entry says VALIDATING, which its link's close leaves in place, only
\* while the batch is being validated.
InboundTypeOK ==
  /\ config \in Configs
  /\ link \in [Links -> {"up", "closing", "closed"}]
  /\ offer \in [Links -> {"none", "judge", "key", "accept", "record", "check"}]
  /\ batch \in [Links -> Batch]
  /\ throttled \subseteq Nodes
  /\ validated \subseteq Links
  /\ accepted \in [Links -> {"none", "ACCEPTED", "TRANSFERRING", "VALIDATING"}]
  /\ \A l \in Links : accepted[l] = "VALIDATING" => batch[l].step = "validating"
  /\ validating \subseteq Nodes
  /\ sync_links \subseteq Links

\* "An entry goes when its link closes": once a link is closed, its callback
\* has run and nothing is at work on it, nothing of it is left, though the
\* close may come between any two steps of an offer or a transfer
\* (lxmf_propagation.rs:1019-1127, 2095-2101).
NothingLeft ==
  \A l \in Links :
    link[l] = "closed" /\ offer[l] = "none" /\ batch[l].step = "none" =>
      l \notin validated \cup sync_links /\ accepted[l] = "none"

\* A batch is refused for want of a key only if none had been presented on its
\* link when it was advertised, though the sender hangs up as soon as it has
\* the proof (lxmf_propagation.rs:2137-2165, 2340-2358).
KeyedBatchTaken == [][\A l \in Links : Refuse(l) => ~batch[l].presented \/ batch[l].sender = Nobody]_inbound_vars

\* What makes the node too busy for an offer ends, whenever links close,
\* batches fail and messages turn out invalid: no sender is marked as
\* validating, and no link counted as transferring, for good
\* (lxmf_propagation.rs:1060-1185, 2270-2292).
MarksEnd ==
  /\ \A n \in Nodes : []<>(n \notin validating)
  /\ \A l \in Links : []<>(l \notin Transferring)
=============================================================================
