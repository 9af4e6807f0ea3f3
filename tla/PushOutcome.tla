---------------------------- MODULE PushOutcome ----------------------------
(***************************************************************************)
(* One live push (rfed/src/stream_registry.rs, PushOutcome; tied to an     *)
(* rfed.delivery packet by handoff.rs, await_packet_proof): the same       *)
(* payload sent on every matching link, each send with a receipt, and the  *)
(* shared object that turns the receipts' verdicts into one: delivered, or *)
(* handed to the next route.                                               *)
(*                                                                         *)
(* The dispatching thread, and the delivery and the timeout callback of    *)
(* each receipt, run concurrently with no lock: a step is one atomic       *)
(* operation of one of them, and `pc` is where each stands.                *)
(***************************************************************************)
EXTENDS Integers, FiniteSets

CONSTANT Links   \* the links whose sessions match the push

ASSUME LinksAssumption == IsFiniteSet(Links)

VARIABLES
  step,          \* how far the dispatch is with each link
  pc,            \* the next atomic operation of each thread
  receipt,       \* each link's receipt, as Transport keeps it
  concluded,     \* per receipt: not concluded, or which callback was first
  pending,
  any_sent,
  proved,
  handed_off,
  on_proved,     \* times the on_proved hook was started
  on_unproven,   \* times the on_unproven hook was started
  note           \* what a late proof logged

atomics == <<pending, any_sent, proved, handed_off>>
hooks == <<on_proved, on_unproven, note>>
vars == <<step, pc, receipt, concluded, atomics, hooks>>

-----------------------------------------------------------------------------

dispatch == <<"dispatch", "dispatch">>
Delivery(l) == <<"delivery", l>>
Timeout(l) == <<"timeout", l>>
Callbacks == {"delivery", "timeout"} \X Links
Threads == Callbacks \cup {dispatch}

Deciding == {"any sent?", "proved?", "hand off"}
Labels == {"sending", "idle", "prove", "prove late", "note", "note first",
           "conclude", "done"} \cup Deciding

At(t, label) == pc[t] = label
Goto(t, label) == pc' = [pc EXCEPT ![t] = label]

-----------------------------------------------------------------------------
(***************************************************************************)
(* The dispatch, push_on_links: one link after the other, each send and    *)
(* each operation of receipt_pending and tie_receipt a step.               *)
(***************************************************************************)

Sending == {"mark sent", "count", "tie delivery", "tie timeout"}
BetweenLinks == At(dispatch, "sending") /\ \A l \in Links : step[l] \notin Sending

StepOn(l, from, to) ==
  /\ step[l] = from
  /\ step' = [step EXCEPT ![l] = to]
  /\ UNCHANGED <<pc, concluded, hooks>>

\* The receipt is counted before the send, and a failed send leaves it there.
NotSentCounted(l) ==
  /\ BetweenLinks
  /\ StepOn(l, "untried", "not sent")
  /\ pending' = pending + 1
  /\ UNCHANGED <<receipt, any_sent, proved, handed_off>>

\* The link is gone, not active, or cannot carry this packet.
NotSent(l) ==
  /\ BetweenLinks
  /\ StepOn(l, "untried", "not sent")
  /\ UNCHANGED <<receipt, atomics>>

send_with_receipt(l) ==
  /\ BetweenLinks
  /\ StepOn(l, "untried", "mark sent")
  /\ receipt' = [receipt EXCEPT ![l] = "sent"]
  /\ UNCHANGED atomics

receipt_pending_sent(l) ==
  /\ StepOn(l, "mark sent", "count")
  /\ any_sent' = TRUE
  /\ UNCHANGED <<receipt, pending, proved, handed_off>>

\* The receipt is not counted before its callbacks are installed.
receipt_pending_unadded(l) ==
  /\ StepOn(l, "count", "tie delivery")
  /\ UNCHANGED <<receipt, atomics>>

receipt_pending_add(l) ==
  /\ StepOn(l, "count", "tie delivery")
  /\ pending' = pending + 1
  /\ UNCHANGED <<receipt, any_sent, proved, handed_off>>

set_delivery_callback(l) ==
  /\ StepOn(l, "tie delivery", "tie timeout")
  /\ UNCHANGED <<receipt, atomics>>

set_timeout_callback(l) ==
  /\ StepOn(l, "tie timeout", "tied")
  /\ UNCHANGED <<receipt, atomics>>

dispatch_done ==
  /\ At(dispatch, "sending")
  /\ \A l \in Links : step[l] \in {"not sent", "tied"}
  /\ Goto(dispatch, "conclude")
  /\ UNCHANGED <<step, receipt, concluded, atomics, hooks>>

-----------------------------------------------------------------------------
(***************************************************************************)
(* Transport's side of a receipt.  A receipt that failed still takes a     *)
(* late proof; its callbacks run after its status changed, on threads of   *)
(* their own, and a callback installed afterwards runs too.                *)
(***************************************************************************)

ProofArrives(l) ==
  /\ receipt[l] \in {"sent", "failed"}
  /\ receipt' = [receipt EXCEPT ![l] = IF receipt[l] = "sent" THEN "proved" ELSE "late"]
  /\ UNCHANGED <<step, pc, concluded, atomics, hooks>>

TimesOut(l) ==
  /\ receipt[l] = "sent"
  /\ receipt' = [receipt EXCEPT ![l] = "failed"]
  /\ UNCHANGED <<step, pc, concluded, atomics, hooks>>

-----------------------------------------------------------------------------
(***************************************************************************)
(* The callbacks of tie_receipt.  The first of the two to run swaps        *)
(* `concluded` and counts for the receipt.                                 *)
(***************************************************************************)

delivery_callback(l) ==
  /\ At(Delivery(l), "idle")
  /\ receipt[l] \in {"proved", "late"}
  /\ step[l] \in {"tie timeout", "tied"}
  /\ \/ /\ concluded[l] = "no"
        /\ concluded' = [concluded EXCEPT ![l] = "proof"]
        /\ Goto(Delivery(l), "prove")
     \/ /\ concluded[l] # "no"
        /\ Goto(Delivery(l), "prove late")
        /\ UNCHANGED concluded
  /\ UNCHANGED <<step, receipt, atomics, hooks>>

timeout_callback(l) ==
  /\ At(Timeout(l), "idle")
  /\ receipt[l] \in {"failed", "late"}
  /\ step[l] = "tied"
  /\ \/ /\ concluded[l] = "no"
        /\ concluded' = [concluded EXCEPT ![l] = "timeout"]
        /\ Goto(Timeout(l), "conclude")
     \/ /\ concluded[l] # "no"
        /\ Goto(Timeout(l), "done")
        /\ UNCHANGED concluded
  /\ UNCHANGED <<step, receipt, atomics, hooks>>

\* The push is counted as concluded before the proof is recorded.
proved_after_conclude(l) ==
  /\ At(Delivery(l), "prove")
  /\ pending' = pending - 1
  /\ Goto(Delivery(l), IF pending = 1 THEN "any sent?" ELSE "prove late")
  /\ UNCHANGED <<step, receipt, concluded, any_sent, proved, handed_off, hooks>>

\* `proved`: the swap, and the hook's thread if this was the first proof.
proved_on_time(l) ==
  /\ At(Delivery(l), "prove")
  /\ proved' = TRUE
  /\ on_proved' = IF proved THEN on_proved ELSE on_proved + 1
  /\ Goto(Delivery(l), "conclude")
  /\ UNCHANGED <<step, receipt, concluded, pending, any_sent, handed_off, on_unproven, note>>

\* A late proof starts the hook whether or not it was the first.
proved_late_always(l) ==
  /\ At(Delivery(l), "prove late")
  /\ proved' = TRUE
  /\ Goto(Delivery(l), "note first")
  /\ UNCHANGED <<step, receipt, concluded, pending, any_sent, handed_off, hooks>>

proved_late(l) ==
  /\ At(Delivery(l), "prove late")
  /\ proved' = TRUE
  /\ Goto(Delivery(l), IF proved THEN "note" ELSE "note first")
  /\ UNCHANGED <<step, receipt, concluded, pending, any_sent, handed_off, hooks>>

proved_late_note(l) ==
  /\ pc[Delivery(l)] \in {"note", "note first"}
  /\ on_proved' = IF At(Delivery(l), "note first") THEN on_proved + 1 ELSE on_proved
  /\ note' = [note EXCEPT ![l] = IF handed_off THEN "after its hand-off" ELSE "before its hand-off"]
  /\ Goto(Delivery(l), "done")
  /\ UNCHANGED <<step, receipt, concluded, atomics, on_unproven>>

-----------------------------------------------------------------------------
(***************************************************************************)
(* conclude_one, on whichever thread: the decrement, and on the thread     *)
(* that brought `pending` to zero the two loads and the hand-off.          *)
(***************************************************************************)

conclude_one(t) ==
  /\ At(t, "conclude")
  /\ pending' = pending - 1
  /\ Goto(t, IF pending = 1 THEN "any sent?" ELSE "done")
  /\ UNCHANGED <<step, receipt, concluded, any_sent, proved, handed_off, hooks>>

load_any_sent(t) ==
  /\ At(t, "any sent?")
  /\ Goto(t, IF any_sent THEN "proved?" ELSE "done")
  /\ UNCHANGED <<step, receipt, concluded, atomics, hooks>>

load_proved(t) ==
  /\ At(t, "proved?")
  /\ Goto(t, IF proved THEN "done" ELSE "hand off")
  /\ UNCHANGED <<step, receipt, concluded, atomics, hooks>>

hand_off(t) ==
  /\ At(t, "hand off")
  /\ handed_off' = TRUE
  /\ on_unproven' = on_unproven + 1
  /\ Goto(t, "done")
  /\ UNCHANGED <<step, receipt, concluded, pending, any_sent, proved, on_proved, note>>

-----------------------------------------------------------------------------

\* The dispatch holds no count of its own.
NoDispatchHold == 0

\* The count the dispatch holds until it has tried every link.
DispatchHold == 1

Init ==
  /\ step = [l \in Links |-> "untried"]
  /\ pc = [t \in Threads |-> IF t = dispatch THEN "sending" ELSE "idle"]
  /\ receipt = [l \in Links |-> "none"]
  /\ concluded = [l \in Links |-> "no"]
  /\ pending = DispatchHold
  /\ any_sent = FALSE
  /\ proved = FALSE
  /\ handed_off = FALSE
  /\ on_proved = 0
  /\ on_unproven = 0
  /\ note = [l \in Links |-> "none"]

Dispatch(l) ==
  \/ NotSent(l)
  \/ send_with_receipt(l)
  \/ receipt_pending_sent(l)
  \/ receipt_pending_add(l)
  \/ set_delivery_callback(l)
  \/ set_timeout_callback(l)

Callback(l) ==
  \/ delivery_callback(l)
  \/ timeout_callback(l)
  \/ proved_on_time(l)
  \/ proved_late(l)
  \/ proved_late_note(l)

Conclude(t) ==
  \/ conclude_one(t)
  \/ load_any_sent(t)
  \/ load_proved(t)
  \/ hand_off(t)

Next ==
  \/ \E l \in Links : Dispatch(l) \/ Callback(l) \/ ProofArrives(l) \/ TimesOut(l)
  \/ dispatch_done
  \/ \E t \in Threads : Conclude(t)

Spec == Init /\ [][Next]_vars

\* Every thread runs on until it is done, and Transport's job loop times out
\* the receipts no proof concludes.  No proof need ever arrive.
Fairness ==
  /\ WF_vars(dispatch_done)
  /\ \A l \in Links : WF_vars(Dispatch(l)) /\ WF_vars(Callback(l)) /\ WF_vars(TimesOut(l))
  /\ \A t \in Threads : WF_vars(Conclude(t))

FairSpec == Spec /\ Fairness

-----------------------------------------------------------------------------

\* Every variable keeps its type; in particular fetch_sub never wraps the
\* unsigned `pending` below zero.
TypeOK ==
  /\ step \in [Links -> {"untried", "not sent", "tied"} \cup Sending]
  /\ pc \in [Threads -> Labels]
  /\ receipt \in [Links -> {"none", "sent", "proved", "failed", "late"}]
  /\ concluded \in [Links -> {"no", "proof", "timeout"}]
  /\ pending \in Nat
  /\ any_sent \in BOOLEAN /\ proved \in BOOLEAN /\ handed_off \in BOOLEAN
  /\ on_proved \in Nat
  /\ on_unproven \in Nat
  /\ note \in [Links -> {"none", "before its hand-off", "after its hand-off"}]

Decrementing == {"prove", "conclude"}

\* Link l's receipt is counted in `pending`: added, and neither of its
\* callbacks has concluded it to the end.
Counted(l) ==
  /\ step[l] \in {"tie delivery", "tie timeout", "tied"}
  /\ \/ concluded[l] = "no"
     \/ pc[Delivery(l)] \in Decrementing
     \/ pc[Timeout(l)] \in Decrementing

Holders == {l \in Links : Counted(l)}
DispatchHolds == pc[dispatch] \in {"sending", "conclude"}

\* What the field promises: `pending` is the receipts not yet concluded, plus
\* the one the dispatch holds until it has tried every link.
PendingIsExact ==
  pending = Cardinality(Holders) + (IF DispatchHolds THEN 1 ELSE 0)

\* A push goes to its next route at most once, and only as a push: when no
\* link took it the caller has already fallen through itself, and a second
\* route here would deliver it twice.
OneNextRoute ==
  /\ on_unproven <= 1
  /\ on_unproven = 1 => \E l \in Links : receipt[l] # "none"

\* A push is handed on only when it failed everywhere: every link was tried
\* and every receipt timed out, so that no device proved it on time.
HandedOffOnlyUnproven ==
  handed_off =>
    \A l \in Links : step[l] = "not sent" \/ concluded[l] = "timeout"

\* The first proof, on time or late, runs on_proved once: never twice, and by
\* the time its callback is done it has been started.
ProvedHookOnce ==
  /\ on_proved <= 1
  /\ (\E l \in Links : At(Delivery(l), "done")) /\ on_proved = 0
        => \E l \in Links : At(Delivery(l), "note first")

\* A push that went out on any link comes to a verdict.
Decided == any_sent ~> (on_proved = 1 \/ on_unproven = 1)
=============================================================================
