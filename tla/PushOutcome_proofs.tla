------------------------- MODULE PushOutcome_proofs -------------------------
(***************************************************************************)
(* For any finite number of links, the verdict of a push is one: the count *)
(* of open receipts is exact, so one thread brings it to zero, and that    *)
(* thread hands the push on at most once and only if every receipt timed   *)
(* out.                                                                    *)
(*                                                                         *)
(* The invariant has three layers.  ControlInv says where the threads of   *)
(* one link can stand together.  CountInv is PendingIsExact and what it    *)
(* gives: once the count is zero nothing can be counted again, so at most  *)
(* one thread ever decides.  HookInv follows the first proof and the       *)
(* hand-off.                                                               *)
(***************************************************************************)
EXTENDS PushOutcome, FiniteSetTheorems, TLAPS

-----------------------------------------------------------------------------
(***************************************************************************)
(* The threads.                                                            *)
(***************************************************************************)

\* The dispatch and the two callbacks of each link are different threads, and
\* there are no others.
LEMMA ThreadNames ==
  /\ dispatch \in Threads
  /\ \A l \in Links : Delivery(l) \in Threads /\ Timeout(l) \in Threads
  /\ \A l \in Links : Delivery(l) # dispatch /\ Timeout(l) # dispatch
  /\ \A l, m \in Links : Delivery(l) # Timeout(m)
  /\ \A l, m \in Links : Delivery(l) = Delivery(m) => l = m
  /\ \A l, m \in Links : Timeout(l) = Timeout(m) => l = m
  /\ \A t \in Threads :
       t = dispatch \/ \E l \in Links : t = Delivery(l) \/ t = Timeout(l)
<1>1. /\ dispatch \in Threads
      /\ \A l \in Links : Delivery(l) \in Threads /\ Timeout(l) \in Threads
  BY DEF Threads, Callbacks, Delivery, Timeout
<1>2. \A l, m \in Links : /\ Delivery(l) # dispatch /\ Timeout(l) # dispatch
                          /\ Delivery(l) # Timeout(m)
                          /\ Delivery(l) = Delivery(m) => l = m
                          /\ Timeout(l) = Timeout(m) => l = m
  BY DEF Delivery, Timeout, dispatch
<1>3. ASSUME NEW t \in Threads
      PROVE  t = dispatch \/ \E l \in Links : t = Delivery(l) \/ t = Timeout(l)
  BY DEF Threads, Callbacks, Delivery, Timeout
<1> QED BY <1>1, <1>2, <1>3

\* What moving one thread does to the labels.
LEMMA Moved ==
  ASSUME pc \in [Threads -> Labels], NEW t \in Threads, NEW label \in Labels, Goto(t, label)
  PROVE  /\ pc' \in [Threads -> Labels]
         /\ pc'[t] = label
         /\ \A u \in Threads : u # t => pc'[u] = pc[u]
BY DEF Goto

-----------------------------------------------------------------------------
(***************************************************************************)
(* Where the threads of one link stand.                                    *)
(***************************************************************************)

\* TypeOK without the bound that `pending` owes to PendingIsExact.
LabelsOK ==
  /\ step \in [Links -> {"untried", "not sent", "tied"} \cup Sending]
  /\ pc \in [Threads -> Labels]
  /\ receipt \in [Links -> {"none", "sent", "proved", "failed", "late"}]
  /\ concluded \in [Links -> {"no", "proof", "timeout"}]
  /\ pending \in Int
  /\ any_sent \in BOOLEAN /\ proved \in BOOLEAN /\ handed_off \in BOOLEAN
  /\ on_proved \in Nat
  /\ on_unproven \in Nat
  /\ note \in [Links -> {"none", "before its hand-off", "after its hand-off"}]

\* Past the last thing a thread does besides concluding.
Ending == {"conclude", "done"} \cup Deciding

LinkInv(l) ==
  /\ receipt[l] = "none" <=> step[l] \in {"untried", "not sent"}
  /\ pc[Delivery(l)] # "idle" => concluded[l] # "no" /\ step[l] \in {"tie timeout", "tied"}
  /\ pc[Timeout(l)] # "idle" => concluded[l] # "no" /\ step[l] = "tied"
  /\ concluded[l] = "proof" =>
       /\ pc[Delivery(l)] \in {"prove"} \cup Ending
       /\ pc[Timeout(l)] \in {"idle", "done"}
       /\ pc[Delivery(l)] # "prove" => proved
  /\ concluded[l] = "timeout" =>
       /\ pc[Timeout(l)] \in Ending
       /\ pc[Delivery(l)] \in {"idle", "prove late", "note", "note first", "done"}
  /\ pc[Delivery(l)] \in {"note", "note first", "done"} => proved

DispatchInv ==
  /\ pc[dispatch] \in {"sending"} \cup Ending
  /\ pc[dispatch] # "sending" => \A l \in Links : step[l] \in {"not sent", "tied"}
  /\ any_sent => \E l \in Links : receipt[l] # "none"

ControlInv == LabelsOK /\ DispatchInv /\ \A l \in Links : LinkInv(l)

LEMMA InitControl == Init => ControlInv
<1> SUFFICES ASSUME Init PROVE ControlInv
  OBVIOUS
<1>1. LabelsOK
  <2>1. step \in [Links -> {"untried", "not sent", "tied"} \cup Sending]
    BY DEF Init
  <2>2. pc \in [Threads -> Labels]
    BY DEF Init, Labels
  <2>3. receipt \in [Links -> {"none", "sent", "proved", "failed", "late"}]
    BY DEF Init
  <2>4. concluded \in [Links -> {"no", "proof", "timeout"}]
    BY DEF Init
  <2>5. note \in [Links -> {"none", "before its hand-off", "after its hand-off"}]
    BY DEF Init
  <2>6. any_sent \in BOOLEAN /\ proved \in BOOLEAN /\ handed_off \in BOOLEAN
    BY Zenon DEF Init
  <2>7. pending \in Int /\ on_proved \in Nat /\ on_unproven \in Nat
    BY DEF Init, DispatchHold
  <2> QED BY <2>1, <2>2, <2>3, <2>4, <2>5, <2>6, <2>7, Zenon DEF LabelsOK
<1>2. DispatchInv
  BY ThreadNames DEF Init, DispatchInv
<1>3. ASSUME NEW l \in Links PROVE LinkInv(l)
  <2>1. pc[Delivery(l)] = "idle" /\ pc[Timeout(l)] = "idle"
    BY ThreadNames DEF Init
  <2>2. step[l] = "untried" /\ receipt[l] = "none" /\ concluded[l] = "no"
    BY DEF Init
  <2> QED BY <2>1, <2>2 DEF LinkInv
<1> QED BY <1>1, <1>2, <1>3 DEF ControlInv

LEMMA LabelsStep == LabelsOK /\ Next => LabelsOK'
<1> SUFFICES ASSUME LabelsOK, Next PROVE LabelsOK'
  OBVIOUS
<1> DEFINE Bools == any_sent \in BOOLEAN /\ proved \in BOOLEAN /\ handed_off \in BOOLEAN
           Labelled == /\ step \in [Links -> {"untried", "not sent", "tied"} \cup Sending]
                       /\ pc \in [Threads -> Labels]
                       /\ receipt \in [Links -> {"none", "sent", "proved", "failed", "late"}]
                       /\ concluded \in [Links -> {"no", "proof", "timeout"}]
           Counted1 == pending \in Int /\ on_proved \in Nat /\ on_unproven \in Nat
           Noted == note \in [Links -> {"none", "before its hand-off", "after its hand-off"}]
<1>0. Bools /\ Labelled /\ Counted1 /\ Noted
  BY DEF LabelsOK
<1>1. Bools'
  <2>1. CASE UNCHANGED <<any_sent, proved, handed_off>>
    BY <1>0, <2>1, Zenon
  <2>2. CASE \E l \in Links : receipt_pending_sent(l)
    BY <1>0, <2>2, Zenon DEF receipt_pending_sent
  <2>3. CASE \E l \in Links : proved_on_time(l) \/ proved_late(l)
    BY <1>0, <2>3, Zenon DEF proved_on_time, proved_late
  <2>4. CASE \E t \in Threads : hand_off(t)
    BY <1>0, <2>4, Zenon DEF hand_off
  <2> QED
    BY <2>1, <2>2, <2>3, <2>4
    DEF Next, Dispatch, Callback, Conclude, atomics, hooks, NotSent, send_with_receipt,
        receipt_pending_add, set_delivery_callback, set_timeout_callback, dispatch_done,
        ProofArrives, TimesOut, delivery_callback, timeout_callback, proved_late_note,
        conclude_one, load_any_sent, load_proved
<1>2. Counted1'
  <2>1. /\ pending' = pending \/ pending' = pending + 1 \/ pending' = pending - 1
        /\ on_proved' = on_proved \/ on_proved' = on_proved + 1
        /\ on_unproven' = on_unproven \/ on_unproven' = on_unproven + 1
    BY Zenon
    DEF Next, Dispatch, Callback, Conclude, atomics, hooks, NotSent, send_with_receipt, StepOn,
        receipt_pending_sent, receipt_pending_add, set_delivery_callback, set_timeout_callback,
        dispatch_done, ProofArrives, TimesOut, delivery_callback, timeout_callback,
        proved_on_time, proved_late, proved_late_note, conclude_one, load_any_sent,
        load_proved, hand_off
  <2>2. pending \in Int /\ on_proved \in Nat /\ on_unproven \in Nat
    BY <1>0
  <2> QED BY <2>1, <2>2
<1>3. Noted'
  <2>1. CASE note' = note
    BY <1>0, <2>1
  <2>2. CASE \E l \in Links : proved_late_note(l)
    BY <1>0, <2>2 DEF proved_late_note
  <2> QED
    BY <2>1, <2>2
    DEF Next, Dispatch, Callback, Conclude, atomics, hooks, NotSent, send_with_receipt, StepOn,
        receipt_pending_sent, receipt_pending_add, set_delivery_callback, set_timeout_callback,
        dispatch_done, ProofArrives, TimesOut, delivery_callback, timeout_callback,
        proved_on_time, proved_late, conclude_one, load_any_sent, load_proved, hand_off
<1> HIDE DEF Bools, Counted1, Noted
<1>4. Labelled'
  <2>1. ASSUME NEW l \in Links, Dispatch(l) PROVE Labelled'
    BY <1>0, <2>1 DEF Dispatch, NotSent, send_with_receipt, receipt_pending_sent,
       receipt_pending_add, set_delivery_callback, set_timeout_callback, StepOn, Sending
  <2>2. ASSUME NEW l \in Links, Callback(l) PROVE Labelled'
    <3>1. pc' \in [Threads -> Labels]
      BY <1>0, <2>2, Moved, ThreadNames
      DEF Callback, delivery_callback, timeout_callback, proved_on_time, proved_late,
          proved_late_note, Labels
    <3>2. UNCHANGED <<step, receipt>> /\ concluded' \in [Links -> {"no", "proof", "timeout"}]
      BY <1>0, <2>2
      DEF Callback, delivery_callback, timeout_callback, proved_on_time, proved_late,
          proved_late_note
    <3> QED BY <1>0, <3>1, <3>2
  <2>3. ASSUME NEW l \in Links, ProofArrives(l) \/ TimesOut(l) PROVE Labelled'
    BY <1>0, <2>3 DEF ProofArrives, TimesOut
  <2>4. ASSUME NEW t \in Threads, dispatch_done \/ Conclude(t) PROVE Labelled'
    <3>1. pc' \in [Threads -> Labels]
      BY <1>0, <2>4, Moved, ThreadNames
      DEF dispatch_done, Conclude, conclude_one, load_any_sent, load_proved, hand_off,
          Labels, Deciding
    <3>2. UNCHANGED <<step, receipt, concluded>>
      BY <2>4 DEF dispatch_done, Conclude, conclude_one, load_any_sent, load_proved, hand_off
    <3> QED BY <1>0, <3>1, <3>2
  <2> QED BY ThreadNames, <2>1, <2>2, <2>3, <2>4 DEF Next
<1> QED BY <1>1, <1>2, <1>3, <1>4, Zenon DEF LabelsOK, Bools, Counted1, Noted

\* A step that leaves a link's threads and receipt alone keeps its invariant.
LEMMA LinkFrame ==
  ASSUME NEW l \in Links, LinkInv(l), proved => proved',
         step'[l] = step[l], receipt'[l] = receipt[l], concluded'[l] = concluded[l],
         pc'[Delivery(l)] = pc[Delivery(l)], pc'[Timeout(l)] = pc[Timeout(l)]
  PROVE  LinkInv(l)'
BY DEF LinkInv

LEMMA LinkStep ==
  ASSUME LabelsOK, DispatchInv, NEW l \in Links, LinkInv(l), Next
  PROVE  LinkInv(l)'
<1> USE DEF LabelsOK, atomics, hooks
<1>0. /\ step \in [Links -> {"untried", "not sent", "tied"} \cup Sending]
      /\ pc \in [Threads -> Labels]
      /\ receipt \in [Links -> {"none", "sent", "proved", "failed", "late"}]
      /\ concluded \in [Links -> {"no", "proof", "timeout"}]
      /\ Delivery(l) \in Threads /\ Timeout(l) \in Threads
      /\ Delivery(l) # Timeout(l) /\ Delivery(l) # dispatch /\ Timeout(l) # dispatch
  BY ThreadNames
<1> HIDE DEF LabelsOK
<1>1. ASSUME NEW m \in Links, Dispatch(m) PROVE LinkInv(l)'
  <2>1. UNCHANGED <<pc, concluded, proved>>
    BY <1>1 DEF Dispatch, NotSent, send_with_receipt, receipt_pending_sent,
       receipt_pending_add, set_delivery_callback, set_timeout_callback, StepOn
  <2>2. CASE m # l
    <3>1. step'[l] = step[l] /\ receipt'[l] = receipt[l]
      BY <1>0, <1>1, <2>2 DEF Dispatch, NotSent, send_with_receipt, receipt_pending_sent,
         receipt_pending_add, set_delivery_callback, set_timeout_callback, StepOn
    <3> QED BY <2>1, <3>1, LinkFrame
  <2>3. CASE NotSent(l)
    <3>1. step[l] = "untried" /\ step'[l] = "not sent" /\ receipt'[l] = receipt[l]
      BY <1>0, <2>3 DEF NotSent, StepOn
    <3> QED BY <2>1, <3>1 DEF LinkInv
  <2>4. CASE send_with_receipt(l)
    <3>1. step[l] = "untried" /\ step'[l] = "mark sent" /\ receipt'[l] = "sent"
      BY <1>0, <2>4 DEF send_with_receipt, StepOn
    <3> QED BY <2>1, <3>1 DEF LinkInv
  <2>5. CASE receipt_pending_sent(l) \/ receipt_pending_add(l)
    <3>1. /\ step[l] \in {"mark sent", "count"} /\ step'[l] \in {"count", "tie delivery"}
          /\ receipt'[l] = receipt[l]
      BY <1>0, <2>5 DEF receipt_pending_sent, receipt_pending_add, StepOn
    <3> QED BY <2>1, <3>1 DEF LinkInv
  <2>6. CASE set_delivery_callback(l)
    <3>1. step[l] = "tie delivery" /\ step'[l] = "tie timeout" /\ receipt'[l] = receipt[l]
      BY <1>0, <2>6 DEF set_delivery_callback, StepOn
    <3> QED BY <2>1, <3>1 DEF LinkInv
  <2>7. CASE set_timeout_callback(l)
    <3>1. step[l] = "tie timeout" /\ step'[l] = "tied" /\ receipt'[l] = receipt[l]
      BY <1>0, <2>7 DEF set_timeout_callback, StepOn
    <3> QED BY <2>1, <3>1 DEF LinkInv
  <2> QED BY <1>1, <2>2, <2>3, <2>4, <2>5, <2>6, <2>7 DEF Dispatch
<1>2. ASSUME NEW m \in Links, ProofArrives(m) \/ TimesOut(m) PROVE LinkInv(l)'
  <2>1. UNCHANGED <<step, pc, concluded, proved>>
    BY <1>2 DEF ProofArrives, TimesOut
  <2>2. receipt'[l] = "none" <=> receipt[l] = "none"
    BY <1>0, <1>2 DEF ProofArrives, TimesOut
  <2> QED BY <2>1, <2>2 DEF LinkInv
<1>3. ASSUME NEW m \in Links, Callback(m) PROVE LinkInv(l)'
  <2>0. UNCHANGED <<step, receipt>> /\ (proved => proved')
    <3>1. UNCHANGED <<step, receipt>>
      BY <1>3 DEF Callback, delivery_callback, timeout_callback, proved_on_time, proved_late,
         proved_late_note
    <3>2. proved => proved'
      BY <1>3, Zenon DEF Callback, delivery_callback, timeout_callback, proved_on_time,
         proved_late, proved_late_note
    <3> QED BY <3>1, <3>2
  <2>1. CASE m # l
    <3>1. concluded'[l] = concluded[l]
      BY <1>0, <1>3, <2>1 DEF Callback, delivery_callback, timeout_callback, proved_on_time,
         proved_late, proved_late_note
    <3>2. pc'[Delivery(l)] = pc[Delivery(l)] /\ pc'[Timeout(l)] = pc[Timeout(l)]
      <4>1. /\ Delivery(m) \in Threads /\ Timeout(m) \in Threads
            /\ Delivery(m) # Delivery(l) /\ Delivery(m) # Timeout(l)
            /\ Timeout(m) # Delivery(l) /\ Timeout(m) # Timeout(l)
        BY <2>1, ThreadNames
      <4> QED
        BY <1>0, <1>3, <4>1 DEF Callback, delivery_callback, timeout_callback, proved_on_time,
           proved_late, proved_late_note, Goto
    <3> QED BY <2>0, <3>1, <3>2, LinkFrame
  <2>2. CASE delivery_callback(l)
    <3>1. /\ pc[Delivery(l)] = "idle" /\ step[l] \in {"tie timeout", "tied"}
          /\ pc'[Timeout(l)] = pc[Timeout(l)] /\ proved' = proved
          /\ \/ /\ concluded[l] = "no" /\ concluded'[l] = "proof"
                /\ pc'[Delivery(l)] = "prove"
             \/ /\ concluded[l] # "no" /\ concluded'[l] = concluded[l]
                /\ pc'[Delivery(l)] = "prove late"
      BY <1>0, <2>2 DEF delivery_callback, Goto, At
    <3> QED BY <1>0, <2>0, <3>1 DEF LinkInv, Ending, Deciding
  <2>3. CASE timeout_callback(l)
    <3>1. /\ pc[Timeout(l)] = "idle" /\ step[l] = "tied"
          /\ pc'[Delivery(l)] = pc[Delivery(l)] /\ proved' = proved
          /\ \/ /\ concluded[l] = "no" /\ concluded'[l] = "timeout"
                /\ pc'[Timeout(l)] = "conclude"
             \/ /\ concluded[l] # "no" /\ concluded'[l] = concluded[l]
                /\ pc'[Timeout(l)] = "done"
      BY <1>0, <2>3 DEF timeout_callback, Goto, At
    <3> QED BY <1>0, <2>0, <3>1 DEF LinkInv, Ending, Deciding
  <2>4. CASE proved_on_time(l)
    <3>1. /\ pc[Delivery(l)] = "prove" /\ pc'[Delivery(l)] = "conclude" /\ proved'
          /\ pc'[Timeout(l)] = pc[Timeout(l)] /\ concluded'[l] = concluded[l]
      BY <1>0, <2>4 DEF proved_on_time, Goto, At
    <3> QED BY <1>0, <2>0, <3>1 DEF LinkInv, Ending, Deciding
  <2>5. CASE proved_late(l)
    <3>1. /\ pc[Delivery(l)] = "prove late" /\ pc'[Delivery(l)] \in {"note", "note first"} /\ proved'
          /\ pc'[Timeout(l)] = pc[Timeout(l)] /\ concluded'[l] = concluded[l]
      BY <1>0, <2>5 DEF proved_late, Goto, At
    <3> QED BY <1>0, <2>0, <3>1 DEF LinkInv, Ending, Deciding
  <2>6. CASE proved_late_note(l)
    <3>1. /\ pc[Delivery(l)] \in {"note", "note first"} /\ pc'[Delivery(l)] = "done"
          /\ proved' = proved
          /\ pc'[Timeout(l)] = pc[Timeout(l)] /\ concluded'[l] = concluded[l]
      BY <1>0, <2>6 DEF proved_late_note, Goto, At, atomics
    <3> QED BY <1>0, <2>0, <3>1 DEF LinkInv, Ending, Deciding
  <2> QED BY <1>3, <2>1, <2>2, <2>3, <2>4, <2>5, <2>6 DEF Callback
<1>4. ASSUME NEW t \in Threads, (t = dispatch /\ dispatch_done) \/ Conclude(t)
      PROVE  LinkInv(l)'
  <2>1. UNCHANGED <<step, receipt, concluded, proved>>
    BY <1>4 DEF dispatch_done, Conclude, conclude_one, load_any_sent, load_proved, hand_off
  <2>2. /\ \A u \in Threads : u # t => pc'[u] = pc[u]
        /\ t = dispatch \/ (pc[t] \in Ending \ {"done"} /\ pc'[t] \in Ending)
    BY <1>0, <1>4 DEF dispatch_done, Conclude, conclude_one, load_any_sent, load_proved,
       hand_off, Goto, At, Ending, Deciding
  <2>3. CASE t # Delivery(l) /\ t # Timeout(l)
    BY <1>0, <2>1, <2>2, <2>3, LinkFrame
  <2>4. CASE t = Delivery(l)
    <3>1. pc[t] \in Ending \ {"done"} /\ pc'[t] \in Ending /\ pc'[Timeout(l)] = pc[Timeout(l)]
      BY <1>0, <2>2, <2>4
    <3> QED BY <1>0, <2>1, <2>4, <3>1 DEF LinkInv, Ending, Deciding
  <2>5. CASE t = Timeout(l)
    <3>1. pc[t] \in Ending \ {"done"} /\ pc'[t] \in Ending /\ pc'[Delivery(l)] = pc[Delivery(l)]
      BY <1>0, <2>2, <2>5
    <3> QED BY <1>0, <2>1, <2>5, <3>1 DEF LinkInv, Ending, Deciding
  <2> QED BY <2>3, <2>4, <2>5
<1> QED BY ThreadNames, <1>1, <1>2, <1>3, <1>4 DEF Next

LEMMA DispatchStep ==
  ASSUME LabelsOK, DispatchInv, \A l \in Links : LinkInv(l), Next
  PROVE  DispatchInv'
<1> USE DEF atomics, hooks
<1>0. /\ step \in [Links -> {"untried", "not sent", "tied"} \cup Sending]
      /\ pc \in [Threads -> Labels]
      /\ receipt \in [Links -> {"none", "sent", "proved", "failed", "late"}]
      /\ dispatch \in Threads
  BY ThreadNames DEF LabelsOK
<1>1. ASSUME NEW l \in Links, Dispatch(l) PROVE DispatchInv'
  <2>1. pc' = pc /\ pc[dispatch] = "sending"
    <3>1. step[l] \notin {"not sent", "tied"}
      BY <1>1 DEF Dispatch, NotSent, send_with_receipt, receipt_pending_sent,
         receipt_pending_add, set_delivery_callback, set_timeout_callback, StepOn
    <3> QED
      BY <1>1, <3>1 DEF Dispatch, NotSent, send_with_receipt, receipt_pending_sent,
         receipt_pending_add, set_delivery_callback, set_timeout_callback, StepOn, DispatchInv
  <2>2. ASSUME NEW m \in Links, receipt[m] # "none" PROVE receipt'[m] # "none"
    BY <1>0, <1>1, <2>2 DEF Dispatch, NotSent, send_with_receipt, receipt_pending_sent,
       receipt_pending_add, set_delivery_callback, set_timeout_callback, StepOn
  <2>3. any_sent' => any_sent \/ receipt[l] # "none"
    BY <1>1 DEF Dispatch, NotSent, send_with_receipt, receipt_pending_sent,
       receipt_pending_add, set_delivery_callback, set_timeout_callback, StepOn, LinkInv
  <2> QED BY <2>1, <2>2, <2>3 DEF DispatchInv
<1>2. ASSUME NEW l \in Links, ProofArrives(l) \/ TimesOut(l) PROVE DispatchInv'
  <2>1. UNCHANGED <<step, pc, any_sent>>
    BY <1>2 DEF ProofArrives, TimesOut
  <2>2. ASSUME NEW m \in Links, receipt[m] # "none" PROVE receipt'[m] # "none"
    BY <1>0, <1>2, <2>2 DEF ProofArrives, TimesOut
  <2> QED BY <2>1, <2>2 DEF DispatchInv
<1>3. ASSUME NEW l \in Links, Callback(l) PROVE DispatchInv'
  <2>1. UNCHANGED <<step, receipt, any_sent>>
    BY <1>3 DEF Callback, delivery_callback, timeout_callback, proved_on_time, proved_late,
       proved_late_note
  <2>2. pc'[dispatch] = pc[dispatch]
    <3>1. Delivery(l) # dispatch /\ Timeout(l) # dispatch
      BY ThreadNames
    <3> QED
      BY <1>0, <1>3, <3>1 DEF Callback, delivery_callback, timeout_callback, proved_on_time,
         proved_late, proved_late_note, Goto
  <2> QED BY <2>1, <2>2 DEF DispatchInv
<1>4. ASSUME dispatch_done PROVE DispatchInv'
  <2>1. /\ pc'[dispatch] = "conclude" /\ UNCHANGED <<step, receipt, any_sent>>
        /\ \A l \in Links : step[l] \in {"not sent", "tied"}
    BY <1>0, <1>4 DEF dispatch_done, Goto
  <2> QED BY <2>1 DEF DispatchInv, Ending
<1>5. ASSUME NEW t \in Threads, Conclude(t) PROVE DispatchInv'
  <2>1. UNCHANGED <<step, receipt, any_sent>>
    BY <1>5 DEF Conclude, conclude_one, load_any_sent, load_proved, hand_off
  <2>2. \/ pc'[dispatch] = pc[dispatch]
        \/ pc[dispatch] \in Ending /\ pc'[dispatch] \in Ending
    BY <1>0, <1>5 DEF Conclude, conclude_one, load_any_sent, load_proved, hand_off,
       Goto, At, Ending, Deciding
  <2> QED BY <2>1, <2>2 DEF DispatchInv, Ending, Deciding
<1> QED BY <1>1, <1>2, <1>3, <1>4, <1>5 DEF Next

LEMMA ControlStep == ControlInv /\ [Next]_vars => ControlInv'
<1>1. CASE Next
  BY <1>1, LabelsStep, LinkStep, DispatchStep DEF ControlInv
<1>2. CASE UNCHANGED vars
  BY <1>2 DEF vars, atomics, hooks, ControlInv, LabelsOK, DispatchInv, LinkInv
<1> QED BY <1>1, <1>2

THEOREM Control == Spec => []ControlInv
<1>1. Init => ControlInv
  BY InitControl
<1>2. ControlInv /\ [Next]_vars => ControlInv'
  BY ControlStep
<1> QED BY <1>1, <1>2, PTL DEF Spec

-----------------------------------------------------------------------------
(***************************************************************************)
(* The count.  Every step but two leaves the holders alone: adding a       *)
(* receipt adds one, concluding takes one away, the dispatch's own         *)
(* included.                                                               *)
(***************************************************************************)

LEMMA FiniteHolders ==
  /\ IsFiniteSet(Holders)
  /\ Cardinality(Holders) \in Nat
  /\ Cardinality(Holders) = 0 <=> Holders = {}
BY LinksAssumption, FS_Subset, FS_CardinalityType, FS_EmptySet DEF Holders

\* While a thread is about to conclude, the count is not zero.
LEMMA ConcluderHolds ==
  ASSUME ControlInv, NEW t \in Threads, At(t, "conclude")
  PROVE  \/ t = dispatch /\ DispatchHolds
         \/ \E l \in Links : Counted(l) /\ (t = Delivery(l) \/ t = Timeout(l))
<1>1. CASE t = dispatch
  BY <1>1 DEF DispatchHolds, At
<1>2. ASSUME NEW l \in Links, t = Delivery(l) \/ t = Timeout(l) PROVE Counted(l)
  BY <1>2 DEF ControlInv, LinkInv, Counted, At, Decrementing
<1> QED BY <1>1, <1>2, ThreadNames

\* Once the count is zero every link has been tried, nobody will count again
\* and nobody will conclude again.
LEMMA ZeroIsFinal ==
  ASSUME ControlInv, PendingIsExact, pending = 0
  PROVE  /\ pc[dispatch] \notin {"sending", "conclude"}
         /\ \A l \in Links : ~ Counted(l) /\ step[l] \in {"not sent", "tied"}
         /\ \A t \in Threads : ~ At(t, "conclude")
<1>1. Holders = {} /\ ~ DispatchHolds
  BY FiniteHolders DEF PendingIsExact
<1>2. \A l \in Links : ~ Counted(l)
  BY <1>1 DEF Holders
<1>3. \A l \in Links : step[l] \in {"not sent", "tied"}
  BY <1>1 DEF DispatchHolds, ControlInv, DispatchInv
<1> QED BY <1>1, <1>2, <1>3, ConcluderHolds DEF DispatchHolds

LEMMA InitCount == Init => PendingIsExact
<1> SUFFICES ASSUME Init PROVE PendingIsExact
  OBVIOUS
<1>1. Holders = {}
  BY DEF Init, Holders, Counted
<1>2. DispatchHolds /\ pending = 1
  BY ThreadNames DEF Init, DispatchHolds, DispatchHold
<1> QED BY <1>1, <1>2, FS_EmptySet DEF PendingIsExact

\* What a step does to who holds a count.
LEMMA HoldersStep ==
  ASSUME ControlInv, Next
  PROVE  \/ /\ pending' = pending /\ Holders' = Holders
            /\ DispatchHolds' <=> DispatchHolds
         \/ /\ pending' = pending + 1
            /\ \E l \in Links \ Holders : Holders' = Holders \cup {l}
            /\ DispatchHolds' <=> DispatchHolds
         \/ /\ pending' = pending - 1
            /\ \E l \in Holders : Holders' = Holders \ {l}
            /\ DispatchHolds' <=> DispatchHolds
         \/ /\ pending' = pending - 1 /\ Holders' = Holders
            /\ DispatchHolds /\ ~ DispatchHolds'
<1> USE DEF atomics, hooks
<1> DEFINE Same == /\ pending' = pending /\ Holders' = Holders
                   /\ DispatchHolds' <=> DispatchHolds
           Add == /\ pending' = pending + 1
                  /\ \E l \in Links \ Holders : Holders' = Holders \cup {l}
                  /\ DispatchHolds' <=> DispatchHolds
           Take == /\ pending' = pending - 1
                   /\ \E l \in Holders : Holders' = Holders \ {l}
                   /\ DispatchHolds' <=> DispatchHolds
           Last == /\ pending' = pending - 1 /\ Holders' = Holders
                   /\ DispatchHolds /\ ~ DispatchHolds'
<1>0. /\ step \in [Links -> {"untried", "not sent", "tied"} \cup Sending]
      /\ pc \in [Threads -> Labels]
      /\ concluded \in [Links -> {"no", "proof", "timeout"}]
      /\ dispatch \in Threads
      /\ \A l \in Links : Delivery(l) \in Threads /\ Timeout(l) \in Threads
  BY ThreadNames DEF ControlInv, LabelsOK
<1>same. ASSUME \A l \in Links : Counted(l)' <=> Counted(l) PROVE Holders' = Holders
  BY <1>same DEF Holders
<1>1. ASSUME NEW l \in Links, receipt_pending_add(l) PROVE Add
  <2>1. UNCHANGED <<pc, concluded>> /\ pending' = pending + 1
    BY <1>1 DEF receipt_pending_add, StepOn
  <2>2. /\ step[l] = "count" /\ step'[l] = "tie delivery"
        /\ \A m \in Links : m # l => step'[m] = step[m]
    BY <1>0, <1>1 DEF receipt_pending_add, StepOn
  <2>3. concluded[l] = "no"
    BY <1>0, <2>2 DEF ControlInv, LinkInv, Ending, Deciding
  <2>4. ~ Counted(l) /\ Counted(l)'
    BY <2>1, <2>2, <2>3 DEF Counted
  <2>5. \A m \in Links : m # l => (Counted(m)' <=> Counted(m))
    BY <2>1, <2>2 DEF Counted
  <2>6. Holders' = Holders \cup {l} /\ l \in Links \ Holders
    BY <2>4, <2>5 DEF Holders
  <2> QED BY <2>1, <2>6 DEF DispatchHolds
<1>2. ASSUME NEW l \in Links, Dispatch(l), ~ receipt_pending_add(l) PROVE Same
  <2>1. UNCHANGED <<pc, concluded>> /\ pending' = pending
    BY <1>2 DEF Dispatch, NotSent, send_with_receipt, receipt_pending_sent,
       set_delivery_callback, set_timeout_callback, StepOn
  <2>2. /\ \A m \in Links : m # l => step'[m] = step[m]
        /\ \/ step[l] = "untried" /\ step'[l] \in {"not sent", "mark sent"}
           \/ step[l] = "mark sent" /\ step'[l] = "count"
           \/ step[l] = "tie delivery" /\ step'[l] = "tie timeout"
           \/ step[l] = "tie timeout" /\ step'[l] = "tied"
    BY <1>0, <1>2 DEF Dispatch, NotSent, send_with_receipt, receipt_pending_sent,
       set_delivery_callback, set_timeout_callback, StepOn
  <2>3. \A m \in Links : Counted(m)' <=> Counted(m)
    BY <2>1, <2>2 DEF Counted
  <2> QED BY <1>same, <2>1, <2>3 DEF DispatchHolds
<1>3. ASSUME NEW l \in Links, Callback(l) PROVE Same
  <2>1. UNCHANGED <<step, pending>>
    BY <1>3 DEF Callback, delivery_callback, timeout_callback, proved_on_time, proved_late,
       proved_late_note
  <2>2. pc'[dispatch] = pc[dispatch]
    BY <1>0, <1>3, ThreadNames DEF Callback, delivery_callback, timeout_callback,
       proved_on_time, proved_late, proved_late_note, Goto
  <2>3. ASSUME NEW m \in Links, m # l PROVE Counted(m)' <=> Counted(m)
    <3>1. concluded'[m] = concluded[m]
      BY <1>0, <1>3, <2>3 DEF Callback, delivery_callback, timeout_callback, proved_on_time,
         proved_late, proved_late_note
    <3>2. pc'[Delivery(m)] = pc[Delivery(m)] /\ pc'[Timeout(m)] = pc[Timeout(m)]
      <4>1. /\ Delivery(m) # Delivery(l) /\ Delivery(m) # Timeout(l)
            /\ Timeout(m) # Delivery(l) /\ Timeout(m) # Timeout(l)
        BY <2>3, ThreadNames
      <4> QED
        BY <1>0, <1>3, <4>1 DEF Callback, delivery_callback, timeout_callback, proved_on_time,
           proved_late, proved_late_note, Goto
    <3> QED BY <2>1, <3>1, <3>2 DEF Counted
  <2>4. Counted(l)' <=> Counted(l)
    <3>1. Delivery(l) # Timeout(l) /\ LinkInv(l)
      BY ThreadNames DEF ControlInv
    <3>2. CASE delivery_callback(l)
      <4>1. /\ pc[Delivery(l)] = "idle" /\ pc'[Timeout(l)] = pc[Timeout(l)]
            /\ \/ concluded[l] = "no" /\ pc'[Delivery(l)] = "prove"
               \/ concluded[l] # "no" /\ concluded' = concluded /\ pc'[Delivery(l)] = "prove late"
        BY <1>0, <3>1, <3>2 DEF delivery_callback, Goto, At
      <4> QED BY <2>1, <4>1 DEF Counted, Decrementing
    <3>3. CASE timeout_callback(l)
      <4>1. /\ pc[Timeout(l)] = "idle" /\ pc'[Delivery(l)] = pc[Delivery(l)]
            /\ \/ concluded[l] = "no" /\ pc'[Timeout(l)] = "conclude"
               \/ concluded[l] # "no" /\ concluded' = concluded /\ pc'[Timeout(l)] = "done"
        BY <1>0, <3>1, <3>3 DEF timeout_callback, Goto, At
      <4> QED BY <2>1, <4>1 DEF Counted, Decrementing
    <3>4. CASE proved_on_time(l) \/ proved_late(l) \/ proved_late_note(l)
      <4>1. /\ concluded' = concluded /\ pc'[Timeout(l)] = pc[Timeout(l)]
            /\ \/ pc[Delivery(l)] = "prove" /\ pc'[Delivery(l)] = "conclude"
               \/ /\ pc[Delivery(l)] \in {"prove late", "note", "note first"}
                  /\ pc'[Delivery(l)] \in {"note", "note first", "done"}
        BY <1>0, <3>1, <3>4 DEF proved_on_time, proved_late, proved_late_note, Goto, At
      <4> QED BY <2>1, <4>1 DEF Counted, Decrementing
    <3> QED BY <1>3, <3>2, <3>3, <3>4 DEF Callback
  <2> QED BY <1>same, <2>1, <2>2, <2>3, <2>4 DEF DispatchHolds
<1>4. ASSUME NEW l \in Links, ProofArrives(l) \/ TimesOut(l) PROVE Same
  BY <1>same, <1>4 DEF ProofArrives, TimesOut, Counted, DispatchHolds
<1>5. ASSUME NEW t \in Threads, t = dispatch, dispatch_done \/ Conclude(t) PROVE Same \/ Last
  <2>1. UNCHANGED <<step, concluded>>
    BY <1>5 DEF dispatch_done, Conclude, conclude_one, load_any_sent, load_proved, hand_off
  <2>2. /\ \A l \in Links : pc'[Delivery(l)] = pc[Delivery(l)] /\ pc'[Timeout(l)] = pc[Timeout(l)]
        /\ \/ pending' = pending /\ (pc[t] = "sending" /\ pc'[t] = "conclude")
           \/ pending' = pending /\ pc[t] \in Deciding /\ pc'[t] \in Deciding \cup {"done"}
           \/ pending' = pending - 1 /\ pc[t] = "conclude" /\ pc'[t] \in Deciding \cup {"done"}
    <3>1. \A l \in Links : t # Delivery(l) /\ t # Timeout(l)
      BY <1>5, ThreadNames
    <3> QED
      BY <1>0, <1>5, <3>1 DEF dispatch_done, Conclude, conclude_one, load_any_sent,
         load_proved, hand_off, Goto, At, Deciding
  <2>3. Holders' = Holders
    BY <1>same, <2>1, <2>2 DEF Counted
  <2> QED BY <1>5, <2>2, <2>3 DEF DispatchHolds, Deciding
<1>6. ASSUME NEW t \in Threads, NEW l \in Links, t = Delivery(l) \/ t = Timeout(l), Conclude(t)
      PROVE  Same \/ Take
  <2>1. UNCHANGED <<step, concluded>>
    BY <1>6 DEF Conclude, conclude_one, load_any_sent, load_proved, hand_off
  <2>2. /\ \A u \in Threads : u # t => pc'[u] = pc[u]
        /\ \/ pending' = pending /\ pc[t] \in Deciding /\ pc'[t] \in Deciding \cup {"done"}
           \/ pending' = pending - 1 /\ pc[t] = "conclude" /\ pc'[t] \in Deciding \cup {"done"}
    BY <1>0, <1>6 DEF Conclude, conclude_one, load_any_sent, load_proved, hand_off, Goto, At,
       Deciding
  <2>3. pc'[dispatch] = pc[dispatch]
    BY <1>6, <2>2, ThreadNames
  <2>4. ASSUME NEW m \in Links, m # l PROVE Counted(m)' <=> Counted(m)
    <3>1. Delivery(m) # t /\ Timeout(m) # t
      BY <1>6, <2>4, ThreadNames
    <3> QED BY <1>0, <2>1, <2>2, <3>1 DEF Counted
  <2>5. Delivery(l) # Timeout(l) /\ LinkInv(l)
    BY ThreadNames DEF ControlInv
  <2>6. CASE pc[t] = "conclude"
    <3>1. Counted(l) /\ ~ Counted(l)'
      BY <1>0, <1>6, <2>1, <2>2, <2>5, <2>6 DEF Counted, LinkInv, Decrementing, Deciding, Ending
    <3>2. Holders' = Holders \ {l} /\ l \in Holders
      BY <2>4, <3>1 DEF Holders
    <3> QED BY <2>2, <2>3, <2>6, <3>2 DEF DispatchHolds, Deciding
  <2>7. CASE pc[t] # "conclude"
    <3>1. Counted(l)' <=> Counted(l)
      BY <1>0, <1>6, <2>1, <2>2, <2>5, <2>7 DEF Counted, Decrementing, Deciding
    <3> QED BY <1>same, <2>2, <2>3, <2>4, <2>7, <3>1 DEF DispatchHolds
  <2> QED BY <2>6, <2>7
<1> QED BY ThreadNames, <1>1, <1>2, <1>3, <1>4, <1>5, <1>6 DEF Next

LEMMA CountStep ==
  ASSUME ControlInv, PendingIsExact, Next
  PROVE  PendingIsExact'
<1> DEFINE One == IF DispatchHolds THEN 1 ELSE 0
<1>0. /\ IsFiniteSet(Holders) /\ Cardinality(Holders) \in Nat
      /\ pending = Cardinality(Holders) + One
  BY FiniteHolders DEF PendingIsExact
<1>1. CASE Holders' = Holders
  BY <1>0, <1>1, HoldersStep DEF PendingIsExact
<1>2. ASSUME NEW l \in Links \ Holders, Holders' = Holders \cup {l},
             pending' = pending + 1, DispatchHolds' <=> DispatchHolds
      PROVE  PendingIsExact'
  <2>1. Cardinality(Holders \cup {l}) = Cardinality(Holders) + 1
    BY <1>0, FS_AddElement
  <2> QED BY <1>0, <1>2, <2>1 DEF PendingIsExact
<1>3. ASSUME NEW l \in Holders, Holders' = Holders \ {l},
             pending' = pending - 1, DispatchHolds' <=> DispatchHolds
      PROVE  PendingIsExact'
  <2>1. Cardinality(Holders \ {l}) = Cardinality(Holders) - 1
    BY <1>0, FS_RemoveElement
  <2> QED BY <1>0, <1>3, <2>1 DEF PendingIsExact
<1> QED BY <1>1, <1>2, <1>3, HoldersStep

-----------------------------------------------------------------------------
(***************************************************************************)
(* The verdict.  A thread decides only once the count is zero; by          *)
(* ZeroIsFinal no other thread comes to decide after it.                   *)
(***************************************************************************)

DecideInv ==
  /\ \A t, u \in Threads : pc[t] \in Deciding /\ pc[u] \in Deciding => t = u
  /\ (\E t \in Threads : pc[t] \in Deciding) => pending = 0 /\ on_unproven = 0
  /\ pending # 0 => on_unproven = 0 /\ ~ handed_off
  /\ \A t \in Threads : pc[t] \in {"proved?", "hand off"} => any_sent
  /\ OneNextRoute

AllFailed == \A l \in Links : step[l] = "not sent" \/ concluded[l] = "timeout"

HandOffInv == handed_off \/ (\E t \in Threads : At(t, "hand off")) => AllFailed

\* How many times the hook has been started, and whose thread still has to.
HookInv ==
  /\ ~ proved => on_proved = 0 /\ \A l \in Links : ~ At(Delivery(l), "note first")
  /\ proved => \/ /\ on_proved = 1
                  /\ \A l \in Links : ~ At(Delivery(l), "note first")
               \/ /\ on_proved = 0
                  /\ \E l \in Links : /\ At(Delivery(l), "note first")
                                      /\ \A m \in Links : At(Delivery(m), "note first") => m = l

Verdict == ControlInv /\ PendingIsExact /\ DecideInv /\ HandOffInv /\ HookInv

LEMMA InitVerdict == Init => Verdict
<1> SUFFICES ASSUME Init PROVE Verdict
  OBVIOUS
<1>1. ControlInv /\ PendingIsExact
  BY InitControl, InitCount
<1>2. \A t \in Threads : pc[t] \in {"sending", "idle"}
  BY DEF Init
<1>3. DecideInv
  BY <1>2 DEF Init, DecideInv, OneNextRoute, Deciding, DispatchHold
<1>4. HandOffInv
  BY <1>2 DEF Init, HandOffInv, At
<1>5. HookInv
  BY <1>2, ThreadNames DEF Init, HookInv, At
<1> QED BY <1>1, <1>3, <1>4, <1>5 DEF Verdict

\* A receipt once there stays there.
LEMMA ReceiptsStay ==
  ASSUME ControlInv, Next, NEW l \in Links, receipt[l] # "none"
  PROVE  receipt'[l] # "none"
<1>1. receipt \in [Links -> {"none", "sent", "proved", "failed", "late"}]
  BY DEF ControlInv, LabelsOK
<1>2. UNCHANGED receipt \/ \E m \in Links : \E r \in {"sent", "proved", "failed", "late"} :
                             receipt' = [receipt EXCEPT ![m] = r]
  BY DEF Next, Dispatch, Callback, Conclude, NotSent, send_with_receipt, StepOn,
     receipt_pending_sent, receipt_pending_add, set_delivery_callback, set_timeout_callback,
     dispatch_done, ProofArrives, TimesOut, delivery_callback, timeout_callback,
     proved_on_time, proved_late, proved_late_note, conclude_one, load_any_sent,
     load_proved, hand_off
<1> QED BY <1>1, <1>2

\* The steps that conclude nothing leave the deciding threads and the verdict
\* as they are.
LEMMA OtherStep ==
  ASSUME ControlInv, Next, ~ \E t \in Threads : Conclude(t)
  PROVE  /\ UNCHANGED <<handed_off, on_unproven>>
         /\ any_sent => any_sent'
         /\ \A t \in Threads : pc[t] \in Deciding \/ pc'[t] \in Deciding => pc'[t] = pc[t]
<1>0. /\ pc \in [Threads -> Labels]
      /\ \A l \in Links : Delivery(l) \in Threads /\ Timeout(l) \in Threads
      /\ dispatch \in Threads
  BY ThreadNames DEF ControlInv, LabelsOK
<1> USE DEF atomics, hooks
<1>1. CASE \E l \in Links : Dispatch(l) \/ ProofArrives(l) \/ TimesOut(l)
  <2>1. pc' = pc /\ UNCHANGED <<handed_off, on_unproven>>
    BY <1>1 DEF Dispatch, NotSent, send_with_receipt, StepOn, receipt_pending_sent,
       receipt_pending_add, set_delivery_callback, set_timeout_callback, ProofArrives, TimesOut
  <2>2. any_sent => any_sent'
    BY <1>1, Zenon
    DEF Dispatch, NotSent, send_with_receipt, StepOn, receipt_pending_sent,
       receipt_pending_add, set_delivery_callback, set_timeout_callback, ProofArrives, TimesOut
  <2> QED BY <2>1, <2>2
<1>2. CASE (\E l \in Links : Callback(l)) \/ dispatch_done
  <2>1. UNCHANGED <<handed_off, on_unproven, any_sent>>
    BY <1>2 DEF Callback, delivery_callback, timeout_callback, proved_on_time, proved_late,
       proved_late_note, dispatch_done
  <2>2. \A t \in Threads : pc[t] \in Deciding \/ pc'[t] \in Deciding => pc'[t] = pc[t]
    <3>0. ASSUME NEW u \in Threads, NEW x \in Labels \ Deciding, pc[u] \notin Deciding, Goto(u, x)
          PROVE  \A t \in Threads : pc[t] \in Deciding \/ pc'[t] \in Deciding => pc'[t] = pc[t]
      BY <1>0, <3>0 DEF Goto
    <3>1. CASE \E l \in Links : Callback(l)
      <4>1. PICK l \in Links : Callback(l)
        BY <3>1
      <4>2. CASE delivery_callback(l)
        BY <1>0, <3>0, <4>2 DEF delivery_callback, At, Labels, Deciding
      <4>3. CASE timeout_callback(l)
        BY <1>0, <3>0, <4>3 DEF timeout_callback, At, Labels, Deciding
      <4>4. CASE proved_on_time(l)
        BY <1>0, <3>0, <4>4 DEF proved_on_time, At, Labels, Deciding
      <4>5. CASE proved_late(l)
        BY <1>0, <3>0, <4>5 DEF proved_late, At, Labels, Deciding
      <4>6. CASE proved_late_note(l)
        BY <1>0, <3>0, <4>6 DEF proved_late_note, At, Labels, Deciding
      <4> QED BY <4>1, <4>2, <4>3, <4>4, <4>5, <4>6 DEF Callback
    <3>2. CASE dispatch_done
      BY <1>0, <3>2 DEF dispatch_done, Goto, At, Deciding
    <3> QED BY <1>2, <3>1, <3>2
  <2> QED BY <2>1, <2>2
<1> QED BY <1>1, <1>2 DEF Next

LEMMA DecideStep ==
  ASSUME ControlInv, PendingIsExact, DecideInv, Next
  PROVE  DecideInv'
<1>0. /\ pc \in [Threads -> Labels] /\ pending \in Int /\ on_unproven \in Nat
  BY DEF ControlInv, LabelsOK
<1> DEFINE SomeReceipt == \E l \in Links : receipt[l] # "none"
<1>receipts. SomeReceipt => SomeReceipt'
  BY ReceiptsStay
<1> HIDE DEF SomeReceipt
<1>old. /\ \A t, u \in Threads : pc[t] \in Deciding /\ pc[u] \in Deciding => t = u
        /\ (\E t \in Threads : pc[t] \in Deciding) => pending = 0 /\ on_unproven = 0
        /\ pending # 0 => on_unproven = 0 /\ ~ handed_off
        /\ \A t \in Threads : pc[t] \in {"proved?", "hand off"} => any_sent
        /\ on_unproven <= 1
        /\ on_unproven = 1 => SomeReceipt
  BY DEF DecideInv, OneNextRoute, SomeReceipt
<1>1. CASE ~ \E t \in Threads : Conclude(t)
  <2>1. /\ UNCHANGED <<handed_off, on_unproven>> /\ (any_sent => any_sent')
        /\ \A t \in Threads : pc[t] \in Deciding \/ pc'[t] \in Deciding => pc'[t] = pc[t]
    BY <1>1, OtherStep
  <2>2. pending = 0 => pending' = 0
    <3>1. \A l \in Links : step[l] # "count"
             \/ pending # 0
      BY ZeroIsFinal
    <3>2. pending' = pending \/ \E l \in Links : receipt_pending_add(l)
      BY <1>1 DEF Next, Dispatch, Callback, NotSent, send_with_receipt, StepOn,
         receipt_pending_sent, set_delivery_callback, set_timeout_callback,
         dispatch_done, ProofArrives, TimesOut, delivery_callback, timeout_callback,
         proved_on_time, proved_late, proved_late_note, atomics, hooks
    <3> QED BY <3>1, <3>2 DEF receipt_pending_add, StepOn
  <2>3. pending' # 0 => on_unproven' = 0 /\ ~ handed_off'
    BY <1>old, <2>1, <2>2
  <2>4. \A t \in Threads : pc'[t] \in {"proved?", "hand off"} => any_sent'
    BY <1>old, <2>1 DEF Deciding
  <2>5. \A t, u \in Threads : pc'[t] \in Deciding /\ pc'[u] \in Deciding => t = u
    BY <1>old, <2>1
  <2>6. (\E t \in Threads : pc'[t] \in Deciding) => pending' = 0 /\ on_unproven' = 0
    BY <1>old, <2>1, <2>2
  <2>7. OneNextRoute'
    BY <1>old, <1>receipts, <2>1 DEF OneNextRoute, SomeReceipt
  <2> QED BY <2>3, <2>4, <2>5, <2>6, <2>7 DEF DecideInv
<1>2. ASSUME NEW t \in Threads, conclude_one(t) PROVE DecideInv'
  <2>1. pc[t] = "conclude" /\ pending # 0
    BY <1>2, ZeroIsFinal DEF conclude_one, At
  <2>2. /\ UNCHANGED <<receipt, any_sent, handed_off, on_unproven>>
        /\ pending' = pending - 1
    BY <1>2 DEF conclude_one, hooks
  <2>3. /\ pc'[t] = IF pending = 1 THEN "any sent?" ELSE "done"
        /\ \A u \in Threads : u # t => pc'[u] = pc[u]
    BY <1>0, <1>2 DEF conclude_one, Goto
  <2>4. on_unproven = 0 /\ ~ handed_off /\ \A u \in Threads : pc[u] \notin Deciding
    BY <1>old, <2>1
  <2>5. OneNextRoute'
    BY <2>2, <2>4 DEF OneNextRoute
  <2>6. \A u \in Threads : pc'[u] \in Deciding => u = t /\ pending = 1 /\ pc'[u] = "any sent?"
    BY <2>3, <2>4 DEF Deciding
  <2>7. ~ handed_off' /\ on_unproven' = 0
    BY <2>2, <2>4
  <2>8. pending = 1 => pending' = 0
    BY <2>2
  <2> QED BY <2>5, <2>6, <2>7, <2>8 DEF DecideInv, Deciding
<1>3. ASSUME NEW t \in Threads, load_any_sent(t) \/ load_proved(t) PROVE DecideInv'
  <2>1. UNCHANGED <<receipt, pending, any_sent, handed_off, on_unproven>>
    BY <1>3 DEF load_any_sent, load_proved, atomics, hooks
  <2>2. /\ pc[t] \in Deciding /\ pc'[t] \in {"proved?", "hand off", "done"}
        /\ \A u \in Threads : u # t => pc'[u] = pc[u]
        /\ pc'[t] # "done" => any_sent
    BY <1>0, <1>old, <1>3 DEF load_any_sent, load_proved, Goto, At, Deciding
  <2>3. \A u \in Threads : pc'[u] \in Deciding => pc[u] \in Deciding
    BY <2>2 DEF Deciding
  <2>4. \A u \in Threads : pc'[u] \in {"proved?", "hand off"} => any_sent
    BY <1>old, <2>2
  <2>5. OneNextRoute'
    BY <1>old, <1>receipts, <2>1 DEF OneNextRoute, SomeReceipt
  <2> QED BY <1>old, <2>1, <2>3, <2>4, <2>5 DEF DecideInv
<1>4. ASSUME NEW t \in Threads, hand_off(t) PROVE DecideInv'
  <2>1. pc[t] = "hand off" /\ UNCHANGED <<receipt, pending, any_sent>>
    BY <1>4 DEF hand_off, At
  <2>2. on_unproven' = on_unproven + 1
    BY <1>4 DEF hand_off
  <2>3. pc'[t] = "done" /\ \A u \in Threads : u # t => pc'[u] = pc[u]
    BY <1>0, <1>4 DEF hand_off, Goto
  <2>4. /\ pending = 0 /\ on_unproven = 0 /\ any_sent
        /\ \A u \in Threads : pc[u] \in Deciding => u = t
    BY <1>old, <2>1 DEF Deciding
  <2>5. \A u \in Threads : pc'[u] \notin Deciding
    BY <2>3, <2>4 DEF Deciding
  <2>6. on_unproven' = 1 /\ pending' = 0
    <3>1. pending = 0 /\ on_unproven = 0 /\ pending' = pending
      BY <2>1, <2>4
    <3> QED BY <2>2, <3>1
  <2>7. SomeReceipt'
    BY <1>receipts, <2>4 DEF ControlInv, DispatchInv, SomeReceipt
  <2>8. OneNextRoute'
    BY <2>6, <2>7 DEF OneNextRoute, SomeReceipt
  <2> QED BY <2>5, <2>6, <2>8 DEF DecideInv, Deciding
<1> QED BY <1>1, <1>2, <1>3, <1>4 DEF Conclude

\* A link that failed for good stays failed.
LEMMA FailedStays ==
  ASSUME ControlInv, Next, AllFailed
  PROVE  AllFailed'
<1>0. /\ step \in [Links -> {"untried", "not sent", "tied"} \cup Sending]
      /\ concluded \in [Links -> {"no", "proof", "timeout"}]
  BY DEF ControlInv, LabelsOK
<1>1. ASSUME NEW l \in Links, step[l] = "not sent" PROVE step'[l] = "not sent"
  BY <1>0, <1>1
  DEF Next, Dispatch, Callback, Conclude, NotSent, send_with_receipt, StepOn,
      receipt_pending_sent, receipt_pending_add, set_delivery_callback, set_timeout_callback,
      dispatch_done, ProofArrives, TimesOut, delivery_callback, timeout_callback,
      proved_on_time, proved_late, proved_late_note, conclude_one, load_any_sent,
      load_proved, hand_off
<1>2. ASSUME NEW l \in Links, concluded[l] = "timeout" PROVE concluded'[l] = "timeout"
  BY <1>0, <1>2
  DEF Next, Dispatch, Callback, Conclude, NotSent, send_with_receipt, StepOn,
      receipt_pending_sent, receipt_pending_add, set_delivery_callback, set_timeout_callback,
      dispatch_done, ProofArrives, TimesOut, delivery_callback, timeout_callback,
      proved_on_time, proved_late, proved_late_note, conclude_one, load_any_sent,
      load_proved, hand_off
<1> QED BY <1>1, <1>2 DEF AllFailed

\* With the count at zero and no proof recorded, every receipt timed out.
LEMMA UnprovenFailed ==
  ASSUME ControlInv, PendingIsExact, pending = 0, ~ proved
  PROVE  AllFailed
<1> SUFFICES ASSUME NEW l \in Links, step[l] # "not sent" PROVE concluded[l] = "timeout"
  BY DEF AllFailed
<1>1. step[l] = "tied" /\ ~ Counted(l)
  BY ZeroIsFinal
<1>2. concluded[l] \in {"proof", "timeout"} /\ pc[Delivery(l)] # "prove"
  BY <1>1 DEF Counted, Decrementing, ControlInv, LabelsOK
<1> QED BY <1>2 DEF ControlInv, LinkInv

LEMMA HandOffStep ==
  ASSUME ControlInv, PendingIsExact, DecideInv, HandOffInv, Next
  PROVE  HandOffInv'
<1>0. pc \in [Threads -> Labels]
  BY DEF ControlInv, LabelsOK
<1>1. CASE AllFailed
  BY <1>1, FailedStays DEF HandOffInv
<1>2. CASE ~ AllFailed
  <2>1. ~ handed_off /\ \A t \in Threads : pc[t] # "hand off"
    BY <1>2 DEF HandOffInv, At
  <2>2. CASE ~ \E t \in Threads : Conclude(t)
    BY <2>1, <2>2, OtherStep DEF HandOffInv, At, Deciding
  <2>3. ASSUME NEW t \in Threads, Conclude(t) PROVE HandOffInv'
    <3>1. ~ hand_off(t)
      BY <2>1 DEF hand_off, At
    <3>2. handed_off' = handed_off
      BY <2>3, <3>1 DEF Conclude, conclude_one, load_any_sent, load_proved, atomics
    <3>3. ~ (load_proved(t) /\ ~ proved)
      <4>1. load_proved(t) => pending = 0
        BY DEF load_proved, At, DecideInv, Deciding
      <4> QED BY <1>2, <4>1, UnprovenFailed
    <3>4. \A u \in Threads : pc'[u] # "hand off"
      BY <1>0, <2>1, <2>3, <3>1, <3>3
      DEF Conclude, conclude_one, load_any_sent, load_proved, Goto, At
    <3> QED BY <2>1, <3>2, <3>4 DEF HandOffInv, At
  <2> QED BY <2>2, <2>3
<1> QED BY <1>1, <1>2

LEMMA HookStep ==
  ASSUME ControlInv, HookInv, Next
  PROVE  HookInv'
<1>0. /\ pc \in [Threads -> Labels] /\ on_proved \in Nat
      /\ \A l \in Links : Delivery(l) \in Threads /\ Timeout(l) \in Threads
      /\ \A l, m \in Links : Delivery(l) = Delivery(m) => l = m
      /\ \A l, m \in Links : Delivery(l) # Timeout(m)
      /\ \A l \in Links : Delivery(l) # dispatch
      /\ dispatch \in Threads
  BY ThreadNames DEF ControlInv, LabelsOK
<1> DEFINE First(l) == pc[Delivery(l)] = "note first"
<1>old. /\ ~ proved => on_proved = 0 /\ \A l \in Links : ~ First(l)
        /\ proved => \/ on_proved = 1 /\ \A l \in Links : ~ First(l)
                     \/ /\ on_proved = 0
                        /\ \E l \in Links : First(l) /\ \A m \in Links : First(m) => m = l
  BY DEF HookInv, At
<1>1. ASSUME NEW l \in Links, proved_on_time(l)
      PROVE  HookInv'
  <2>1. \A m \in Links : First(m)' <=> First(m)
    BY <1>0, <1>1 DEF proved_on_time, Goto, At
  <2>2. proved'
    BY <1>1 DEF proved_on_time
  <2>3. CASE proved
    <3>1. on_proved' = on_proved
      BY <1>1, <2>3 DEF proved_on_time
    <3> QED BY <1>old, <2>1, <2>2, <2>3, <3>1 DEF HookInv, At
  <2>4. CASE ~ proved
    <3>1. on_proved' = on_proved + 1
      BY <1>1, <2>4 DEF proved_on_time
    <3>2. on_proved = 0
      BY <1>old, <2>4
    <3>3. on_proved' = 1
      BY <3>1, <3>2
    <3> QED BY <1>old, <2>1, <2>2, <2>4, <3>3 DEF HookInv, At
  <2> QED BY <2>3, <2>4
<1>2. ASSUME NEW l \in Links, proved_late(l)
      PROVE  HookInv'
  <2>1. /\ \A m \in Links : m # l => (First(m)' <=> First(m))
        /\ ~ First(l)
        /\ First(l)' <=> ~ proved
    BY <1>0, <1>2 DEF proved_late, Goto, At
  <2>2. proved' /\ on_proved' = on_proved
    BY <1>2 DEF proved_late, hooks
  <2> HIDE DEF First
  <2>3. CASE proved
    <3>1. \A m \in Links : First(m)' <=> First(m)
      BY <2>1, <2>3
    <3> QED BY <1>old, <2>2, <2>3, <3>1 DEF HookInv, At, First
  <2>4. CASE ~ proved
    <3>1. First(l)' /\ \A m \in Links : First(m)' => m = l
      BY <1>old, <2>1, <2>4
    <3>2. on_proved' = 0
      BY <1>old, <2>2, <2>4
    <3> QED BY <2>2, <3>1, <3>2 DEF HookInv, At, First
  <2> QED BY <2>3, <2>4
<1>3. ASSUME NEW l \in Links, proved_late_note(l)
      PROVE  HookInv'
  <2>1. /\ \A m \in Links : m # l => (First(m)' <=> First(m))
        /\ ~ First(l)'
        /\ proved' = proved
    BY <1>0, <1>3 DEF proved_late_note, Goto, At, atomics
  <2>2. proved
    BY <1>3 DEF proved_late_note, ControlInv, LinkInv
  <2>3. CASE First(l)
    <3>1. on_proved' = on_proved + 1
      BY <1>3, <2>3 DEF proved_late_note, At
    <3>2. on_proved = 0 /\ \A m \in Links : First(m) => m = l
      BY <1>old, <2>2, <2>3
    <3>3. on_proved = 0
      BY <3>2
    <3>4. on_proved' = 1
      BY <3>1, <3>3
    <3> QED BY <2>1, <2>2, <3>2, <3>4 DEF HookInv, At
  <2>4. CASE ~ First(l)
    <3>1. on_proved' = on_proved
      BY <1>3, <2>4 DEF proved_late_note, At
    <3>2. \A m \in Links : First(m)' <=> First(m)
      BY <2>1, <2>4
    <3> QED BY <1>old, <2>1, <2>2, <3>1, <3>2 DEF HookInv, At
  <2> QED BY <2>3, <2>4
<1>4. CASE ~ \E l \in Links : proved_on_time(l) \/ proved_late(l) \/ proved_late_note(l)
  <2>1. UNCHANGED <<proved, on_proved>>
    BY <1>4
    DEF Next, Dispatch, Callback, Conclude, NotSent, send_with_receipt, StepOn,
        receipt_pending_sent, receipt_pending_add, set_delivery_callback, set_timeout_callback,
        dispatch_done, ProofArrives, TimesOut, delivery_callback, timeout_callback,
        conclude_one, load_any_sent, load_proved, hand_off, atomics, hooks
  <2>2. \A m \in Links : First(m)' <=> First(m)
    BY <1>0, <1>4
    DEF Next, Dispatch, Callback, Conclude, NotSent, send_with_receipt, StepOn,
        receipt_pending_sent, receipt_pending_add, set_delivery_callback, set_timeout_callback,
        dispatch_done, ProofArrives, TimesOut, delivery_callback, timeout_callback,
        conclude_one, load_any_sent, load_proved, hand_off, Goto, At
  <2> QED BY <1>old, <2>1, <2>2 DEF HookInv, At
<1> QED BY <1>1, <1>2, <1>3, <1>4

LEMMA VerdictStep == Verdict /\ [Next]_vars => Verdict'
<1> SUFFICES ASSUME Verdict, [Next]_vars PROVE Verdict'
  OBVIOUS
<1>1. ControlInv'
  BY ControlStep DEF Verdict
<1>2. CASE Next
  BY <1>1, <1>2, CountStep, DecideStep, HandOffStep, HookStep DEF Verdict
<1>3. CASE UNCHANGED vars
  <2>1. PendingIsExact'
    BY <1>3 DEF Verdict, vars, atomics, PendingIsExact, Holders, DispatchHolds, Counted
  <2>2. DecideInv'
    BY <1>3 DEF Verdict, vars, atomics, hooks, DecideInv, OneNextRoute
  <2>3. HandOffInv'
    BY <1>3 DEF Verdict, vars, atomics, HandOffInv, AllFailed, At
  <2>4. HookInv'
    BY <1>3 DEF Verdict, vars, atomics, hooks, HookInv, At
  <2> QED BY <1>1, <2>1, <2>2, <2>3, <2>4 DEF Verdict
<1> QED BY <1>2, <1>3

\* The invariant the theorems below read off: where the threads stand, the
\* exact count, the one decision, and what it means for the hooks.
THEOREM VerdictInvariant == Spec => []Verdict
<1>1. Init => Verdict
  BY InitVerdict
<1>2. Verdict /\ [Next]_vars => Verdict'
  BY VerdictStep
<1> QED BY <1>1, <1>2, PTL DEF Spec

\* PushOutcome::pending is the receipts not yet concluded and the dispatch's
\* own count, at every step of every thread.
THEOREM PendingExact == Spec => []PendingIsExact
<1>1. Verdict => PendingIsExact
  BY DEF Verdict
<1> QED BY <1>1, VerdictInvariant, PTL

\* Every variable keeps its type; fetch_sub never takes `pending` below zero.
THEOREM TypeCorrect == Spec => []TypeOK
<1>1. Verdict => TypeOK
  <2> SUFFICES ASSUME Verdict PROVE TypeOK
    OBVIOUS
  <2>1. pending \in Nat
    BY FiniteHolders DEF Verdict, PendingIsExact
  <2> QED BY <2>1, Zenon DEF Verdict, ControlInv, LabelsOK, TypeOK
<1> QED BY <1>1, VerdictInvariant, PTL

\* However the receipts' verdicts interleave, on_unproven is started at most
\* once, and never for a push that went out on no link.
THEOREM HandedOnOnce == Spec => []OneNextRoute
<1>1. Verdict => OneNextRoute
  BY DEF Verdict, DecideInv
<1> QED BY <1>1, VerdictInvariant, PTL

\* A push is handed to its next route only when every link was tried and
\* every receipt timed out.
THEOREM HandedOnOnlyUnproven == Spec => []HandedOffOnlyUnproven
<1>1. Verdict => HandedOffOnlyUnproven
  BY DEF Verdict, HandOffInv, AllFailed, HandedOffOnlyUnproven
<1> QED BY <1>1, VerdictInvariant, PTL

\* The first proof, on time or late, starts on_proved once.
THEOREM ProvedOnce == Spec => []ProvedHookOnce
<1>1. Verdict => ProvedHookOnce
  <2> SUFFICES ASSUME Verdict PROVE ProvedHookOnce
    OBVIOUS
  <2>1. on_proved = 0 \/ on_proved = 1
    BY DEF Verdict, HookInv
  <2>2. ASSUME NEW l \in Links, At(Delivery(l), "done"), on_proved = 0
        PROVE  \E m \in Links : At(Delivery(m), "note first")
    <3>1. proved
      BY <2>2 DEF Verdict, ControlInv, LinkInv, At
    <3>2. on_proved # 1
      BY <2>2
    <3> QED BY <3>1, <3>2, Zenon DEF Verdict, HookInv
  <2>3. on_proved <= 1
    BY <2>1
  <2> QED BY <2>2, <2>3 DEF ProvedHookOnce
<1> QED BY <1>1, VerdictInvariant, PTL
=============================================================================
