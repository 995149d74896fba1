------------------------ MODULE SupervisorSlot_proofs ------------------------
(***************************************************************************)
(* Theorems about SupervisorSlot, for every number of leases, messages and *)
(* faults.                                                                 *)
(***************************************************************************)
EXTENDS SupervisorSlot, WellFoundedInduction, TLAPS

(***************************************************************************)
(* The inductive invariant of the delivery.                                *)
(***************************************************************************)

Before == {"ensure", "beat", "resume", "check", "paste"}
Watching == {"confirm", "watch", "observe", "guide", "deliver", "heartbeat", "remind", "settle"}

(* Leases are granted in turn, and the slot works on one of them.          *)
Granted == /\ \A l \in Leases : l > issued => pasted[l] = 0
           /\ work.lease <= issued /\ sup.lease <= issued
           /\ sup.pc \notin {"poll", "down"} => sup.lease # 0
           /\ sup.pc = "settle" => work.lease # sup.lease
           /\ faults.unreported <= faults.all

(* Whether the assignment has been delivered, by the place in the program. *)
Phases == /\ sup.pc \in {"paste", "recover", "reject"} => ~sup.delivered
          /\ sup.pc \in Watching => sup.delivered

(* A lease that the slot takes for undelivered has not been pasted since   *)
(* the last failure that went unreported.                                  *)
Unpasted == /\ sup.pc \in Before /\ ~sup.delivered => pasted[sup.lease] <= faults.unreported
            /\ work.lease # 0 /\ work.delivery = "starting" /\ work.lease \notin sup.local =>
                 \/ pasted[work.lease] <= faults.unreported
                 \/ sup.lease = work.lease /\ sup.pc \in {"recover", "reject"}

(* Between the stop of the agent and its report nothing sets it going.     *)
Quiet == /\ At("ack") => pane.composer = {} /\ pane.task = 0
         /\ work.interrupt => work.lease # 0

(* What PastedOnce adds to the types.                                      *)
Once == \A l \in Leases : pasted[l] <= 1 + faults.unreported

IInv == TypeOK /\ Once /\ Granted /\ Phases /\ Unpasted /\ Quiet

(***************************************************************************)
(* While nothing has failed: what the slot and the tracker take for        *)
(* delivered has been taken up, the composer is empty except while a paste *)
(* is ambiguous, and the pane shows nothing else.                          *)
(***************************************************************************)
Delivery ==
    /\ work.delivery = "delivered" => work.lease \in taken
    /\ sup.local \subseteq taken
    /\ sup.delivered /\ sup.pc \notin {"poll", "down"} => sup.lease \in taken
    /\ pane.composer \subseteq pane.seen
    /\ pane.seen \subseteq taken \cup pane.composer
    /\ pane.composer \subseteq IF At("recover") THEN {sup.lease} ELSE {}
    /\ sup.pc \in Before \ {"ensure"} /\ sup.idle => pane.task = 0
    /\ At("recover") => pane.up
    /\ At("recover") /\ sup.idle /\ pane.task # 0 => sup.lease \in taken /\ pane.composer = {}

Reached == faults.all = 0 => Delivery

-----------------------------------------------------------------------------
(***************************************************************************)
(* What a step leaves alone.                                               *)
(***************************************************************************)

(* The types of the parts.                                                 *)
LEMMA Typed ==
  ASSUME IInv
  PROVE  /\ work.lease \in Nat /\ sup.lease \in Nat
         /\ work \in Work /\ work.lease \in {0} \cup Leases /\ work.guidance \in Nat
         /\ issued \in Nat /\ issued <= MaxLeases
         /\ pane \in Pane /\ pane.composer \subseteq Leases /\ pane.seen \subseteq Leases
         /\ sup \in Slot /\ sup.lease \in {0} \cup Leases /\ sup.local \subseteq Leases
         /\ taken \subseteq Leases
         /\ pasted \in [Leases -> 0..(MaxFaults + 1)] /\ \A l \in Leases : pasted[l] \in Nat
         /\ faults \in [all : 0..MaxFaults, unreported : 0..MaxFaults]
         /\ faults.all \in Nat /\ faults.unreported \in Nat
  <1>1. /\ work \in Work /\ pane \in Pane /\ sup \in Slot /\ issued \in 0..MaxLeases
        /\ taken \subseteq Leases /\ pasted \in [Leases -> 0..(MaxFaults + 1)]
        /\ faults \in [all : 0..MaxFaults, unreported : 0..MaxFaults]
    BY DEF IInv, TypeOK
  <1>2. /\ work.lease \in {0} \cup Leases /\ sup.lease \in {0} \cup Leases
        /\ sup.local \subseteq Leases /\ work.guidance \in 0..MaxGuidance
        /\ pane.composer \subseteq Leases /\ pane.seen \subseteq Leases
        /\ faults.all \in 0..MaxFaults /\ faults.unreported \in 0..MaxFaults
    BY <1>1 DEF Work, Pane, Slot
  <1>3. \A l \in {0} \cup Leases : l \in Nat
    BY BoundAssumption DEF Leases
  <1>4. \A l \in Leases : pasted[l] \in Nat
    BY <1>1, BoundAssumption
  <1>5. /\ work.guidance \in Nat /\ faults.all \in Nat /\ faults.unreported \in Nat
        /\ issued \in Nat /\ issued <= MaxLeases
    BY <1>1, <1>2, BoundAssumption
  <1>6. QED
    BY <1>1, <1>2, <1>3, <1>4, <1>5

(* The slot goes on with the lease it has.                                 *)
LEMMA SlotKeeps ==
  ASSUME IInv, UNCHANGED <<work, issued, pasted, taken, faults>>,
         sup' \in Slot, pane' \in Pane,
         sup'.lease = sup.lease, sup'.local = sup.local, sup'.delivered = sup.delivered,
         sup.pc \in {"recover", "reject"} => sup'.pc \in {"recover", "reject"},
         sup'.pc \in Before => sup.pc \in Before,
         sup'.pc \notin {"poll", "down"} => sup.pc \notin {"poll", "down"},
         sup'.pc = "ack" => pane'.composer = {} /\ pane'.task = 0,
         sup'.pc = "settle" => work.lease # sup.lease,
         Phases'
  PROVE  IInv'
  <1>1. TypeOK' /\ Once'
    BY DEF IInv, TypeOK, Once
  <1>2. Granted'
    BY DEF IInv, Granted
  <1>3. Unpasted'
    BY DEF IInv, Unpasted
  <1>4. Quiet'
    BY DEF IInv, Quiet, At
  <1>5. QED
    BY <1>1, <1>2, <1>3, <1>4 DEF IInv

(* The tracker, an operator or the agent's callback.                       *)
LEMMA WorkKeeps ==
  ASSUME IInv, UNCHANGED <<issued, pane, sup, pasted, taken, faults>>, work' \in Work,
         \/ work'.lease = work.lease /\ work'.delivery = work.delivery /\ work.lease # 0
         \/ work' = NoWork
  PROVE  IInv'
  <1>1. TypeOK' /\ Once' /\ Phases'
    BY DEF IInv, TypeOK, Once, Phases
  <1>2. Granted'
    BY Typed DEF IInv, Granted, NoWork
  <1>3. Unpasted'
    BY DEF IInv, Unpasted, NoWork
  <1>4. Quiet'
    BY DEF IInv, Quiet, At, NoWork
  <1>5. QED
    BY <1>1, <1>2, <1>3, <1>4 DEF IInv

(* The agent and its pane: an agent that was stopped is not set going.     *)
LEMMA PaneKeeps ==
  ASSUME IInv, UNCHANGED <<work, issued, sup, pasted>>, pane' \in Pane, taken' \subseteq Leases,
         pane.composer = {} /\ pane.task = 0 => pane'.composer = {} /\ pane'.task = 0,
         \/ UNCHANGED faults
         \/ MayFail /\ faults' = [faults EXCEPT !.all = @ + 1]
  PROVE  IInv'
  <1>1. /\ faults' \in [all : 0..MaxFaults, unreported : 0..MaxFaults]
        /\ faults'.unreported = faults.unreported /\ faults.all <= faults'.all
    BY Typed, BoundAssumption DEF MayFail
  <1>2. TypeOK' /\ Once' /\ Phases'
    BY <1>1 DEF IInv, TypeOK, Once, Phases
  <1>3. Granted'
    BY <1>1, Typed DEF IInv, Granted
  <1>4. Unpasted' /\ Quiet'
    BY <1>1 DEF IInv, Unpasted, Quiet, At
  <1>5. QED
    BY <1>2, <1>3, <1>4 DEF IInv

-----------------------------------------------------------------------------
(***************************************************************************)
(* The steps of the slot.                                                  *)
(***************************************************************************)

(* The steps that ask the tracker, or see to the agent, and go on.         *)
LEMMA WatchKeeps ==
  ASSUME IInv,
         \/ FirstHeartbeat \/ Check \/ Control \/ Observe \/ ReadGuidance \/ Heartbeat \/ Restart
         \/ (At("paste") \/ At("recover")) /\ sup' = Fail(sup) /\ SlotOnly
  PROVE  IInv'
  <1> USE Typed DEF At, Go, Fail, Live, SlotOnly, PaneOnly
  <1>1. UNCHANGED <<work, issued, pane, pasted, taken, faults>>
    BY DEF FirstHeartbeat, Check, Control, Observe, ReadGuidance, Heartbeat, Restart
  <1>2. sup' \in Slot
    <2>1. CASE Control
      <3>1. sup' = [sup EXCEPT !.pc = sup'.pc, !.asking = sup'.asking]
            /\ sup'.pc \in {"settle", "halt", "observe"} /\ sup'.asking \in BOOLEAN
        BY <2>1 DEF Control, Slot, Work
      <3>2. QED
        BY <3>1 DEF Slot, Steps
    <2>2. CASE ~ Control
      <3>1. CASE ReadGuidance
        BY <3>1 DEF ReadGuidance, Slot, Steps, Work
      <3>2. CASE ~ ReadGuidance
        <4>1. sup' = [sup EXCEPT !.pc = sup'.pc] /\ sup'.pc \in Steps
          BY <2>2, <3>2 DEF FirstHeartbeat, Check, Observe, Heartbeat, Restart, Slot, Steps
        <4>2. QED
          BY <4>1 DEF Slot
      <3>3. QED
        BY <3>1, <3>2
    <2>3. QED
      BY <2>1, <2>2
  <1>3. Phases'
    BY ZenonT(60) DEF IInv, Phases, Before, Watching, Slot, FirstHeartbeat, Check, Control, Observe,
       ReadGuidance, Heartbeat, Restart
  <1>4. /\ sup'.lease = sup.lease /\ sup'.local = sup.local /\ sup'.delivered = sup.delivered
        /\ sup.pc \in {"recover", "reject"} => sup'.pc \in {"recover", "reject"}
        /\ sup'.pc \in Before => sup.pc \in Before
        /\ sup'.pc \notin {"poll", "down"} => sup.pc \notin {"poll", "down"}
        /\ sup'.pc # "ack"
        /\ sup'.pc = "settle" => work.lease # sup.lease
    BY ZenonT(60) DEF IInv, Phases, Before, Watching, Slot, FirstHeartbeat, Check, Control, Observe,
       ReadGuidance, Heartbeat, Restart
  <1>5. QED
    BY <1>1, <1>2, <1>3, <1>4, SlotKeeps

(* The steps that start the agent, speak to it or stop it.                 *)
LEMMA AgentKeeps ==
  ASSUME IInv, EnsureAgent \/ DeliverGuidance \/ Remind \/ Halt
  PROVE  IInv'
  <1> USE Typed DEF At, Go, Fail, Live, PaneOnly
  <1>1. UNCHANGED <<work, issued, pasted, taken, faults>>
    BY DEF EnsureAgent, DeliverGuidance, Remind, Halt
  <1>2. sup.cursor \in Nat /\ sup.batch \in Nat /\ sup.batch <= MaxGuidance /\ pane.heard \in 0..MaxGuidance
    BY BoundAssumption DEF Slot, Pane
  <1>3. sup' \in Slot /\ pane' \in Pane
    <2>1. CASE EnsureAgent
      <3>1. sup' \in Slot
        BY ZenonT(60), <2>1 DEF EnsureAgent, Slot, Steps
      <3>2. CASE pane.up
        BY <2>1, <3>1, <3>2 DEF EnsureAgent
      <3>3. CASE ~ pane.up
        <4>1. 0 \in 0..MaxGuidance
          BY BoundAssumption
        <4>2. pane' \in Pane
          BY <2>1, <3>3, <4>1 DEF EnsureAgent, Pane
        <4>3. QED
          BY <3>1, <4>2
      <3>4. QED
        BY <3>2, <3>3
    <2>2. CASE DeliverGuidance
      <3>1. CASE sup.cursor >= sup.batch /\ Go("heartbeat") /\ UNCHANGED pane
        BY <3>1 DEF Slot, Steps
      <3>2. CASE /\ sup.cursor < sup.batch
                 /\ pane' = [pane EXCEPT !.heard = IF @ > sup.cursor THEN @ ELSE sup.cursor + 1,
                                         !.task = sup.lease]
                 /\ sup' = [sup EXCEPT !.cursor = @ + 1]
        <4>1. sup.cursor + 1 \in 0..MaxGuidance
          BY <1>2, <3>2, BoundAssumption
        <4>2. sup' \in Slot
          BY <3>2, <4>1 DEF Slot
        <4> DEFINE heard == IF pane.heard > sup.cursor THEN pane.heard ELSE sup.cursor + 1
        <4>3. heard \in 0..MaxGuidance
          BY <1>2, <4>1
        <4>4. pane' = [pane EXCEPT !.heard = heard, !.task = sup.lease]
          BY <3>2
        <4> HIDE DEF heard
        <4>5. pane' \in Pane
          BY <4>3, <4>4 DEF Pane
        <4>6. QED
          BY <4>2, <4>5
      <3>3. CASE sup' = Fail(sup) /\ UNCHANGED pane
        BY <3>3 DEF Slot, Steps
      <3>4. QED
        BY <2>2, <3>1, <3>2, <3>3 DEF DeliverGuidance
    <2>3. CASE Remind
      <3>1. sup' \in Slot
        <4>1. CASE sup' = [sup EXCEPT !.pc = "watch"]
          BY <4>1 DEF Slot, Steps
        <4>2. CASE sup' = [sup EXCEPT !.pc = "watch", !.reminded = TRUE]
          BY <4>2 DEF Slot, Steps
        <4>3. QED
          BY <2>3, <4>1, <4>2 DEF Remind
      <3>2. pane' \in Pane
        BY <2>3 DEF Remind, Pane
      <3>3. QED
        BY <3>1, <3>2
    <2>4. CASE Halt
      <3>1. sup' = [sup EXCEPT !.pc = sup'.pc] /\ sup'.pc \in {"ack", "poll", "reject"}
        BY <2>4 DEF Halt, Slot
      <3>2. sup' \in Slot
        BY <3>1 DEF Slot, Steps
      <3>3. pane' \in Pane
        BY <2>4 DEF Halt, Stopped, Pane
      <3>4. QED
        BY <3>2, <3>3
    <2>5. QED
      BY <2>1, <2>2, <2>3, <2>4
  <1>4. Phases'
    BY ZenonT(60) DEF IInv, Phases, Before, Watching, Slot, EnsureAgent, DeliverGuidance, Remind, Halt
  <1>5. /\ sup'.lease = sup.lease /\ sup'.local = sup.local /\ sup'.delivered = sup.delivered
        /\ sup.pc \in {"recover", "reject"} => sup'.pc \in {"recover", "reject"}
        /\ sup'.pc \in Before => sup.pc \in Before
        /\ sup'.pc \notin {"poll", "down"} => sup.pc \notin {"poll", "down"}
    BY ZenonT(60) DEF IInv, Phases, Before, Watching, Slot, EnsureAgent, DeliverGuidance, Remind, Halt
  <1>6. /\ sup'.pc = "ack" => pane'.composer = {} /\ pane'.task = 0
        /\ sup'.pc # "settle"
    BY DEF IInv, Phases, Slot, Pane, EnsureAgent, DeliverGuidance, Remind, Halt, Stopped
  <1>7. QED
    BY <1>1, <1>3, <1>4, <1>5, <1>6, SlotKeeps

(* A lease that is taken up is one that waits, or a new one.               *)
LEMMA BeginKeeps ==
  ASSUME NEW w \in Work, sup \in Slot, sup' = Begin(sup, w)
  PROVE  /\ sup' \in Slot /\ sup'.pc = "ensure" /\ sup'.lease = w.lease /\ sup'.local = sup.local
         /\ sup'.delivered = (w.delivery = "delivered" \/ w.lease \in sup.local)
  <1>1. 0 \in 0..MaxGuidance
    BY BoundAssumption
  <1> DEFINE delivered == (w.delivery = "delivered" \/ w.lease \in sup.local)
             pending == (w.delivery = "starting")
  <1>2. sup' = [sup EXCEPT !.pc = "ensure", !.lease = w.lease, !.pending = pending,
                           !.interrupt = w.interrupt, !.cursor = 0, !.batch = 0,
                           !.reminded = FALSE, !.delivered = delivered]
    BY DEF Begin, Enter
  <1>3. pending \in BOOLEAN /\ delivered \in BOOLEAN
    OBVIOUS
  <1> HIDE DEF pending, delivered
  <1>4. w.lease \in {0} \cup Leases /\ w.interrupt \in BOOLEAN
    BY DEF Work
  <1>5. /\ sup'.pc = "ensure" /\ sup'.lease = w.lease /\ sup'.local = sup.local
        /\ sup'.delivered = delivered
    BY <1>2 DEF Slot
  <1>6. sup' \in Slot
    BY ZenonT(60), <1>1, <1>2, <1>3, <1>4 DEF Slot, Steps
  <1>7. QED
    BY <1>5, <1>6 DEF delivered

LEMMA ResumeKeeps ==
  ASSUME IInv, Resume
  PROVE  IInv'
  <1>1. /\ At("poll") /\ work.lease # 0 /\ UNCHANGED <<work, issued, pane, pasted, taken, faults>>
        /\ sup' \in Slot /\ sup'.pc = "ensure" /\ sup'.lease = work.lease /\ sup'.local = sup.local
        /\ sup'.delivered = (work.delivery = "delivered" \/ work.lease \in sup.local)
    BY Typed, BeginKeeps DEF Resume, SlotOnly, PaneOnly
  <1>2. TypeOK' /\ Once'
    BY <1>1 DEF IInv, TypeOK, Once
  <1>3. Granted' /\ Phases' /\ Quiet'
    BY <1>1 DEF IInv, Granted, Phases, Quiet, At, Watching
  <1>4. Unpasted'
    BY <1>1, Typed DEF IInv, Unpasted, At, Work, Before
  <1>5. QED
    BY <1>2, <1>3, <1>4 DEF IInv

(* A new lease has never been pasted.                                      *)
LEMMA ClaimKeeps ==
  ASSUME IInv, Claim
  PROVE  IInv'
  <1> DEFINE lease == issued + 1
  <1>1. /\ At("poll") /\ issued < MaxLeases /\ issued' = lease /\ work' = Claimed
        /\ UNCHANGED <<pasted, taken>>
    BY DEF Claim
  <1>2. issued \in Nat /\ lease \in Leases /\ lease \in Nat /\ lease > issued /\ lease <= MaxLeases
        /\ lease # 0
    BY SMTT(60), <1>1, Typed, BoundAssumption DEF Leases
  <1> HIDE DEF lease
  <1>3. 0 \in 0..MaxGuidance
    BY BoundAssumption
  <1>4. /\ Claimed \in Work /\ Claimed.lease = lease /\ Claimed.delivery = "starting"
        /\ ~ Claimed.interrupt
    BY <1>2, <1>3 DEF Claimed, NoWork, Work, lease
  <1>5. pane' \in Pane /\ pane'.composer = pane.composer /\ pane'.task = pane.task
    BY <1>3, Typed DEF Claim, Pane
  <1>6. /\ faults' \in [all : 0..MaxFaults, unreported : 0..MaxFaults]
        /\ faults'.unreported = faults.unreported /\ faults.all <= faults'.all
    BY Typed, BoundAssumption DEF Claim, Faulty, MayFail
  <1>7. /\ sup' \in Slot /\ sup'.local = sup.local /\ sup'.lease <= lease
        /\ \/ sup'.pc = "poll"
           \/ /\ sup'.pc = "ensure" /\ sup'.lease = lease
              /\ sup'.delivered = (lease \in sup.local)
    <2>1. CASE sup' = Begin(sup, Claimed)
      BY <1>2, <1>4, <2>1, Typed, BeginKeeps
    <2>2. CASE UNCHANGED sup
      BY <1>1, <1>2, <2>2, Typed DEF At, IInv, Granted
    <2>3. QED
      BY <2>1, <2>2 DEF Claim
  <1>8. pasted[lease] = 0
    BY <1>2 DEF IInv, Granted
  <1>9. TypeOK'
    BY <1>1, <1>2, <1>4, <1>5, <1>6, <1>7, Typed DEF IInv, TypeOK
  <1>10. Once' /\ Phases'
    BY <1>1, <1>6, <1>7 DEF IInv, Once, Phases, Watching, At
  <1>11. Granted'
    <2>1. \A l \in Leases : l > issued' => pasted'[l] = 0
      BY <1>1, <1>2, Typed DEF IInv, Granted, Leases
    <2>2. work'.lease <= issued' /\ sup'.lease <= issued'
      BY <1>1, <1>2, <1>4, <1>7
    <2>3. faults'.unreported <= faults'.all
      BY <1>6, Typed DEF IInv, Granted
    <2>4. QED
      BY <1>2, <1>7, <2>1, <2>2, <2>3 DEF Granted
  <1>12. Unpasted' /\ Quiet'
    BY <1>1, <1>4, <1>6, <1>7, <1>8, Typed DEF Unpasted, Quiet, At, Before
  <1>13. QED
    BY <1>9, <1>10, <1>11, <1>12 DEF IInv

(* The tracker is told that the assignment was delivered: it knows now, or *)
(* the lease has gone.                                                     *)
LEMMA ConfirmKeeps ==
  ASSUME IInv, ConfirmAgain \/ Confirm
  PROVE  IInv'
  <1>1. /\ UNCHANGED <<issued, pane, pasted, taken, faults>>
        /\ sup.pc \in {"resume", "confirm"}
    BY DEF ConfirmAgain, Confirm, TrackerOnly, At
  <1>2. /\ sup' \in Slot /\ sup'.lease = sup.lease /\ sup'.delivered = sup.delivered
        /\ sup.pc = "resume" => sup'.pc = "check"
        /\ sup.pc = "confirm" => sup'.pc = "watch"
        /\ sup.local \ {sup.lease} \subseteq sup'.local
    <2>1. CASE ConfirmAgain
      <3> DEFINE local == IF sup.delivered /\ sup.pending THEN sup.local \ {sup.lease} ELSE sup.local
      <3>1. sup' = [sup EXCEPT !.pc = "check", !.local = local] /\ sup.pc = "resume"
        BY <2>1 DEF ConfirmAgain, At
      <3>2. local \subseteq Leases /\ sup.local \ {sup.lease} \subseteq local
        BY Typed
      <3> HIDE DEF local
      <3>3. QED
        BY <3>1, <3>2, Typed DEF Slot, Steps
    <2>2. CASE Confirm
      <3> DEFINE local == sup.local \ {sup.lease}
      <3>1. sup' = [sup EXCEPT !.pc = "watch", !.local = local] /\ sup.pc = "confirm"
        BY <2>2 DEF Confirm, At
      <3>2. local \subseteq Leases
        BY Typed
      <3> HIDE DEF local
      <3>3. QED
        BY <3>1, <3>2, Typed DEF Slot, Steps, local
    <2>3. QED
      BY <2>1, <2>2
  <1>3. /\ work' \in Work /\ work'.lease = work.lease /\ work'.interrupt = work.interrupt
        /\ work'.delivery = work.delivery \/ work'.delivery = "delivered"
    BY Typed DEF ConfirmAgain, Confirm, Delivered, Work
  <1>4. work.lease = sup.lease => sup'.local = sup.local \/ work'.delivery = "delivered"
    BY Typed DEF ConfirmAgain, Confirm, Delivered, Live, Work, Slot, At
  <1>5. TypeOK' /\ Once'
    BY <1>1, <1>2, <1>3 DEF IInv, TypeOK, Once
  <1>6. Granted' /\ Phases' /\ Quiet'
    BY <1>1, <1>2, <1>3 DEF IInv, Granted, Phases, Quiet, At, Before, Watching
  <1>7. Unpasted'
    BY <1>1, <1>2, <1>3, <1>4 DEF IInv, Unpasted, Before
  <1>8. QED
    BY <1>5, <1>6, <1>7 DEF IInv

(* The lease is given back, or has gone.                                   *)
LEMMA EndKeeps ==
  ASSUME IInv, Reject \/ Acknowledge \/ SettleAgent
  PROVE  IInv'
  <1> USE DEF At, Live, TrackerOnly, PaneOnly
  <1>1. /\ UNCHANGED <<issued, pasted, taken, faults>>
        /\ sup.pc \in {"reject", "ack", "settle"}
    BY DEF Reject, Acknowledge, SettleAgent
  <1>2. NoWork \in Work /\ NoWork.lease = 0 /\ ~ NoWork.interrupt
    <2>1. 0 \in 0..MaxGuidance
      BY BoundAssumption
    <2>2. QED
      BY <2>1 DEF NoWork, Work
  <1>3. work' \in Work /\ work' \in {work, NoWork}
    BY <1>2, Typed DEF Reject, Acknowledge, SettleAgent
  <1>4. pane' \in Pane
    BY Typed DEF Reject, Acknowledge, SettleAgent, Stopped, Pane
  <1>5. /\ sup' \in Slot /\ sup'.lease = sup.lease /\ sup'.delivered = sup.delivered
        /\ sup'.pc = "poll" \/ (sup'.pc = "reject" /\ ~ sup.delivered /\ sup.pc = "ack")
        /\ sup.local \ {sup.lease} \subseteq sup'.local
    <2>1. CASE Acknowledge
      <3>1. sup' = [sup EXCEPT !.pc = sup'.pc]
            /\ (sup'.pc = "poll" \/ (sup'.pc = "reject" /\ ~ sup.delivered /\ sup.pc = "ack"))
        BY <2>1, Typed DEF Acknowledge, Fail, Slot
      <3>2. QED
        BY <3>1, Typed DEF Slot, Steps
    <2>2. CASE Reject \/ SettleAgent
      <3>1. /\ sup' = [sup EXCEPT !.pc = "poll", !.local = sup'.local]
            /\ sup'.local \in {sup.local, sup.local \ {sup.lease}}
        BY <2>2, Typed DEF Reject, SettleAgent, Slot
      <3>2. sup'.local \subseteq Leases
        BY <3>1, Typed
      <3>3. QED
        BY <3>1, <3>2, Typed DEF Slot, Steps
    <2>3. QED
      BY <2>1, <2>2
  <1>6. /\ work'.lease # 0 /\ sup'.local # sup.local => work'.lease # sup.lease
        /\ sup.pc = "reject" /\ work'.lease # 0 /\ work'.delivery = "starting"
             => work'.lease # sup.lease
    <2>1. CASE Reject
      BY <1>2, <2>1, Typed DEF Reject, Slot, Work
    <2>2. CASE Acknowledge
      BY <1>2, <2>2, Typed DEF Acknowledge, Fail, Slot
    <2>3. CASE SettleAgent
      BY <1>2, <2>3, Typed DEF SettleAgent, Slot, IInv, Granted
    <2>4. QED
      BY <2>1, <2>2, <2>3
  <1>7. TypeOK' /\ Once'
    BY <1>1, <1>3, <1>4, <1>5 DEF IInv, TypeOK, Once
  <1>8. Granted' /\ Phases' /\ Quiet'
    BY <1>1, <1>2, <1>3, <1>4, <1>5, Typed DEF IInv, Granted, Phases, Quiet, Watching
  <1>9. Unpasted'
    BY <1>1, <1>2, <1>3, <1>5, <1>6 DEF IInv, Unpasted, Before
  <1>10. QED
    BY <1>7, <1>8, <1>9 DEF IInv

-----------------------------------------------------------------------------
(***************************************************************************)
(* The paste.                                                              *)
(***************************************************************************)

(* A bounded set of naturals that is not empty has a largest element.      *)
LEMMA LargestNatural ==
  ASSUME NEW S \in SUBSET Nat, S # {}, NEW n \in Nat, \A x \in S : x <= n
  PROVE  \E m \in S : \A x \in S : x <= m
  <1> DEFINE B == {b \in Nat : \A x \in S : x <= b}
             less == OpToRel(<, Nat)
  <1>1. IsWellFoundedOn(less, Nat)
    BY NatLessThanWellFounded
  <1>2. \A x, y \in Nat : x < y => <<x, y>> \in less
    BY DEF OpToRel
  <1>3. B \subseteq Nat /\ n \in B
    OBVIOUS
  <1> HIDE DEF B, less
  <1>4. PICK b \in B : \A c \in B : <<c, b>> \notin less
    BY <1>1, <1>3, WFMin
  <1>5. \A c \in B : b <= c
    <2>1. SUFFICES ASSUME NEW c \in B PROVE b <= c
      OBVIOUS
    <2>2. b \in Nat /\ c \in Nat
      BY <1>3
    <2>3. ~ (c < b)
      BY <1>2, <1>4, <2>2, Zenon
    <2>4. QED
      BY <2>2, <2>3
  <1>6. b \in S
    <2>1. SUFFICES ASSUME b \notin S PROVE FALSE
      OBVIOUS
    <2>2. b \in Nat /\ \A x \in S : x <= b /\ x # b /\ x \in Nat
      BY <2>1 DEF B
    <2>3. PICK x \in S : x \in Nat /\ x <= b /\ x # b
      BY <2>2
    <2>4. b - 1 \in Nat /\ \A y \in S : y <= b - 1
      BY <2>2, <2>3
    <2>5. b - 1 \in B
      BY <2>4 DEF B
    <2>6. QED
      BY <1>5, <2>2, <2>5
  <1>7. QED
    BY <1>6 DEF B

LEMMA SubmitTyped ==
  ASSUME NEW p \in Pane, NEW l \in {0} \cup Leases, p.seen \cup {l} \subseteq Leases
  PROVE  Submit(p, l) \in Pane
  BY DEF Submit, Pane

(* The assignment of the slot's lease is pasted once more: it was due.     *)
LEMMA PasteKeeps ==
  ASSUME IInv, Paste
  PROVE  IInv'
  <1> DEFINE l == sup.lease
             staged == [pane EXCEPT !.composer = @ \cup {l}, !.seen = @ \cup {l}]
             count == pasted[l] + 1
  <1>1. /\ At("paste") /\ pasted' = [pasted EXCEPT ![l] = count] /\ UNCHANGED <<work, issued>>
        /\ sup.pc = "paste" /\ l \in Leases /\ ~ sup.delivered
    BY Typed DEF Paste, At, IInv, Granted, Phases
  <1>2. /\ pasted[l] <= faults.unreported /\ faults.unreported <= faults.all
        /\ pasted[l] \in Nat /\ count \in Nat /\ count <= 1 + faults.unreported
        /\ count \in 0..(MaxFaults + 1)
    BY <1>1, Typed, BoundAssumption DEF IInv, Unpasted, Granted, Before
  <1> HIDE DEF count
  <1>3. /\ pasted' \in [Leases -> 0..(MaxFaults + 1)] /\ pasted'[l] = count
        /\ \A k \in Leases : k # l => pasted'[k] = pasted[k]
    BY <1>1, <1>2, Typed
  <1>4. pane' \in Pane
    <2>1. staged \in Pane
      BY <1>1, Typed DEF Pane
    <2>2. Submit(pane, l) \in Pane
      BY <1>1, Typed, SubmitTyped
    <2>3. QED
      BY <2>1, <2>2, Typed DEF Paste
  <1>5. taken' \subseteq Leases
    BY <1>1, Typed DEF Paste
  <1>6. /\ faults' \in [all : 0..MaxFaults, unreported : 0..MaxFaults]
        /\ faults'.unreported = faults.unreported /\ faults.all <= faults'.all
    BY Typed, BoundAssumption DEF Paste, Faulty, MayFail
  <1>7. /\ sup' \in Slot /\ sup'.lease = l
        /\ \/ sup'.pc = "confirm" /\ sup'.delivered /\ sup'.local = sup.local \cup {l}
           \/ sup'.pc \in {"recover", "reject"} /\ ~ sup'.delivered /\ sup'.local = sup.local
    <2>1. CASE sup' = [sup EXCEPT !.pc = "confirm", !.delivered = TRUE, !.local = @ \cup {l}]
      <3>1. sup.local \cup {l} \subseteq Leases
        BY <1>1, Typed
      <3>2. QED
        BY <2>1, <3>1, Typed DEF Slot, Steps
    <2>2. CASE sup' = Fail(sup) \/ Go("recover")
      <3>1. sup' = [sup EXCEPT !.pc = sup'.pc] /\ sup'.pc \in {"recover", "reject"}
        BY <1>1, <2>2, Typed DEF Fail, Go, Slot
      <3>2. QED
        BY <1>1, <3>1, Typed DEF Slot, Steps
    <2>3. QED
      BY <2>1, <2>2 DEF Paste
  <1>8. TypeOK'
    BY <1>1, <1>3, <1>4, <1>5, <1>6, <1>7, Typed DEF IInv, TypeOK
  <1>9. Once'
    BY <1>2, <1>3, <1>6 DEF IInv, Once
  <1>10. Granted'
    BY <1>1, <1>3, <1>6, <1>7, Typed DEF IInv, Granted
  <1>11. Phases' /\ Quiet'
    BY <1>1, <1>7 DEF IInv, Phases, Quiet, At, Watching
  <1>12. Unpasted'
    BY <1>1, <1>3, <1>6, <1>7, Typed DEF IInv, Unpasted, Before
  <1>13. QED
    BY <1>8, <1>9, <1>10, <1>11, <1>12 DEF IInv

LEMMA RecoverKeeps ==
  ASSUME IInv, Recover
  PROVE  IInv'
  <1> DEFINE l == sup.lease
             entered == IF pane.composer = {} THEN pane ELSE Submit(pane, l)
             cleared == [pane EXCEPT !.composer = {}, !.task = 0]
  <1>1. /\ sup.pc = "recover" /\ l \in Leases /\ ~ sup.delivered
        /\ UNCHANGED <<work, issued, pasted, faults>>
    BY Typed DEF Recover, At, IInv, Granted, Phases
  <1>2. pane' \in Pane /\ taken' \subseteq Leases
    <2>1. entered \in Pane
      BY <1>1, Typed, SubmitTyped
    <2>2. cleared \in Pane
      BY Typed DEF Pane
    <2>3. QED
      BY <2>1, <2>2, Typed DEF Recover, Recovered
  <1>3. /\ sup' \in Slot /\ sup'.lease = l
        /\ \/ sup'.pc = "confirm" /\ sup'.delivered /\ sup'.local = sup.local \cup {l}
           \/ sup'.pc = "reject" /\ ~ sup'.delivered /\ sup'.local = sup.local
    <2>1. CASE sup' = [sup EXCEPT !.pc = "confirm", !.delivered = TRUE, !.local = @ \cup {l}]
      <3>1. sup.local \cup {l} \subseteq Leases
        BY <1>1, Typed
      <3>2. QED
        BY <2>1, <3>1, Typed DEF Slot, Steps
    <2>2. CASE sup' = Fail(sup)
      BY <1>1, <2>2, Typed DEF Fail, Slot, Steps
    <2>3. QED
      BY <2>1, <2>2 DEF Recover, Recovered
  <1>4. TypeOK' /\ Once'
    BY <1>1, <1>2, <1>3 DEF IInv, TypeOK, Once
  <1>5. Granted' /\ Phases' /\ Quiet'
    BY <1>1, <1>3 DEF IInv, Granted, Phases, Quiet, At, Watching
  <1>6. Unpasted'
    BY <1>1, <1>3 DEF IInv, Unpasted, Before
  <1>7. QED
    BY <1>4, <1>5, <1>6 DEF IInv

-----------------------------------------------------------------------------
(***************************************************************************)
(* The faults.                                                             *)
(***************************************************************************)

(* One more fault; it may be one that hides a failed delivery.             *)
LEMMA OneMoreFault ==
  ASSUME IInv, MayFail, NEW u \in {faults.unreported, faults.unreported + 1},
         faults' = [all |-> faults.all + 1, unreported |-> u]
  PROVE  /\ faults' \in [all : 0..MaxFaults, unreported : 0..MaxFaults]
         /\ faults'.unreported = u /\ faults.unreported <= u /\ u <= faults'.all
         /\ u \in Nat /\ faults'.all > 0
  BY Typed, BoundAssumption DEF MayFail, IInv, Granted

LEMMA RequestFailsKeeps ==
  ASSUME IInv, RequestFails
  PROVE  IInv'
  <1>1. UNCHANGED <<work, issued, pane, pasted, taken>>
    BY DEF RequestFails
  <1>2. /\ sup.pc \notin {"poll", "down", "check", "paste"}
        /\ sup'.pc \in {"poll", "reject"} /\ sup' = [sup EXCEPT !.pc = sup'.pc]
        /\ sup'.pc = "reject" <=> ~ sup.delivered /\ sup.pc \notin {"reject", "settle"}
    BY Typed DEF RequestFails, Fail, Slot, IInv, Phases
  <1>3. /\ sup' \in Slot /\ sup'.lease = sup.lease /\ sup'.delivered = sup.delivered
        /\ sup'.local = sup.local
    BY <1>2, Typed DEF Slot, Steps
  <1>4. PICK u \in {faults.unreported, faults.unreported + 1} :
          /\ faults' = [all |-> faults.all + 1, unreported |-> u]
          /\ sup.pc = "reject" => u = faults.unreported + 1
    BY DEF RequestFails, Unreported
  <1>5. /\ faults' \in [all : 0..MaxFaults, unreported : 0..MaxFaults]
        /\ faults'.unreported = u /\ faults.unreported <= u /\ u <= faults'.all /\ u \in Nat
    BY <1>4, OneMoreFault DEF RequestFails
  <1>6. TypeOK'
    BY <1>1, <1>3, <1>5 DEF IInv, TypeOK
  <1>7. Once'
    BY <1>1, <1>5, Typed DEF IInv, Once
  <1>8. Granted' /\ Phases' /\ Quiet'
    BY <1>1, <1>2, <1>3, <1>5 DEF IInv, Granted, Phases, Quiet, Watching, At
  <1>9. Unpasted'
    <2>1. ASSUME work.lease # 0, work.delivery = "starting", work.lease \notin sup.local
          PROVE  \/ pasted[work.lease] <= u
                 \/ sup.lease = work.lease /\ sup'.pc = "reject"
      <3>1. work.lease \in Leases /\ pasted[work.lease] \in Nat
        BY <2>1, Typed
      <3>2. CASE sup.pc = "reject"
        BY <1>4, <3>1, <3>2, Typed DEF IInv, Once
      <3>3. CASE sup.pc # "reject"
        BY <1>2, <1>5, <2>1, <3>1, <3>3, Typed DEF IInv, Unpasted, Phases
      <3>4. QED
        BY <3>2, <3>3
    <2>2. QED
      BY <1>1, <1>2, <1>3, <1>5, <2>1 DEF Unpasted, Before
  <1>10. QED
    BY <1>6, <1>7, <1>8, <1>9 DEF IInv

(* What the tracker did is the same whether or not the answer arrives.     *)
LEMMA ReplyLostKeeps ==
  ASSUME IInv, ReplyLost
  PROVE  IInv'
  <1>1. UNCHANGED <<issued, pane, pasted, taken>>
    BY DEF ReplyLost
  <1>2. NoWork \in Work /\ NoWork.lease = 0 /\ ~ NoWork.interrupt
    <2>1. 0 \in 0..MaxGuidance
      BY BoundAssumption
    <2>2. QED
      BY <2>1 DEF NoWork, Work
  <1>3. /\ Delivered \in Work /\ Delivered.lease = work.lease /\ Delivered.delivery = "delivered"
        /\ Delivered.interrupt = work.interrupt
    BY Typed DEF Delivered, Work
  <1>4. /\ sup.pc \in {"confirm", "resume", "ack", "reject"}
        /\ work' = Delivered \/ work' = NoWork
        /\ sup.pc = "resume" => sup.delivered
        /\ sup.pc = "confirm" => sup.delivered
    BY DEF ReplyLost, At, IInv, Phases, Watching
  <1> HIDE DEF Delivered, NoWork
  <1>5. /\ sup'.pc \in {"poll", "reject"} /\ sup' = [sup EXCEPT !.pc = sup'.pc]
        /\ sup'.pc = "reject" => ~ sup.delivered
    BY Typed DEF ReplyLost, At, Fail, Slot
  <1>6. /\ sup' \in Slot /\ sup'.lease = sup.lease /\ sup'.delivered = sup.delivered
        /\ sup'.local = sup.local
    BY <1>5, Typed DEF Slot, Steps
  <1>7. /\ faults' \in [all : 0..MaxFaults, unreported : 0..MaxFaults]
        /\ faults'.unreported = faults.unreported /\ faults.all <= faults'.all
    BY Typed, BoundAssumption DEF ReplyLost, Faulty, MayFail
  <1>8. TypeOK' /\ Once'
    BY <1>1, <1>2, <1>3, <1>4, <1>6, <1>7 DEF IInv, TypeOK, Once
  <1>9. Granted'
    <2>1. work'.lease = work.lease \/ work'.lease = 0
      BY <1>2, <1>3, <1>4
    <2>2. work'.lease <= issued
      BY <2>1, Typed DEF IInv, Granted
    <2>3. QED
      BY <1>1, <1>4, <1>5, <1>6, <1>7, <2>2, Typed DEF IInv, Granted
  <1>10. Phases' /\ Quiet'
    BY <1>1, <1>2, <1>3, <1>4, <1>5, <1>6 DEF IInv, Phases, Quiet, At, Watching
  <1>11. Unpasted'
    BY <1>2, <1>3, <1>4, <1>5, <1>6 DEF Unpasted, Before
  <1>12. QED
    BY <1>8, <1>9, <1>10, <1>11 DEF IInv

(* A crash forgets what was delivered, and counts.                         *)
LEMMA CrashKeeps ==
  ASSUME IInv, Crash
  PROVE  IInv'
  <1>1. UNCHANGED <<work, issued, pane, pasted, taken>>
    BY DEF Crash
  <1>2. /\ sup' \in Slot /\ sup'.lease = 0 /\ sup'.pc = "down"
    <2>1. 0 \in 0..MaxGuidance
      BY BoundAssumption
    <2>2. QED
      BY <2>1 DEF Crash, Polling, Slot, Steps
  <1> DEFINE u == faults.unreported + 1
  <1>3. faults' = [all |-> faults.all + 1, unreported |-> u] /\ MayFail
    BY DEF Crash
  <1>4. /\ faults' \in [all : 0..MaxFaults, unreported : 0..MaxFaults]
        /\ faults'.unreported = u /\ faults.unreported <= u /\ u <= faults'.all /\ u \in Nat
    BY <1>3, OneMoreFault
  <1>5. \A l \in Leases : pasted[l] <= u
    BY Typed DEF IInv, Once
  <1> HIDE DEF u
  <1>6. TypeOK'
    BY <1>1, <1>2, <1>4 DEF IInv, TypeOK
  <1>7. Once'
    BY <1>1, <1>4, <1>5, Typed DEF Once
  <1>8. Granted' /\ Phases' /\ Quiet'
    BY <1>1, <1>2, <1>4, Typed DEF IInv, Granted, Phases, Quiet, Watching, At
  <1>9. Unpasted'
    BY <1>1, <1>2, <1>4, <1>5, Typed DEF Unpasted, Before
  <1>10. QED
    BY <1>6, <1>7, <1>8, <1>9 DEF IInv

-----------------------------------------------------------------------------
(***************************************************************************)
(* The agent, the operator and the tracker.                                *)
(***************************************************************************)

LEMMA PanesKeep ==
  ASSUME IInv, TakeUp \/ EndTurn \/ Scroll \/ AgentDies
  PROVE  IInv'
  <1> USE Typed DEF PaneOnly
  <1>1. CASE TakeUp
    <2> DEFINE last == CHOOSE l \in pane.composer : \A k \in pane.composer : k <= l
    <2>1. /\ pane.composer # {} /\ pane' = Submit(pane, last) /\ taken' = taken \cup pane.composer
          /\ UNCHANGED <<work, issued, sup, pasted, faults>>
      BY <1>1 DEF TakeUp
    <2>2. pane.composer \in SUBSET Nat /\ \A l \in pane.composer : l <= MaxLeases
      BY BoundAssumption DEF Leases
    <2>3. \E l \in pane.composer : \A k \in pane.composer : k <= l
      BY <2>1, <2>2, LargestNatural, BoundAssumption
    <2>4. last \in pane.composer
      BY <2>3
    <2> HIDE DEF last
    <2>5. pane' \in Pane
      BY <2>1, <2>4, SubmitTyped
    <2>6. QED
      BY <2>1, <2>5, PaneKeeps
  <1>2. CASE EndTurn
    BY <1>2, PaneKeeps DEF EndTurn, Pane
  <1>3. CASE Scroll
    BY <1>3, PaneKeeps DEF Scroll, Pane
  <1>4. CASE AgentDies
    <2>1. pane' \in Pane /\ pane'.composer = {} /\ pane'.task = 0
      BY <1>4 DEF AgentDies, Pane
    <2>2. QED
      BY <1>4, <2>1, PaneKeeps DEF AgentDies, Faulty
  <1>5. QED
    BY <1>1, <1>2, <1>3, <1>4

LEMMA TrackerKeeps ==
  ASSUME IInv, CallBack \/ Ask \/ Operate \/ LoseLease
  PROVE  IInv'
  <1> USE Typed DEF TrackerOnly
  <1>1. CASE CallBack \/ LoseLease
    <2>1. 0 \in 0..MaxGuidance
      BY BoundAssumption
    <2>2. work' = NoWork /\ NoWork \in Work
      BY <1>1, <2>1 DEF CallBack, LoseLease, NoWork, Work
    <2>3. QED
      BY <1>1, <2>2, WorkKeeps DEF CallBack, LoseLease
  <1>2. CASE Ask \/ Operate
    <2>1. work.lease # 0 /\ UNCHANGED <<issued, pane, sup, pasted, taken, faults>>
      BY <1>2 DEF Ask, Operate
    <2>2. CASE \/ work' = [work EXCEPT !.asking = TRUE] \/ work' = [work EXCEPT !.asking = FALSE]
               \/ work' = [work EXCEPT !.interrupt = TRUE]
      <3>1. work' \in Work /\ work'.lease = work.lease /\ work'.delivery = work.delivery
        BY <2>2 DEF Work
      <3>2. QED
        BY <2>1, <3>1, WorkKeeps
    <2>3. CASE work.guidance < MaxGuidance /\ work' = [work EXCEPT !.guidance = @ + 1]
      <3>1. work.guidance + 1 \in 0..MaxGuidance
        BY <2>3, BoundAssumption
      <3>2. work' \in Work /\ work'.lease = work.lease /\ work'.delivery = work.delivery
        BY <2>3, <3>1 DEF Work
      <3>3. QED
        BY <2>1, <3>2, WorkKeeps
    <2>4. QED
      BY <1>2, <2>2, <2>3 DEF Ask, Operate
  <1>3. QED
    BY <1>1, <1>2

-----------------------------------------------------------------------------
(***************************************************************************)
(* The theorems.                                                           *)
(***************************************************************************)

LEMMA Initially == Init => IInv
  <1> SUFFICES ASSUME Init PROVE IInv
    OBVIOUS
  <1>1. 0 \in 0..MaxGuidance /\ 0 \in 0..MaxLeases /\ 0 \in 0..MaxFaults /\ 0 \in 0..(MaxFaults + 1)
    BY BoundAssumption
  <1>2. work \in Work /\ work.lease = 0 /\ ~ work.interrupt
    BY <1>1 DEF Init, NoWork, Work
  <1>3. pane \in Pane
    BY <1>1 DEF Init, Pane
  <1>4. sup \in Slot /\ sup.pc = "poll" /\ sup.lease = 0
    BY <1>1 DEF Init, Polling, Slot, Steps
  <1>5. TypeOK
    BY <1>1, <1>2, <1>3, <1>4 DEF Init, TypeOK
  <1>6. Once /\ Granted
    BY <1>2, <1>4 DEF Init, Once, Granted
  <1>7. Phases /\ Unpasted /\ Quiet
    BY <1>2, <1>4 DEF Phases, Unpasted, Quiet, Before, Watching, At
  <1>8. QED
    BY <1>5, <1>6, <1>7 DEF IInv

LEMMA NextStep == IInv /\ [Next]_vars => IInv'
  <1> SUFFICES ASSUME IInv, [Next]_vars PROVE IInv'
    OBVIOUS
  <1>1. CASE Slots
    BY <1>1, WatchKeeps, AgentKeeps, ResumeKeeps, ClaimKeeps, ConfirmKeeps, EndKeeps, PasteKeeps,
       RecoverKeeps DEF Slots
  <1>2. CASE RequestFails \/ ReplyLost \/ Crash
    BY <1>2, RequestFailsKeeps, ReplyLostKeeps, CrashKeeps
  <1>3. CASE TakeUp \/ EndTurn \/ Scroll \/ AgentDies
    BY <1>3, PanesKeep
  <1>4. CASE CallBack \/ Ask \/ Operate \/ LoseLease
    BY <1>4, TrackerKeeps
  <1>5. CASE UNCHANGED vars
    BY <1>5 DEF vars, IInv, TypeOK, Once, Granted, Phases, Unpasted, Quiet, At
  <1>6. QED
    BY <1>1, <1>2, <1>3, <1>4, <1>5 DEF Next

LEMMA Invariant == Spec => []IInv
  BY Initially, NextStep, PTL DEF Spec

(* The assignment of a lease is pasted once, and once more for every crash *)
(* of the daemon or report of a failed delivery that was lost: no stall,   *)
(* lost confirmation, restored agent or interrupted watch repeats it.      *)
THEOREM AssignmentPastedOnce == Spec => []PastedOnce
  <1>1. IInv => PastedOnce
    BY DEF IInv, PastedOnce, Once
  <1>2. QED
    BY <1>1, Invariant, PTL

(* When the tracker gives an interrupted lease up on this slot's report,   *)
(* the agent works on nothing and nothing is staged for it: of all that    *)
(* happens between Halt and Acknowledge, nothing sets it going again.      *)
THEOREM AcknowledgedIsStopped == Spec => AcknowledgedStopped
  <1>1. IInv /\ [Next]_vars =>
          [work.interrupt /\ work'.lease # work.lease /\ At("ack") /\ ~LoseLease
             => pane.task # work.lease /\ work.lease \notin pane.composer]_vars
    <2>1. IInv /\ work.interrupt /\ At("ack") => pane.task # work.lease /\ work.lease \notin pane.composer
      BY DEF IInv, Quiet
    <2>2. QED
      BY <2>1
  <1>2. QED
    BY <1>1, Invariant, PTL DEF Spec, AcknowledgedStopped

-----------------------------------------------------------------------------
(***************************************************************************)
(* What the tracker takes for delivered, while nothing has failed.         *)
(***************************************************************************)

(* The slot goes on, and nothing moves in the pane.                        *)
LEMMA SlotReaches ==
  ASSUME IInv, Delivery,
         \/ FirstHeartbeat \/ Check \/ Control \/ Observe \/ ReadGuidance \/ Heartbeat \/ Restart
         \/ Resume \/ (At("paste") /\ sup' = Fail(sup) /\ SlotOnly)
  PROVE  Delivery'
  <1>1. UNCHANGED <<work, pane, taken>>
    BY DEF FirstHeartbeat, Check, Control, Observe, ReadGuidance, Heartbeat, Restart, Resume,
       SlotOnly, PaneOnly
  <1>2. ~ At("recover") /\ sup'.pc # "recover" /\ sup'.local = sup.local
    BY Typed, BeginKeeps DEF FirstHeartbeat, Check, Control, Observe, ReadGuidance, Heartbeat, Restart, Resume, At,
       Go, Fail, Slot
  <1>3. CASE Resume
    <2>1. /\ sup'.pc = "ensure" /\ sup'.lease = work.lease
          /\ sup'.delivered = (work.delivery = "delivered" \/ work.lease \in sup.local)
      BY <1>3, Typed, BeginKeeps DEF Resume
    <2>2. QED
      BY <1>1, <1>2, <2>1 DEF Delivery, At
  <1>4. CASE ~ Resume
    <2>1. /\ sup'.lease = sup.lease /\ sup'.idle = sup.idle /\ sup'.delivered = sup.delivered
          /\ sup'.pc \in Before \ {"ensure"} => sup.pc \in Before \ {"ensure"}
          /\ sup'.pc \notin {"poll", "down"} => sup.pc \notin {"poll", "down"}
      BY <1>4, Typed DEF FirstHeartbeat, Check, Control, Observe, ReadGuidance, Heartbeat, Restart,
         At, Go, Fail, Slot, Before
    <2>2. QED
      BY <1>1, <1>2, <2>1 DEF Delivery, At
  <1>5. QED
    BY <1>3, <1>4

LEMMA ClaimReaches ==
  ASSUME IInv, Delivery, Claim
  PROVE  Delivery'
  <1>1. Claimed \in Work /\ Claimed.delivery = "starting"
    <2>1. 0 \in 0..MaxGuidance /\ issued + 1 \in Leases
      BY Typed, BoundAssumption DEF Claim, Leases
    <2>2. QED
      BY <2>1 DEF Claimed, NoWork, Work
  <1>2. /\ pane'.composer = pane.composer /\ pane'.seen = pane.seen /\ pane'.task = pane.task
        /\ UNCHANGED taken /\ work' = Claimed /\ sup.pc = "poll"
    BY Typed DEF Claim, Pane, At
  <1>3. /\ sup'.local = sup.local
        /\ \/ sup'.pc = "poll"
           \/ /\ sup'.pc = "ensure"
              /\ sup'.delivered => sup'.lease \in sup.local
    <2>1. CASE sup' = Begin(sup, Claimed)
      BY <1>1, <2>1, Typed, BeginKeeps
    <2>2. CASE UNCHANGED sup
      BY <1>2, <2>2
    <2>3. QED
      BY <2>1, <2>2 DEF Claim
  <1>4. QED
    BY <1>1, <1>2, <1>3 DEF Delivery, At, Before

(* The agent is started, spoken to and stopped while nothing is staged.    *)
LEMMA AgentReaches ==
  ASSUME IInv, Delivery, EnsureAgent \/ DeliverGuidance \/ Remind \/ Halt \/ SettleAgent
  PROVE  Delivery'
  <1>1. /\ UNCHANGED <<work, taken>> /\ pane'.composer = {}
        /\ pane'.seen \in {pane.seen, {}} /\ pane.composer = {}
    BY ZenonT(60), Typed DEF Delivery, EnsureAgent, DeliverGuidance, Remind, Halt, SettleAgent, Stopped, Pane,
       PaneOnly, At
  <1>2. /\ sup'.lease = sup.lease /\ sup'.delivered = sup.delivered
        /\ sup'.local \subseteq sup.local
        /\ sup'.pc # "recover"
        /\ sup'.pc \notin {"poll", "down"} => sup.pc \notin {"poll", "down"}
    BY ZenonT(60), Typed DEF EnsureAgent, DeliverGuidance, Remind, Halt, SettleAgent, Slot, At, Go, Fail
  <1>3. sup'.pc \in Before => sup'.pc = "beat" /\ (sup'.idle => pane'.task = 0)
    <2>1. CASE EnsureAgent
      BY <2>1, Typed DEF EnsureAgent, Slot, Pane
    <2>2. CASE ~ EnsureAgent
      BY ZenonT(60), <2>2, Typed DEF DeliverGuidance, Remind, Halt, SettleAgent, Slot, At, Go, Fail, Before, IInv,
         Phases, Watching
    <2>3. QED
      BY <2>1, <2>2
  <1>4. QED
    BY <1>1, <1>2, <1>3 DEF Delivery, At

LEMMA TrackerReaches ==
  ASSUME IInv, Delivery, ConfirmAgain \/ Confirm \/ Reject \/ Acknowledge
  PROVE  Delivery'
  <1> USE DEF At, Live, TrackerOnly
  <1>1. UNCHANGED <<pane, taken>>
    BY DEF ConfirmAgain, Confirm, Reject, Acknowledge
  <1>2. /\ sup'.lease = sup.lease /\ sup'.delivered = sup.delivered /\ sup'.idle = sup.idle
        /\ sup'.local \subseteq sup.local
        /\ sup.pc \notin {"recover", "poll", "down"} /\ sup'.pc # "recover"
        /\ sup'.pc \in Before \ {"ensure"} => sup.pc \in Before \ {"ensure"}
    BY ZenonT(60), Typed DEF ConfirmAgain, Confirm, Reject, Acknowledge, Slot, Fail, Before
  <1>3. work'.delivery = "delivered" => work'.lease \in taken
    <2>1. CASE ConfirmAgain \/ Confirm
      <3>1. /\ work'.lease = work.lease
            /\ work'.delivery = work.delivery \/ (sup.delivered /\ work.lease = sup.lease)
        BY <2>1, Typed DEF ConfirmAgain, Confirm, Delivered, Work, IInv, Phases, Watching
      <3>2. QED
        BY <1>2, <3>1 DEF Delivery
    <2>2. CASE Reject \/ Acknowledge
      BY <2>2, Typed DEF Reject, Acknowledge, NoWork, Delivery
    <2>3. QED
      BY <2>1, <2>2
  <1>4. QED
    BY <1>1, <1>2, <1>3 DEF Delivery

LEMMA PasteReaches ==
  ASSUME IInv, Delivery, Paste, faults'.all = 0
  PROVE  Delivery'
  <1> DEFINE l == sup.lease
             staged == [pane EXCEPT !.composer = @ \cup {l}, !.seen = @ \cup {l}]
  <1>1. /\ sup.pc = "paste" /\ ~ sup.delivered /\ UNCHANGED work /\ pane.composer = {}
        /\ sup.idle => pane.task = 0
    BY DEF Paste, At, IInv, Phases, Delivery, Before
  <1>2. ~ Faulty
    BY Typed DEF Faulty
  <1>3. /\ Submit(pane, l).composer = {} /\ Submit(pane, l).seen = pane.seen \cup {l}
        /\ staged.composer = {l} /\ staged.seen = pane.seen \cup {l} /\ staged.task = pane.task
    BY <1>1, Typed DEF Submit, Pane
  <1> HIDE DEF staged
  <1>4. \/ pane' = Submit(pane, l) /\ taken' = taken \cup {l}
        \/ pane' \in {staged, pane} /\ UNCHANGED taken
    BY DEF Paste, staged
  <1>5. pane.up /\ pane'.up
    BY <1>4, Typed DEF Paste, staged, Submit, Pane
  <1>6. sup'.lease = l /\ sup'.idle = sup.idle
    BY Typed DEF Paste, Slot, Go, Fail
  <1>7. \/ sup'.pc = "recover" /\ ~ sup'.delivered /\ sup'.local = sup.local
        \/ /\ sup'.pc = "confirm" /\ sup'.local = sup.local \cup {l}
           /\ pane' = Submit(pane, l) /\ taken' = taken \cup {l}
    BY <1>1, <1>2, Typed DEF Paste, Slot, Go
  <1>8. QED
    BY <1>1, <1>3, <1>4, <1>5, <1>6, <1>7 DEF Delivery, At, Before

(* What the pane shows of a lease whose paste is ambiguous has been taken  *)
(* up or is staged.                                                        *)
LEMMA RecoverReaches ==
  ASSUME IInv, Delivery, Recover, ~ Collapses
  PROVE  Delivery'
  <1> DEFINE l == sup.lease
             entered == IF pane.composer = {} THEN pane ELSE Submit(pane, l)
             cleared == [pane EXCEPT !.composer = {}, !.task = 0]
  <1>1. /\ sup.pc = "recover" /\ ~ sup.delivered /\ UNCHANGED work /\ pane.composer \subseteq {l}
    BY DEF Recover, At, IInv, Phases, Delivery
  <1>2. CASE sup.idle /\ pane.task # 0 /\ Recovered(pane, taken)
    <2>1. l \in taken /\ pane' = pane /\ taken' = taken
      BY <1>1, <1>2 DEF Delivery, At, Recovered
    <2>2. sup'.pc = "confirm" /\ sup'.lease = l /\ sup'.local = sup.local \cup {l}
      BY <1>2, Typed DEF Recovered, Slot
    <2>3. pane.composer = {}
      BY <1>1, <1>2 DEF Delivery, At
    <2>4. QED
      BY <1>1, <2>1, <2>2, <2>3 DEF Delivery, At, Before
  <1>3. CASE Evidence /\ Recovered(entered, taken \cup pane.composer)
    <2>1. l \in pane.seen
      BY <1>3 DEF Evidence
    <2>2. l \in taken \cup pane.composer /\ taken' = taken \cup pane.composer /\ pane' = entered
      BY <1>3, <2>1 DEF Delivery, Recovered
    <2>3. entered.composer = {} /\ entered.seen \subseteq pane.seen \cup {l}
      BY Typed DEF Submit, Pane
    <2>4. sup'.pc = "confirm" /\ sup'.lease = l /\ sup'.local = sup.local \cup {l}
      BY <1>3, Typed DEF Recovered, Slot
    <2> HIDE DEF entered
    <2>5. QED
      BY <1>1, <2>2, <2>3, <2>4 DEF Delivery, At, Before
  <1>4. CASE ~Evidence /\ pane' = cleared /\ sup' = Fail(sup) /\ UNCHANGED taken
    <2>1. l \notin pane.seen /\ pane.composer = {}
      BY <1>1, <1>4 DEF Evidence, Delivery
    <2>2. pane'.composer = {} /\ pane'.seen = pane.seen
      BY <1>4, Typed DEF Pane
    <2>3. sup'.pc = "reject" /\ ~ sup'.delivered /\ sup'.local = sup.local
      BY <1>1, <1>4, Typed DEF Fail, Slot
    <2>4. QED
      BY <1>1, <1>4, <2>1, <2>2, <2>3 DEF Delivery, At, Before
  <1>5. QED
    BY <1>2, <1>3, <1>4 DEF Recover

LEMMA PanesReach ==
  ASSUME IInv, Delivery, TakeUp \/ EndTurn \/ Scroll
  PROVE  Delivery'
  <1> USE Typed DEF PaneOnly
  <1>1. CASE TakeUp
    <2> DEFINE last == CHOOSE l \in pane.composer : \A k \in pane.composer : k <= l
    <2>1. /\ pane.composer # {} /\ pane' = Submit(pane, last) /\ taken' = taken \cup pane.composer
          /\ UNCHANGED <<work, sup>>
      BY <1>1 DEF TakeUp
    <2>2. /\ At("recover") /\ pane.composer = {sup.lease}
      BY <2>1 DEF Delivery
    <2>3. last = sup.lease
      BY <2>2
    <2> HIDE DEF last
    <2>4. pane'.composer = {} /\ pane'.seen = pane.seen \cup {sup.lease} /\ pane'.up = pane.up
      BY <2>1, <2>3 DEF Submit, Pane
    <2>5. QED
      BY <2>1, <2>2, <2>4 DEF Delivery, At, Before
  <1>2. CASE EndTurn
    <2>1. /\ pane'.composer = pane.composer /\ pane'.seen = pane.seen /\ pane'.task = 0 /\ pane'.up = pane.up
          /\ UNCHANGED <<work, sup, taken>>
      BY <1>2 DEF EndTurn, Pane
    <2>2. QED
      BY <2>1 DEF Delivery, At
  <1>3. CASE Scroll
    <2>1. /\ pane'.composer = pane.composer /\ pane'.seen = pane.composer /\ pane'.task = pane.task
          /\ pane'.up = pane.up
          /\ UNCHANGED <<work, sup, taken>>
      BY <1>3 DEF Scroll, Pane
    <2>2. QED
      BY <2>1 DEF Delivery, At
  <1>4. QED
    BY <1>1, <1>2, <1>3

LEMMA WorkReaches ==
  ASSUME IInv, Delivery, CallBack \/ Ask \/ Operate \/ LoseLease
  PROVE  Delivery'
  <1>1. UNCHANGED <<pane, taken, sup>>
    BY DEF CallBack, Ask, Operate, LoseLease, TrackerOnly
  <1>2. \/ work'.delivery = "starting"
        \/ work'.delivery = work.delivery /\ work'.lease = work.lease
    BY Typed DEF CallBack, Ask, Operate, LoseLease, NoWork, Work
  <1>3. QED
    BY <1>1, <1>2 DEF Delivery, At

LEMMA ReachedStep ==
  ASSUME ~ Collapses, IInv, Reached, [Next]_vars
  PROVE  Reached'
  <1>1. SUFFICES ASSUME faults'.all = 0 PROVE Delivery'
    BY DEF Reached
  <1>2. ~ Faulty
    BY <1>1, Typed DEF Faulty
  <1>3. ~ RequestFails /\ ~ Crash /\ ~ ReplyLost /\ ~ AgentDies
    BY <1>1, <1>2, Typed DEF RequestFails, Crash, ReplyLost, AgentDies
  <1>4. faults.all = 0
    <2>1. faults' = faults \/ Faulty
      BY <1>3 DEF Next, Slots, vars, SlotOnly, PaneOnly, TrackerOnly, Resume, Claim, EnsureAgent,
         FirstHeartbeat, ConfirmAgain, Check, Paste, Recover, Confirm, Reject, Control, Observe,
         ReadGuidance, DeliverGuidance, Heartbeat, Remind, SettleAgent, Halt, Acknowledge, Restart,
         TakeUp, EndTurn, Scroll, CallBack, Ask, Operate, LoseLease
    <2>2. QED
      BY <1>1, <1>2, <2>1
  <1>5. Delivery
    BY <1>4 DEF Reached
  <1>6. CASE Slots
    <2>1. ~ (At("recover") /\ ~ pane.up /\ sup' = Fail(sup) /\ SlotOnly)
      BY <1>5 DEF Delivery
    <2>2. QED
      BY <1>1, <1>5, <1>6, <2>1, SlotReaches, ClaimReaches, AgentReaches, TrackerReaches,
         PasteReaches, RecoverReaches DEF Slots
  <1>7. CASE TakeUp \/ EndTurn \/ Scroll \/ CallBack \/ Ask \/ Operate \/ LoseLease
    BY <1>5, <1>7, PanesReach, WorkReaches
  <1>8. CASE UNCHANGED vars
    BY <1>5, <1>8 DEF vars, Delivery, At
  <1>9. QED
    BY <1>3, <1>6, <1>7, <1>8 DEF Next

LEMMA ReachedInitially == Init => Reached
  BY DEF Init, NoWork, Polling, Reached, Delivery, At, Before

(* An assignment that the tracker records as delivered has been taken up   *)
(* by the agent, whatever stalls, times out or is taken away meanwhile, as *)
(* long as no command fails, for a provider whose pane shows the text of a *)
(* paste: old output, staged text and the work of an earlier lease are     *)
(* never mistaken for it.  (For a provider that collapses pastes it does   *)
(* not hold.)                                                              *)
THEOREM DeliveredHasReached ==
  ASSUME ~ Collapses
  PROVE  Spec => []DeliveredReached
  <1>1. Init => Reached
    BY ReachedInitially
  <1>2. IInv /\ Reached /\ [Next]_vars => Reached'
    BY ReachedStep
  <1>3. IInv /\ Reached => DeliveredReached
    BY DEF Reached, Delivery, DeliveredReached
  <1>4. QED
    BY <1>1, <1>2, <1>3, Invariant, PTL DEF Spec
=============================================================================
