--------------------------- MODULE SupervisorSlot ---------------------------
(***************************************************************************)
(* One provider slot of a supervisor: how the daemon takes a leased node   *)
(* of a ticket from the tracker, hands the assignment to an agent in a     *)
(* Herdr pane, watches the agent and its lease, and lets go of both.       *)
(*                                                                         *)
(* The supervisor is a sequential program; every request it awaits is a    *)
(* step, named by sup.pc.  Between its steps the agent works and calls     *)
(* back, the tracker takes the lease away, operators send guidance and     *)
(* request interruptions, and the pane or the supervisor may die.          *)
(*                                                                         *)
(* The tracker is here as far as this slot can tell: the execution of one  *)
(* ticket that this supervisor owns (TicketLease is the whole of it).  The *)
(* pane and the agent are external: what Herdr reports and what the agent  *)
(* does with its composer are nondeterministic.  A lease is a number.      *)
(* Telemetry, traces and evidence are best effort and left out.            *)
(***************************************************************************)
EXTENDS Integers, FiniteSets

CONSTANTS
    MaxLeases,    \* bound: leases granted to this supervisor
    MaxGuidance,  \* bound: messages an operator sends under one lease
    MaxFaults,    \* bound: failed or unanswered requests, crashes, dead panes
    Collapses     \* the provider shows a paste as a token without its text

Leases == 1..MaxLeases

ASSUME BoundAssumption == /\ MaxLeases \in Nat /\ MaxGuidance \in Nat
                          /\ MaxFaults \in Nat /\ Collapses \in BOOLEAN

VARIABLES
    work,    \* the tracker's execution of the ticket
    issued,  \* the last lease granted
    pane,    \* the Herdr pane and the agent in it
    sup,     \* the supervisor's slot
    pasted,  \* how often the assignment of a lease was pasted
    taken,   \* the leases whose assignment the agent has taken up
    faults   \* requests failed, and delivery failures that went unreported

vars == <<work, issued, pane, sup, pasted, taken, faults>>

Work == [lease : {0} \cup Leases, delivery : {"starting", "delivered"},
         interrupt : BOOLEAN, asking : BOOLEAN, guidance : 0..MaxGuidance]

Pane == [up : BOOLEAN,
         composer : SUBSET Leases,     \* assignments staged, not submitted
         task : {0} \cup Leases,       \* the assignment being worked on
         seen : SUBSET Leases,         \* assignments visible in the pane
         heard : 0..MaxGuidance]       \* guidance of the current lease heard

Steps == {"poll", "ensure", "beat", "resume", "check", "paste", "recover",
          "confirm", "watch", "observe", "guide", "deliver", "heartbeat",
          "remind", "settle", "halt", "ack", "reject", "down"}

Slot == [pc : Steps, lease : {0} \cup Leases,
         pending : BOOLEAN,            \* the claim's delivery_status = starting
         interrupt : BOOLEAN,          \* the claim's interrupt_request
         delivered : BOOLEAN,          \* assignmentDelivered
         idle : BOOLEAN,               \* the agent was settled before the paste
         asking : BOOLEAN,             \* control.waitingForAnswer
         cursor : 0..MaxGuidance, batch : 0..MaxGuidance,
         reminded : BOOLEAN,
         local : SUBSET Leases]        \* locallyDeliveredLeases

NoWork == [lease |-> 0, delivery |-> "starting", interrupt |-> FALSE,
           asking |-> FALSE, guidance |-> 0]

Polling == [pc |-> "poll", lease |-> 0, pending |-> FALSE, interrupt |-> FALSE,
            delivered |-> FALSE, idle |-> FALSE, asking |-> FALSE, cursor |-> 0,
            batch |-> 0, reminded |-> FALSE, local |-> {}]

Init == /\ work = NoWork /\ issued = 0
        /\ pane = [up |-> FALSE, composer |-> {}, task |-> 0, seen |-> {}, heard |-> 0]
        /\ sup = Polling
        /\ pasted = [l \in Leases |-> 0] /\ taken = {}
        /\ faults = [all |-> 0, unreported |-> 0]

At(pc) == sup.pc = pc
Go(pc) == sup' = [sup EXCEPT !.pc = pc]
Live == work.lease = sup.lease      \* else the tracker answers 409
MayFail == faults.all < MaxFaults
Faulty == MayFail /\ faults' = [faults EXCEPT !.all = @ + 1]

PaneOnly == UNCHANGED <<work, issued, pasted, taken, faults>>
SlotOnly == PaneOnly /\ UNCHANGED pane
TrackerOnly == UNCHANGED <<issued, pane, pasted, taken, faults>>

(* An error leaves runAssignment: before delivery by the rejection of it.  *)
Fail(s) == [s EXCEPT !.pc = IF s.delivered THEN "poll" ELSE "reject"]

-----------------------------------------------------------------------------
(***************************************************************************)
(* The slot: an active execution is resumed, otherwise work is claimed.    *)
(***************************************************************************)
Enter(s, w, delivered, cursor) ==
    [s EXCEPT !.pc = "ensure", !.lease = w.lease, !.pending = w.delivery = "starting",
              !.interrupt = w.interrupt, !.cursor = cursor, !.batch = 0,
              !.reminded = FALSE, !.delivered = delivered]

(* Faults: the ledger of delivered leases is not consulted; guidance is    *)
(* taken to start after the messages that are already there.               *)
BeginForgetful(s, w) == Enter(s, w, w.delivery = "delivered", 0)
BeginCaughtUp(s, w) == Enter(s, w, w.delivery = "delivered" \/ w.lease \in s.local,
                             w.guidance + 1)

Begin(s, w) == Enter(s, w, w.delivery = "delivered" \/ w.lease \in s.local, 0)

Resume == /\ At("poll") /\ work.lease # 0
          /\ sup' = Begin(sup, work)
          /\ SlotOnly

Claimed == [NoWork EXCEPT !.lease = issued + 1]

Claim == /\ At("poll") /\ work.lease = 0 /\ issued < MaxLeases
         /\ issued' = issued + 1 /\ work' = Claimed
         /\ pane' = [pane EXCEPT !.heard = 0]
         /\ \/ sup' = Begin(sup, Claimed) /\ UNCHANGED faults
            \/ Faulty /\ UNCHANGED sup
         /\ UNCHANGED <<pasted, taken>>

(* ensureAgent: the pane's agent is observed, or started again.            *)
EnsureAgent ==
    /\ At("ensure")
    /\ pane' = IF pane.up THEN pane
               ELSE [pane EXCEPT !.up = TRUE, !.composer = {}, !.task = 0, !.seen = {},
                                 !.heard = 0]
    /\ sup' = [sup EXCEPT !.pc = "beat", !.idle = ~pane.up \/ pane.task = 0]
    /\ PaneOnly

FirstHeartbeat == /\ At("beat")
                  /\ sup' = IF Live THEN [sup EXCEPT !.pc = "resume"] ELSE Fail(sup)
                  /\ SlotOnly

Delivered == [work EXCEPT !.delivery = "delivered"]

(* Delivered in this process, and the tracker does not know it yet.        *)
ConfirmAgain ==
    /\ At("resume")
    /\ LET again == sup.delivered /\ sup.pending
       IN  /\ sup' = [sup EXCEPT !.pc = "check",
                                 !.local = IF again THEN @ \ {sup.lease} ELSE @]
           /\ work' = IF again /\ Live THEN Delivered ELSE work
    /\ TrackerOnly

Check == /\ At("check")
         /\ Go(IF sup.interrupt THEN "halt"
               ELSE IF sup.delivered THEN "watch" ELSE "paste")
         /\ SlotOnly

-----------------------------------------------------------------------------
(***************************************************************************)
(* Delivery of the assignment.                                             *)
(***************************************************************************)
Submit(p, l) == [p EXCEPT !.composer = {}, !.task = l, !.seen = @ \cup {l}]

(* agent prompt --wait: the agent starts, or Herdr reports a stall or a    *)
(* timeout: the text is staged, the agent is at work on it, or it is lost. *)
Paste ==
    LET l == sup.lease
        staged == [pane EXCEPT !.composer = @ \cup {l}, !.seen = @ \cup {l}]
    IN  /\ At("paste") /\ pane.up
        /\ pasted' = [pasted EXCEPT ![l] = @ + 1]
        /\ \/ /\ pane' = Submit(pane, l) /\ taken' = taken \cup {l}
              /\ sup' = [sup EXCEPT !.pc = "confirm", !.delivered = TRUE,
                                    !.local = @ \cup {l}]
              /\ UNCHANGED faults
           \/ /\ \/ pane' = Submit(pane, l) /\ taken' = taken \cup {l}
                 \/ pane' \in {staged, pane} /\ UNCHANGED taken
              /\ \/ Go("recover") /\ UNCHANGED faults
                 \/ Faulty /\ sup' = Fail(sup)
        /\ UNCHANGED <<work, issued>>

(* The assignment's path, or for a collapsing provider any paste token.    *)
Evidence == IF Collapses THEN pane.seen # {} ELSE sup.lease \in pane.seen

Recovered(p, t) == /\ pane' = p /\ taken' = t
                   /\ sup' = [sup EXCEPT !.pc = "confirm", !.delivered = TRUE,
                                         !.local = @ \cup {sup.lease}]

(* Fault: any activity counts, whatever the agent did before the paste.    *)
RecoverByActivity ==
    /\ At("recover") /\ pane.up
    /\ \/ pane.task # 0 /\ Recovered(pane, taken)
       \/ /\ pane.task = 0 /\ pane.composer = {}
          /\ pane' = pane /\ sup' = Fail(sup) /\ UNCHANGED taken
    /\ UNCHANGED <<work, issued, pasted, faults>>

(* Activity of a settled agent, Enter on staged text, or the window ends   *)
(* and Ctrl+C clears the composer and stops the agent.                     *)
Recover ==
    LET l == sup.lease
        entered == IF pane.composer = {} THEN pane ELSE Submit(pane, l)
        cleared == [pane EXCEPT !.composer = {}, !.task = 0]
    IN  /\ At("recover") /\ pane.up
        /\ \/ sup.idle /\ pane.task # 0 /\ Recovered(pane, taken)
           \/ /\ ~(sup.idle /\ pane.task # 0) /\ Evidence
              /\ Recovered(entered, taken \cup pane.composer)
           \/ /\ ~(sup.idle /\ pane.task # 0) /\ ~Evidence
              /\ pane' = cleared /\ sup' = Fail(sup) /\ UNCHANGED taken
        /\ UNCHANGED <<work, issued, pasted, faults>>

Confirm == /\ At("confirm")
           /\ work' = IF Live THEN Delivered ELSE work
           /\ sup' = [sup EXCEPT !.pc = "watch", !.local = @ \ {sup.lease}]
           /\ TrackerOnly

Reject == /\ At("reject")
          /\ LET accepted == Live /\ work.delivery = "starting"
             IN  /\ work' = IF accepted THEN NoWork ELSE work
                 /\ sup' = [sup EXCEPT !.pc = "poll",
                                       !.local = IF accepted THEN @ \ {sup.lease} ELSE @]
          /\ TrackerOnly

-----------------------------------------------------------------------------
(***************************************************************************)
(* The watch over an agent that has its assignment.                        *)
(***************************************************************************)
(* Fault: an interruption is not looked for while a question is open.      *)
ControlBusy ==
    /\ At("watch")
    /\ sup' = [sup EXCEPT !.pc = IF ~Live THEN "settle"
                                 ELSE IF work.interrupt /\ ~work.asking THEN "halt"
                                 ELSE "observe",
                          !.asking = Live /\ work.asking]
    /\ SlotOnly

Control == /\ At("watch")
           /\ sup' = [sup EXCEPT !.pc = IF ~Live THEN "settle"
                                        ELSE IF work.interrupt THEN "halt" ELSE "observe",
                                 !.asking = Live /\ work.asking]
           /\ SlotOnly

(* An agent that has disappeared is left to the loop, which restores it.   *)
Observe == At("observe") /\ Go(IF pane.up THEN "guide" ELSE "poll") /\ SlotOnly

ReadGuidance == /\ At("guide")
                /\ sup' = [sup EXCEPT !.pc = IF Live THEN "deliver" ELSE "settle",
                                      !.batch = IF Live THEN work.guidance ELSE @]
                /\ SlotOnly

(* Each message is preceded by a reading of the assignment, which throws   *)
(* when the lease has gone.                                                *)
DeliverGuidance ==
    /\ At("deliver")
    /\ \/ sup.cursor >= sup.batch /\ Go("heartbeat") /\ UNCHANGED pane
       \/ /\ sup.cursor < sup.batch /\ Live /\ pane.up
          /\ pane' = [pane EXCEPT !.heard = IF @ > sup.cursor THEN @ ELSE sup.cursor + 1,
                                  !.task = sup.lease]
          /\ sup' = [sup EXCEPT !.cursor = @ + 1]
       \/ /\ sup.cursor < sup.batch /\ ~(Live /\ pane.up)
          /\ sup' = Fail(sup) /\ UNCHANGED pane
    /\ PaneOnly

(* Due after guidance or an interval.                                      *)
Heartbeat == /\ At("heartbeat")
             /\ \/ Go(IF Live THEN "remind" ELSE "settle")
                \/ sup.batch = 0 /\ Go("remind")
             /\ SlotOnly

Remind ==
    LET due == ~sup.asking /\ ~sup.reminded /\ pane.up /\ pane.task = 0
    IN  /\ At("remind")
        /\ \/ Go("watch") /\ UNCHANGED pane
           \/ /\ due
              /\ pane' = [pane EXCEPT !.task = sup.lease]
              /\ sup' = [sup EXCEPT !.pc = "watch", !.reminded = TRUE]
        /\ PaneOnly

Stopped == [pane EXCEPT !.composer = {}, !.task = 0]

(* The lease is gone: the agent's turn is ended, as far as it can be.      *)
SettleAgent == /\ At("settle")
               /\ sup' = [sup EXCEPT !.pc = "poll", !.local = @ \ {sup.lease}]
               /\ pane' = IF pane.up THEN Stopped ELSE pane
               /\ PaneOnly

(* Fault: the interruption is reported whether or not the agent stopped.   *)
HaltUnchecked == /\ At("halt")
                 /\ pane' \in {pane, Stopped}
                 /\ Go("ack") /\ PaneOnly

Halt == /\ At("halt")
        /\ IF pane.up THEN pane' = Stopped /\ Go("ack")
                      ELSE sup' = Fail(sup) /\ UNCHANGED pane
        /\ PaneOnly

Acknowledge ==
    /\ At("ack")
    /\ LET accepted == Live /\ work.interrupt
       IN  /\ work' = IF accepted THEN NoWork ELSE work
           /\ sup' = IF accepted THEN [sup EXCEPT !.pc = "poll"] ELSE Fail(sup)
    /\ TrackerOnly

-----------------------------------------------------------------------------
(***************************************************************************)
(* Faults: a request or a Herdr command fails, or is carried out and the   *)
(* answer is lost; the supervisor or the pane dies.                        *)
(***************************************************************************)
Unreported(pc) == IF pc = "reject" THEN faults.unreported + 1 ELSE faults.unreported

RequestFails ==
    /\ sup.pc \notin {"poll", "down", "check", "paste"} /\ MayFail
    /\ sup' = IF sup.pc \in {"reject", "settle"} THEN [sup EXCEPT !.pc = "poll"]
              ELSE Fail(sup)
    /\ faults' = [all |-> faults.all + 1, unreported |-> Unreported(sup.pc)]
    /\ UNCHANGED <<work, issued, pane, pasted, taken>>

ReplyLost ==
    /\ \/ At("confirm") /\ Live /\ work' = Delivered
       \/ At("resume") /\ sup.delivered /\ sup.pending /\ Live /\ work' = Delivered
       \/ At("ack") /\ Live /\ work.interrupt /\ work' = NoWork
       \/ At("reject") /\ Live /\ work.delivery = "starting" /\ work' = NoWork
    /\ sup' = IF At("reject") THEN [sup EXCEPT !.pc = "poll"] ELSE Fail(sup)
    /\ Faulty
    /\ UNCHANGED <<issued, pane, pasted, taken>>

Crash == /\ ~At("down") /\ MayFail
         /\ sup' = [Polling EXCEPT !.pc = "down"]
         /\ faults' = [all |-> faults.all + 1, unreported |-> faults.unreported + 1]
         /\ UNCHANGED <<work, issued, pane, pasted, taken>>

Restart == At("down") /\ Go("poll") /\ SlotOnly

AgentDies == /\ pane.up /\ Faulty
             /\ pane' = [pane EXCEPT !.up = FALSE, !.composer = {}, !.task = 0]
             /\ UNCHANGED <<work, issued, sup, pasted, taken>>

-----------------------------------------------------------------------------
(***************************************************************************)
(* The agent, the operator and the tracker.                                *)
(***************************************************************************)
(* Late: Herdr's window is over when the agent takes up the staged text.   *)
TakeUp == /\ pane.up /\ pane.composer # {}
          /\ pane' = Submit(pane, CHOOSE l \in pane.composer :
                                    \A k \in pane.composer : k <= l)
          /\ taken' = taken \cup pane.composer
          /\ UNCHANGED <<work, issued, sup, pasted, faults>>

EndTurn == /\ pane.task # 0 /\ pane' = [pane EXCEPT !.task = 0]
           /\ UNCHANGED sup /\ PaneOnly

Scroll == /\ pane.seen # pane.composer /\ pane' = [pane EXCEPT !.seen = pane.composer]
          /\ UNCHANGED sup /\ PaneOnly

(* A terminal callback, accepted: the agent may go on with its turn.       *)
CallBack == /\ pane.task # 0 /\ pane.task = work.lease
            /\ ~work.interrupt /\ ~work.asking
            /\ work' = NoWork /\ UNCHANGED sup /\ TrackerOnly

Ask == /\ pane.task # 0 /\ pane.task = work.lease
       /\ ~work.interrupt /\ ~work.asking
       /\ work' = [work EXCEPT !.asking = TRUE] /\ UNCHANGED sup /\ TrackerOnly

Operate == /\ work.lease # 0
           /\ \/ work.asking /\ work' = [work EXCEPT !.asking = FALSE]
              \/ ~work.interrupt /\ work' = [work EXCEPT !.interrupt = TRUE]
              \/ /\ work.guidance < MaxGuidance
                 /\ work' = [work EXCEPT !.guidance = @ + 1]
           /\ UNCHANGED sup /\ TrackerOnly

(* Expiry, or a fencing edit of the ticket file.                           *)
LoseLease == work.lease # 0 /\ work' = NoWork /\ UNCHANGED sup /\ TrackerOnly

-----------------------------------------------------------------------------
Slots == \/ Resume \/ Claim \/ EnsureAgent \/ FirstHeartbeat \/ ConfirmAgain \/ Check
         \/ Paste \/ Recover \/ Confirm \/ Reject
         \/ Control \/ Observe \/ ReadGuidance \/ DeliverGuidance \/ Heartbeat
         \/ Remind \/ SettleAgent \/ Halt \/ Acknowledge \/ Restart
         \/ (At("paste") /\ ~pane.up /\ sup' = Fail(sup) /\ SlotOnly)
         \/ (At("recover") /\ ~pane.up /\ sup' = Fail(sup) /\ SlotOnly)

Next == \/ Slots
        \/ RequestFails \/ ReplyLost \/ Crash \/ AgentDies
        \/ TakeUp \/ EndTurn \/ Scroll \/ CallBack \/ Ask \/ Operate \/ LoseLease

(* The daemon runs, and is started again after a crash.                    *)
Spec == Init /\ [][Next]_vars /\ WF_vars(Slots)

TypeOK == /\ work \in Work /\ issued \in 0..MaxLeases
          /\ pane \in Pane /\ sup \in Slot
          /\ pasted \in [Leases -> 0..(MaxFaults + 1)] /\ taken \subseteq Leases
          /\ faults \in [all : 0..MaxFaults, unreported : 0..MaxFaults]

-----------------------------------------------------------------------------
(***************************************************************************)
(* Properties.                                                             *)
(***************************************************************************)

(* The assignment is pasted once per lease (v3.md:100), unless the daemon  *)
(* died or its report of a failed delivery did: an ambiguous paste, a lost *)
(* confirmation or an interrupted watch never lead to another one.         *)
PastedOnce == TypeOK /\ \A l \in Leases : pasted[l] <= 1 + faults.unreported

(* An assignment the tracker records as delivered has reached the agent:   *)
(* no stall, timeout, old output or work of an earlier lease is taken for  *)
(* the delivery of this one.  (A command of Herdr that fails, or a crash   *)
(* before the composer is cleared, may leave an assignment behind that the *)
(* agent takes up at the time of the next.)                                *)
DeliveredReached == work.lease # 0 /\ work.delivery = "delivered" /\ faults.all = 0
                    => work.lease \in taken

(* An interruption is acknowledged only after the agent has been stopped.  *)
(* The tracker then gives the ticket's repositories to other work.         *)
AcknowledgedStopped ==
    [][work.interrupt /\ work'.lease # work.lease /\ At("ack") /\ ~LoseLease
         => pane.task # work.lease /\ work.lease \notin pane.composer]_vars

(* A requested interruption is carried out, or the lease ends otherwise,   *)
(* whatever the supervisor is busy with when it comes.                     *)
InterruptServed == \A l \in Leases :
    (work.lease = l /\ work.interrupt) ~> work.lease # l

(* Guidance an operator sends reaches the agent, or the lease ends: also   *)
(* across faults, restarts of the daemon and restored panes.               *)
GuidanceHeard == \A l \in Leases : \A g \in 1..MaxGuidance :
    (work.lease = l /\ work.guidance >= g) ~> (work.lease # l \/ pane.heard >= g)
=============================================================================
