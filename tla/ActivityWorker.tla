--------------------------- MODULE ActivityWorker ---------------------------
(***************************************************************************)
(* The activity loop of a supervisor: scripts, checkpoints and restores of *)
(* one ticket.  The loop claims a node, starts the activity, polls the     *)
(* lease while it runs, then uploads its bundles and reports its result.   *)
(* Unlike an assignment an activity is never resumed: whatever stops the   *)
(* loop leaves the lease to expire, and the node is claimed again.         *)
(*                                                                         *)
(* The activity is modelled by what it does to the ticket's repositories:  *)
(* a checkpoint reads their trees; a restore reads them, replaces them one *)
(* by one and puts them back if one fails; a script writes what it likes.  *)
(* A script is a process of its own, which execFile kills but does not     *)
(* wait for, and which survives the supervisor.  The tracker is here as    *)
(* far as the loop can tell (TicketLease is the whole of it).              *)
(***************************************************************************)
EXTENDS Integers, Sequences, FiniteSets, SequencesExt

CONSTANTS
    Repos,           \* the repositories of the ticket
    MaxLeases,       \* bound: leases granted
    MaxCheckpoints,  \* checkpoints a ticket may hold (200 in the code)
    MaxFaults        \* bound: failed requests and crashes

ASSUME WorkerBoundAssumption ==
    /\ MaxLeases \in Nat /\ MaxCheckpoints \in Nat \ {0}
    /\ MaxFaults \in Nat /\ IsFiniteSet(Repos)

VARIABLES
    tracked, \* what the tracker holds of the ticket
    issued,  \* the last lease granted
    loop,    \* the activity loop
    child,   \* the activity it has started
    tree,    \* the working tree of each repository
    stray,   \* a script's process outlives the activity it belonged to
    faults

vars == <<tracked, issued, loop, child, tree, stray, faults>>

Kinds == {"script", "checkpoint", "restore_checkpoint"}
Versions == {"v1", "v2"}
Contents == Versions \cup {"cleaned"}   \* untracked files are gone
Trees == [Repos -> Contents]

Ticket == [node : Kinds, lease : 0..MaxLeases, interrupt : BOOLEAN,
           bundles : SUBSET Repos,      \* uploaded under the lease
           checkpoints : BoundedSeq(Trees, MaxCheckpoints)]

Loop == [pc : {"idle", "fetch", "watch", "abandon", "stop", "ack", "final",
               "upload", "record", "report", "down"}, lease : 0..MaxLeases]

Child == [phase : {"none", "run", "capture", "apply", "undo", "done"},
          kind : Kinds, ok : BOOLEAN, aborted : BOOLEAN,
          sound : BOOLEAN,              \* no stray script, no failed compensation
          goal : Trees, saved : Trees,  \* the trees restored, the trees captured
          left : SUBSET Repos]          \* repositories still to do

Fresh == [r \in Repos |-> "v1"]
NoChild == [phase |-> "none", kind |-> "script", ok |-> FALSE, aborted |-> FALSE,
            sound |-> TRUE, goal |-> Fresh, saved |-> Fresh, left |-> {}]

WorkerInit ==
    /\ tracked \in [node : Kinds, lease : {0}, interrupt : {FALSE},
                    bundles : {{}}, checkpoints : {<<>>}]
    /\ issued = 0 /\ loop = [pc |-> "idle", lease |-> 0]
    /\ child = NoChild /\ tree = Fresh /\ stray = FALSE /\ faults = 0

At(pc) == loop.pc = pc
Go(pc) == loop' = [loop EXCEPT !.pc = pc]
Live == tracked.lease = loop.lease
Released(node) == [tracked EXCEPT !.lease = 0, !.interrupt = FALSE,
                                  !.bundles = {}, !.node = node]

(* The finally clause: abort, await the activity, remove its directory.    *)
Leave == Go("abandon")

Finished == child.phase = "done"

-----------------------------------------------------------------------------
(***************************************************************************)
(* The loop.                                                               *)
(***************************************************************************)
Claim == /\ At("idle") /\ tracked.lease = 0 /\ issued < MaxLeases
         /\ issued' = issued + 1
         /\ tracked' = [tracked EXCEPT !.lease = issued + 1]
         /\ loop' = [pc |-> "fetch", lease |-> issued + 1]
         /\ UNCHANGED <<child, tree, stray, faults>>

(* The bundles of the checkpoint to restore have been downloaded.          *)
Start ==
    LET held == tracked.checkpoints
    IN  /\ At("fetch") /\ Go("watch")
        /\ child' = [NoChild EXCEPT
               !.kind = tracked.node, !.left = Repos, !.sound = ~stray, !.saved = tree,
               !.goal = IF held = <<>> THEN Fresh ELSE Last(held),
               !.phase = CASE tracked.node = "script" -> "run"
                           [] tracked.node = "restore_checkpoint" /\ held = <<>> -> "done"
                           [] OTHER -> "capture"]
        /\ UNCHANGED <<tracked, issued, tree, stray, faults>>

(* One turn of the poll: the lease, an interruption, the activity's end.   *)
Watch == /\ At("watch")
         /\ IF Finished THEN Go("final") /\ UNCHANGED child
            ELSE /\ ~Live \/ tracked.interrupt
                 /\ Go(IF Live THEN "stop" ELSE "abandon")
                 /\ child' = [child EXCEPT !.aborted = TRUE]
         /\ UNCHANGED <<tracked, issued, tree, stray, faults>>

Stopped == /\ At("stop") /\ Finished /\ Go("ack")
           /\ UNCHANGED <<tracked, issued, child, tree, stray, faults>>

Acknowledge ==
    /\ At("ack") /\ Leave
    /\ \/ /\ Live /\ tracked.interrupt
          /\ \E node \in Kinds : tracked' = Released(node)
       \/ ~(Live /\ tracked.interrupt) /\ UNCHANGED tracked
    /\ UNCHANGED <<issued, child, tree, stray, faults>>

Final == /\ At("final")
         /\ IF ~Live THEN Leave
            ELSE Go(IF tracked.interrupt THEN "ack" ELSE "upload")
         /\ UNCHANGED <<tracked, issued, child, tree, stray, faults>>

Pending == IF child.ok /\ child.kind # "script" THEN Repos \ tracked.bundles ELSE {}

Upload == /\ At("upload")
          /\ IF Pending = {} THEN Go(IF child.ok /\ child.kind # "script"
                                     THEN "record" ELSE "report") /\ UNCHANGED tracked
             ELSE IF ~Live THEN Leave /\ UNCHANGED tracked
             ELSE /\ \E r \in Pending : tracked' = [tracked EXCEPT !.bundles = @ \cup {r}]
                  /\ UNCHANGED loop
          /\ UNCHANGED <<issued, child, tree, stray, faults>>

Recording(s) == [tracked EXCEPT !.checkpoints = Append(@, s)]

(* The tracker's handler of a result: first the checkpoint is recorded, in *)
(* a command of its own, then the outcome.                                 *)
Record == /\ At("record")
          /\ IF Live /\ ~tracked.interrupt /\ Len(tracked.checkpoints) < MaxCheckpoints
             THEN tracked' = Recording(child.saved) /\ Go("report")
             ELSE UNCHANGED tracked /\ Leave
          /\ UNCHANGED <<issued, child, tree, stray, faults>>

Report == /\ At("report") /\ Leave
          /\ \/ /\ Live /\ ~tracked.interrupt
                /\ \E node \in Kinds : tracked' = Released(node)
             \/ ~(Live /\ ~tracked.interrupt) /\ UNCHANGED tracked
          /\ UNCHANGED <<issued, child, tree, stray, faults>>

Abort == /\ At("abandon") /\ ~Finished /\ ~child.aborted
         /\ child' = [child EXCEPT !.aborted = TRUE]
         /\ UNCHANGED <<tracked, issued, loop, tree, stray, faults>>

Forget == /\ At("abandon") /\ Finished
          /\ Go("idle") /\ child' = NoChild
          /\ UNCHANGED <<tracked, issued, tree, stray, faults>>

-----------------------------------------------------------------------------
(***************************************************************************)
(* The activity.                                                           *)
(***************************************************************************)
Doing(phase) == child.phase = phase
End(ok) == [child EXCEPT !.phase = "done", !.ok = ok, !.left = {}]
Activity == UNCHANGED <<tracked, issued, loop, faults>>

ScriptWrites == /\ Doing("run")
                /\ \E r \in Repos, v \in Versions : tree' = [tree EXCEPT ![r] = v]
                /\ Activity /\ UNCHANGED <<child, stray>>

(* An abort settles the activity when the signal is sent.                  *)
ScriptEnds == /\ Doing("run")
              /\ \/ ~child.aborted /\ child' \in {End(TRUE), End(FALSE)} /\ UNCHANGED stray
                 \/ child.aborted /\ child' = End(FALSE) /\ stray' \in {stray, TRUE}
              /\ Activity /\ UNCHANGED tree

StrayWrites == /\ stray /\ \E r \in Repos, v \in Versions : tree' = [tree EXCEPT ![r] = v]
               /\ Activity /\ UNCHANGED <<child, stray>>

StrayEnds == stray /\ stray' = FALSE /\ Activity /\ UNCHANGED <<child, tree>>

Capture == /\ Doing("capture")
           /\ child' = IF child.aborted THEN End(FALSE)
                       ELSE IF child.kind = "checkpoint"
                       THEN [End(TRUE) EXCEPT !.saved = tree]
                       ELSE [child EXCEPT !.phase = "apply", !.saved = tree]
           /\ Activity /\ UNCHANGED <<tree, stray>>

CaptureFails == /\ Doing("capture") /\ child' = End(FALSE)
                /\ Activity /\ UNCHANGED <<tree, stray>>

(* git clean, then git read-tree; each may be interrupted or fail.         *)
Clean == /\ Doing("apply") /\ ~child.aborted
         /\ \E r \in child.left : tree' = [tree EXCEPT ![r] = "cleaned"]
         /\ Activity /\ UNCHANGED <<child, stray>>

Apply == /\ Doing("apply") /\ ~child.aborted
         /\ \E r \in child.left :
                /\ tree' = [tree EXCEPT ![r] = child.goal[r]]
                /\ child' = IF child.left = {r} THEN End(TRUE)
                            ELSE [child EXCEPT !.left = @ \ {r}]
         /\ Activity /\ UNCHANGED stray

(* Fault: only the repositories not yet restored are put back.             *)
ApplyFailsLeft == /\ Doing("apply")
                  /\ child' = [child EXCEPT !.phase = "undo"]
                  /\ Activity /\ UNCHANGED <<tree, stray>>

ApplyFails == /\ Doing("apply")
              /\ child' = [child EXCEPT !.phase = "undo", !.left = Repos]
              /\ Activity /\ UNCHANGED <<tree, stray>>

(* Compensation is best effort: an error is swallowed.                     *)
Undo == /\ Doing("undo")
        /\ \E r \in child.left, works \in BOOLEAN :
               /\ child' = [IF child.left = {r} THEN End(FALSE)
                            ELSE [child EXCEPT !.left = @ \ {r}]
                            EXCEPT !.sound = @ /\ works]
               /\ IF works
                  THEN tree' = [tree EXCEPT ![r] = child.saved[r]] /\ UNCHANGED faults
                  ELSE /\ faults < MaxFaults /\ faults' = faults + 1
                       /\ tree' \in {tree, [tree EXCEPT ![r] = "cleaned"]}
        /\ UNCHANGED <<tracked, issued, loop, stray>>

-----------------------------------------------------------------------------
(***************************************************************************)
(* Faults, the operator and the tracker's sweep.                           *)
(***************************************************************************)
(* A request fails, or its answer is lost: the error leaves the loop.      *)
RequestFails ==
    /\ loop.pc \in {"fetch", "watch", "ack", "final", "upload", "record", "report"}
    /\ faults < MaxFaults /\ faults' = faults + 1
    /\ Go(IF At("fetch") THEN "idle" ELSE "abandon")
    /\ \/ UNCHANGED tracked
       \/ At("ack") /\ Live /\ tracked.interrupt /\ tracked' = Released(tracked.node)
       \/ At("report") /\ Live /\ ~tracked.interrupt /\ tracked' = Released(tracked.node)
       \/ /\ At("record") /\ Live /\ ~tracked.interrupt
          /\ Len(tracked.checkpoints) < MaxCheckpoints /\ tracked' = Recording(child.saved)
    /\ UNCHANGED <<issued, child, tree, stray>>

(* Git runs under the supervisor and stops with it; a script may not.      *)
Crash == /\ ~At("down") /\ faults < MaxFaults /\ faults' = faults + 1
         /\ Go("down") /\ child' = NoChild
         /\ stray' \in IF Doing("run") THEN BOOLEAN ELSE {stray}
         /\ UNCHANGED <<tracked, issued, tree>>

Restart == /\ At("down") /\ Go("idle")
           /\ UNCHANGED <<tracked, issued, child, tree, stray, faults>>

Interrupt == /\ tracked.lease # 0 /\ ~tracked.interrupt
             /\ tracked' = [tracked EXCEPT !.interrupt = TRUE]
             /\ UNCHANGED <<issued, loop, child, tree, stray, faults>>

Lose == /\ tracked.lease # 0 /\ tracked' = Released(tracked.node)
        /\ UNCHANGED <<issued, loop, child, tree, stray, faults>>

(* Fault: a lease with a pending interruption is left to its supervisor.   *)
ExpireRunning == Lose /\ ~tracked.interrupt
                 /\ (loop.lease # tracked.lease \/ loop.pc \in {"idle", "down"})

(* A lease nobody renews expires.                                          *)
Expire == Lose /\ (loop.lease # tracked.lease \/ loop.pc \in {"idle", "down"})

Loops == \/ Claim \/ Start \/ Watch \/ Stopped \/ Acknowledge \/ Final \/ Upload
         \/ Record \/ Report \/ Abort \/ Forget \/ Restart
Works == \/ ScriptEnds \/ Capture \/ Apply \/ Undo
         \/ (child.aborted /\ (ApplyFails \/ CaptureFails))

WorkerNext ==
    \/ Loops \/ Works \/ ScriptWrites \/ StrayWrites \/ StrayEnds \/ CaptureFails
    \/ Clean \/ ApplyFails \/ RequestFails \/ Crash \/ Interrupt \/ Lose

(* The daemon runs and is started again; scripts end, at the latest by     *)
(* their timeout; the tracker's sweeper runs.                              *)
WorkerSpec == WorkerInit /\ [][WorkerNext]_vars
              /\ WF_vars(Loops) /\ WF_vars(Works) /\ WF_vars(Expire)

WorkerTypeOK ==
    /\ tracked \in Ticket /\ issued \in 0..MaxLeases /\ loop \in Loop
    /\ child \in Child /\ tree \in Trees /\ stray \in BOOLEAN
    /\ faults \in 0..MaxFaults

-----------------------------------------------------------------------------
(***************************************************************************)
(* Properties.                                                             *)
(***************************************************************************)

(* A restore that has ended has replaced every repository or none, unless  *)
(* its compensation failed as well or an old script still writes: aborts   *)
(* and errors at any point leave no ticket half restored.                  *)
RestoreAtomic ==
    /\ WorkerTypeOK
    /\ Finished /\ child.kind = "restore_checkpoint" /\ child.sound
         => tree = IF child.ok THEN child.goal ELSE child.saved

(* Every lease the loop takes ends: by its result, its interruption or its *)
(* loss, whatever fails, also for a result the tracker refuses.            *)
LeaseSettles == \A l \in 1..MaxLeases : tracked.lease = l ~> tracked.lease # l

(* workflow-and-prompt-authoring.md:873: "Before changing any repository   *)
(* it creates and uploads a pre_restore checkpoint".                       *)
SavedBeforeChanged == Doing("apply") /\ tree # child.saved /\ child.sound
                      => tracked.bundles = Repos

(* v3.md:186: the tracker waits "for the supervisor to stop Herdr or the   *)
(* Script child and acknowledge the fence".                                *)
StoppedBeforeAcknowledged == [][Acknowledge /\ tracked' # tracked => ~stray]_vars
=============================================================================
