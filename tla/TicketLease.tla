----------------------------- MODULE TicketLease -----------------------------
(***************************************************************************)
(* The tracker's ticket store and REST handlers as one state machine: the  *)
(* life of every ticket (status, current workflow node, owning supervisor) *)
(* and of the lease under which a supervisor executes the current node.    *)
(*                                                                         *)
(* The store runs every operation on one queue (TicketStore.serial), so a  *)
(* store operation is one step.  A request handler that makes several      *)
(* store calls (a terminal callback first reads the ticket by its lease,   *)
(* awaits the workflow library, and only then mutates) is several steps:   *)
(* "calls" holds the requests between their read and their mutation.       *)
(*                                                                         *)
(* Abstractions.  A lease is its number in the order of issue (the code    *)
(* draws a fresh UUID).  The passage of a lease's TTL is the action Lapse. *)
(* Priorities and creation times are left out: a claim may take any        *)
(* eligible ticket.  The pinned workflow is a graph of agent, activity     *)
(* (script and checkpoint), gate and terminal nodes in stages, some of     *)
(* which a ticket may skip, each to a stage that it may not; nodes the     *)
(* tracker settles itself, conditions on inputs, visit limits and child    *)
(* workflows belong to WorkflowEngine.  Of a person's edits of a ticket's  *)
(* file, those that change what an executing ticket stands at are here.    *)
(***************************************************************************)
EXTENDS Integers, FiniteSets

CONSTANTS
    Tickets, Supervisors,
    HostOf,        \* the hostname a supervisor reports with its presence
    ReposOf,       \* the repositories a ticket names
    Capable,       \* the work nodes a supervisor's providers and runtimes cover
    Nodes, Start, Kind,
    Succ,          \* the targets of a node's routes
    Feedback,      \* the GitHub feedback targets of a terminal node
    Stage,         \* the stage of a node
    Bypass,        \* where a skippable stage leads when a ticket disables it
    DefaultOff,    \* the stages a new revision disables by default
    NoTicket, NoSup, NoHost, NoNode,
    LossLimit,     \* consecutive losses that block a node: 3 in the code
    MaxMoves,      \* the workflow's max_transitions
    MaxLeases,     \* bound: leases ever issued
    MaxCalls,      \* bound: terminal callbacks in flight
    Commands       \* the operator commands the instance exercises

Terminal == {"completed", "failed", "cancelled"}
Work == {n \in Nodes : Kind[n] \in {"agent", "activity"}}
Leases == 1..MaxLeases
Stages == {Stage[n] : n \in Nodes}
Skippable == {s \in Stages : Bypass[s] # NoNode}

(* A host goes by a reported hostname or, for want of it, by the           *)
(* identifier of its supervisor.                                           *)
HostNames == {HostOf[s] : s \in Supervisors} \cup Supervisors

ASSUME SentinelAssumption == /\ NoTicket \notin Tickets
                             /\ NoSup \notin Supervisors
                             /\ NoHost \notin HostNames
                             /\ NoNode \notin Nodes

ASSUME GraphAssumption ==
    /\ Start \in Nodes
    /\ Kind \in [Nodes -> {"agent", "activity", "gate"} \cup Terminal]
    /\ Succ \in [Nodes -> SUBSET Nodes]
    /\ Feedback \in [Nodes -> SUBSET Nodes]
    /\ Bypass \in [Stages -> Nodes \cup {NoNode}]
    /\ \A s \in Skippable : Stage[Bypass[s]] \notin Skippable
    /\ DefaultOff \subseteq Skippable

ASSUME BoundAssumption == /\ LossLimit \in Nat \ {0}
                          /\ MaxMoves \in Nat \ {0}
                          /\ MaxLeases \in Nat
                          /\ MaxCalls \in Nat

VARIABLES
    ticket,   \* the stored frontmatter of every ticket
    run,      \* the node run each lease opened
    issued,   \* how many leases have been issued
    calls     \* terminal callbacks between their read and their mutation

vars == <<ticket, run, issued, calls>>

(***************************************************************************)
(* The stored records.                                                     *)
(***************************************************************************)
Status == {"pending", "ready", "running", "blocked", "waiting_approval"}
            \cup Terminal

Interrupts == {"none", "cost", "move", "cancelled", "failed"}

Execution == [lease : 0..MaxLeases, by : Supervisors \cup {NoSup},
              node : Nodes, delivery : {"starting", "delivered"},
              interrupt : Interrupts, to : Nodes, fresh : BOOLEAN,
              lapsed : BOOLEAN]

(* assigned_supervisor and assigned_supervisor_host, set and cleared       *)
(* together.                                                               *)
NoOwner == [sup |-> NoSup, host |-> NoHost]

Owners == {NoOwner} \cup [sup : Supervisors, host : HostNames]

NoExec == [lease |-> 0, by |-> NoSup, node |-> Start, delivery |-> "starting",
           interrupt |-> "none", to |-> Start, fresh |-> FALSE,
           lapsed |-> FALSE]

Frontmatter == [status : Status, node : Nodes, done : BOOLEAN,
                owner : Owners, exec : Execution,
                losses : [Nodes -> 0..LossLimit], moves : 0..(MaxMoves + 1),
                open : BOOLEAN, over : SUBSET Nodes,
                pause : Nodes \cup {NoNode}, archived : BOOLEAN,
                off : SUBSET Skippable, callback : 0..MaxLeases]

Outcomes == {"none", "open", "completed", "failed", "interrupted",
             "lease_lost", "delivery_failed", "erased"}

NodeRun == [ticket : Tickets \cup {NoTicket}, node : Nodes, outcome : Outcomes]

NoRun == [ticket |-> NoTicket, node |-> Start, outcome |-> "none"]

Call == [lease : Leases, kind : {"complete", "fail", "activity"}, node : Nodes]

Leased(t) == t.exec.lease # 0

(* supervisorReservationActive: the ticket holds its supervisor and its    *)
(* repositories.                                                           *)
Active(t) == t.status \notin {"completed", "cancelled"}

(* What normalizeTicket and validateSessionInvariant accept; a mutation    *)
(* that violates it is refused with 422 and changes nothing.               *)
Valid(t) == /\ IF t.done THEN t.status \in Terminal ELSE t.status # "completed"
            /\ t.status = "running" => Leased(t)
            /\ Leased(t) => t.owner.sup = t.exec.by
            /\ t.archived => t.done /\ t.status = "completed"

(***************************************************************************)
(* The workflow operations on a ticket.                                    *)
(***************************************************************************)
Saturate(k, cap) == IF k < cap THEN k + 1 ELSE cap

Projection(n) == CASE Kind[n] = "gate" -> "waiting_approval"
                   [] Kind[n] \in Terminal -> Kind[n]
                   [] OTHER -> "ready"

Bounded(t) == t.moves > MaxMoves

(* transition_count saturates one above the limit: no test tells larger    *)
(* values apart.                                                           *)
MoveTo(t, n) == [t EXCEPT !.node = n, !.moves = Saturate(@, MaxMoves + 1)]

Place(t) == IF Bounded(t)
              THEN [t EXCEPT !.status = "blocked"]
              ELSE [t EXCEPT !.status = Projection(t.node),
                             !.done = Kind[t.node] \in Terminal]

(* A node in a disabled stage is passed over, in a transition of its own.  *)
Enter(t) == IF Stage[t.node] \in t.off /\ ~Bounded(t)
              THEN Place(MoveTo(t, Bypass[Stage[t.node]]))
              ELSE Place(t)

Transition(t, n) == Enter(MoveTo(t, n))

NewTicket(off) ==
    [Enter([status |-> "pending", node |-> Start, done |-> FALSE,
            owner |-> NoOwner, exec |-> NoExec, losses |-> [n \in Nodes |-> 0],
            moves |-> 0, open |-> FALSE, over |-> {}, pause |-> NoNode,
            archived |-> FALSE, off |-> off, callback |-> 0])
     EXCEPT !.status = "pending"]

(* initializeWorkflow replaces the runtime: counters, attempt records, the *)
(* stage selections and the cost pause start over.  The new revision's     *)
(* ceilings are above the cost already spent.                              *)
Reinitialize(t) ==
    Enter([t EXCEPT !.node = Start, !.moves = 0, !.off = DefaultOff,
                    !.losses = [n \in Nodes |-> 0],
                    !.over = {}, !.pause = NoNode])

(* An operator's move within the workflow enables the stage it leads to.   *)
Relocate(t, n, fresh) ==
    Transition(IF fresh THEN Reinitialize(t)
                        ELSE [t EXCEPT !.off = @ \ {Stage[n]}], n)

(* Faults: the lease survives its loss; the third loss does not block.     *)
RequeueLeased(t) ==
    LET k == Saturate(t.losses[t.exec.node], LossLimit)
    IN  [t EXCEPT !.losses[t.exec.node] = k, !.status = "ready"]

RequeueForever(t) ==
    LET k == Saturate(t.losses[t.exec.node], LossLimit)
    IN  [t EXCEPT !.losses[t.exec.node] = k, !.exec = NoExec, !.status = "ready"]

Requeue(t) ==
    LET n == t.exec.node
        k == Saturate(t.losses[n], LossLimit)
    IN  [t EXCEPT !.losses[n] = k, !.exec = NoExec,
                  !.status = IF k = LossLimit THEN "blocked" ELSE "ready"]

-----------------------------------------------------------------------------
(***************************************************************************)
(* Lease expiry: expireLeasesInternal.                                     *)
(***************************************************************************)
Lapsed == {t \in Tickets : Leased(ticket[t]) /\ ticket[t].exec.lapsed}

(* Fault: the request's own status is stored, even when it names none.     *)
ExpireAsRequested(t) ==
    IF t.exec.interrupt = "none"
      THEN Requeue(t)
      ELSE [t EXCEPT !.status = t.exec.interrupt, !.exec = NoExec]

Expire(t) ==
    LET e == t.exec
        moved == IF e.interrupt = "move" /\ ~e.fresh
                   THEN Transition(t, e.to) ELSE t
    IN  IF e.interrupt = "none"
          THEN Requeue(t)
          ELSE [moved EXCEPT !.status = "blocked", !.exec = NoExec,
                             !.pause = IF e.interrupt = "cost" THEN e.to ELSE @]

(* mutateLoaded refuses what expiry makes of these, and the exception ends *)
(* the loop over the lapsed leases.                                        *)
Poisoned == {t \in Lapsed : ~Valid(Expire(ticket[t]))}

ExpireAll(S) == [t \in Tickets |-> IF t \in S THEN Expire(ticket[t])
                                              ELSE ticket[t]]

(* Fault: the run of a lease that was being interrupted stays open.        *)
CloseLostRuns(S) ==
    [l \in Leases |->
        IF /\ run[l].ticket \in S /\ ticket[run[l].ticket].exec.lease = l
           /\ ticket[run[l].ticket].exec.interrupt = "none"
          THEN [run[l] EXCEPT !.outcome = "lease_lost"]
          ELSE run[l]]

(* The runs of the expired leases are closed in the same mutation.         *)
CloseRuns(S) ==
    [l \in Leases |->
        IF run[l].ticket \in S /\ ticket[run[l].ticket].exec.lease = l
          THEN [run[l] EXCEPT !.outcome =
                  IF ticket[run[l].ticket].exec.interrupt = "none"
                    THEN "lease_lost" ELSE "interrupted"]
          ELSE run[l]]

(* Fault: the sweep leaves leases under interruption to their supervisors. *)
SweepUninterrupted ==
    LET S == {t \in Lapsed : ticket[t].exec.interrupt = "none"}
    IN  /\ S # {}
        /\ ticket' = ExpireAll(S)
        /\ run' = CloseRuns(S)
        /\ UNCHANGED <<issued, calls>>

(* A poisoned ticket stops the sweep: those before it have been expired.   *)
Sweep == \E S \in SUBSET (Lapsed \ Poisoned) :
            /\ Poisoned = {} => S = Lapsed
            /\ S # {}
            /\ ticket' = ExpireAll(S)
            /\ run' = CloseRuns(S)
            /\ UNCHANGED <<issued, calls>>

(* The tracker dies: requests in flight are gone, and a sweep cut short    *)
(* has expired only some of the lapsed leases.  Everything else is in the  *)
(* ticket files.                                                           *)
Crash == \E S \in SUBSET (Lapsed \ Poisoned) :
            /\ S # Lapsed \/ calls # {}
            /\ ticket' = ExpireAll(S)
            /\ run' = CloseRuns(S)
            /\ calls' = {}
            /\ UNCHANGED issued

Lapse(t) == /\ Leased(ticket[t]) /\ ~ticket[t].exec.lapsed
            /\ ticket' = [ticket EXCEPT ![t].exec.lapsed = TRUE]
            /\ UNCHANGED <<run, issued, calls>>

-----------------------------------------------------------------------------
(***************************************************************************)
(* Claims.  Both kinds expire the lapsed leases first (and fail when that  *)
(* fails), then look for work among the tickets T as the sweep left them.  *)
(***************************************************************************)
Reserved(T, s) == {t \in Tickets : T[t].owner.sup = s /\ Active(T[t])}

(* A supervisor with a reservation is offered only that ticket: the first  *)
(* in index order, should it have several.                                 *)
Pools(T, s) == IF Reserved(T, s) = {} THEN {Tickets}
                                      ELSE {{t} : t \in Reserved(T, s)}

Overlap(t, u) == ReposOf[t] \cap ReposOf[u] # {}

(* Faults: only running tickets conflict; approval waits do not.           *)
ConflictedRunning(T, t, h) ==
    \E u \in Tickets \ {t} : /\ T[u].status = "running"
                             /\ T[u].owner.host = h
                             /\ Overlap(t, u)

ConflictedUnlessWaiting(T, t, h) ==
    \E u \in Tickets \ {t} : /\ Active(T[u]) /\ T[u].status # "waiting_approval"
                             /\ T[u].owner.host = h
                             /\ Overlap(t, u)

(* Hosts are compared by the names the reservations were made under.       *)
Conflicted(T, t, h) ==
    \E u \in Tickets \ {t} : /\ Active(T[u])
                             /\ T[u].owner.host = h
                             /\ Overlap(t, u)

Candidates(T, s, h, pool) ==
    {t \in pool : /\ T[t].status = "ready"
                  /\ T[t].owner.sup \in {NoSup, s}
                  /\ T[t].owner.host \in {NoHost, h}
                  /\ ~Conflicted(T, t, h)
                  /\ T[t].owner.sup = NoSup =>
                       {n \in Work : Stage[n] \notin T[t].off} \subseteq Capable[s]}

(* The host a claim is made for, looked up before the claim has its turn   *)
(* in the store.  The registry is kept in memory: it does not know the     *)
(* supervisor between a restart of the tracker, or the supervisor's own    *)
(* farewell, and its next report of presence.                              *)
HostsNamed(s) == {HostOf[s], s}

Agent(t) == Kind[t.node] = "agent"

OverBudget(t) == Agent(t) /\ t.node \in t.over

CostPaused(t) == [t EXCEPT !.status = "blocked", !.pause = t.node]

Granted(t, s, h, l) ==
    [t EXCEPT !.owner = [sup |-> s, host |-> h], !.status = "running",
              !.exec = [NoExec EXCEPT !.lease = l, !.by = s, !.node = t.node,
                          !.delivery = IF Agent(t) THEN "starting"
                                                   ELSE "delivered"]]

Grant(T, t, s, h) ==
    /\ issued < MaxLeases
    /\ issued' = issued + 1
    /\ ticket' = [T EXCEPT ![t] = Granted(T[t], s, h, issued + 1)]
    /\ run' = [CloseRuns(Lapsed) EXCEPT ![issued + 1] =
                 [ticket |-> t, node |-> T[t].node, outcome |-> "open"]]
    /\ UNCHANGED calls

(* Candidates whose node is over its cost ceiling are paused on the way to *)
(* the match; with no match, all of them are.                              *)
Claim(s) ==
    LET T == ExpireAll(Lapsed)
        Pausing(P) == [t \in Tickets |-> IF t \in P THEN CostPaused(T[t])
                                                    ELSE T[t]]
    IN  /\ Poisoned = {}
        /\ \E pool \in Pools(T, s), h \in HostsNamed(s) :
          LET found == Candidates(T, s, h, pool)
              costly == {t \in found : OverBudget(T[t])}
          IN  \/ \E t \in found \ costly, P \in SUBSET costly :
                   /\ Agent(T[t]) /\ T[t].node \in Capable[s]
                   /\ Grant(Pausing(P), t, s, h)
              \/ /\ ticket' = Pausing(costly)
                 /\ run' = CloseRuns(Lapsed)
                 /\ UNCHANGED <<issued, calls>>

ClaimActivity(s) ==
    LET T == ExpireAll(Lapsed)
    IN  /\ Poisoned = {}
        /\ \E pool \in Pools(T, s), h \in HostsNamed(s) :
          \E t \in Candidates(T, s, h, pool) :
            /\ Kind[T[t].node] = "activity"
            /\ T[t].node \in Capable[s]
            /\ Grant(T, t, s, h)

-----------------------------------------------------------------------------
(***************************************************************************)
(* Requests made under a lease.  byLease refuses a lease that is no        *)
(* ticket's current execution.                                             *)
(***************************************************************************)
Holds(t, l) == l # 0 /\ ticket[t].exec.lease = l

Store(t, new) == Valid(new) /\ ticket' = [ticket EXCEPT ![t] = new]

Finish(l, outcome) == run' = [run EXCEPT ![l].outcome = outcome]

Heartbeat(t, l) ==
    /\ Holds(t, l)
    /\ ticket[t].exec.lapsed
    /\ ticket' = [ticket EXCEPT ![t].exec.lapsed = FALSE]
    /\ UNCHANGED <<run, issued, calls>>

(* Telemetry that puts the node's cumulative cost over its ceiling, with a *)
(* heartbeat (beat) or through the telemetry callback, which also accepts  *)
(* the late report of a settled run.                                       *)
Overspend(l, beat) ==
    LET t == run[l].ticket
        n == run[l].node
        e == ticket[t].exec
        live == Holds(t, l)
        asked == IF e.interrupt = "none"
                   THEN [e EXCEPT !.interrupt = "cost", !.to = n] ELSE e
        request == IF beat THEN [asked EXCEPT !.lapsed = FALSE] ELSE asked
    IN  /\ run[l].outcome \notin {"none", "erased"} /\ Kind[n] = "agent"
        /\ beat => live
        /\ ticket' = [ticket EXCEPT ![t] =
             [ticket[t] EXCEPT !.over = @ \cup {n},
                               !.exec = IF live THEN request ELSE e]]
        /\ UNCHANGED <<run, issued, calls>>

ConfirmDelivery(t, l) ==
    /\ Holds(t, l) /\ Kind[ticket[t].exec.node] = "agent"
    /\ ticket' = [ticket EXCEPT ![t].exec.delivery = "delivered"]
    /\ UNCHANGED <<run, issued, calls>>

RejectDelivery(t, l) ==
    /\ Holds(t, l) /\ Kind[ticket[t].exec.node] = "agent"
    /\ ticket[t].exec.delivery = "starting"
    /\ Store(t, Requeue(ticket[t]))
    /\ Finish(l, "delivery_failed")
    /\ UNCHANGED <<issued, calls>>

(* Only agents are given the helper that asks.                             *)
Ask(t, l) ==
    /\ Holds(t, l) /\ Kind[ticket[t].exec.node] = "agent"
    /\ ticket[t].exec.interrupt = "none"
    /\ Store(t, [ticket[t] EXCEPT !.open = TRUE, !.status = "blocked"])
    /\ UNCHANGED <<run, issued, calls>>

Interrupted(t) ==
    LET e == t.exec
    IN  CASE e.interrupt = "cost" ->
               [t EXCEPT !.status = "blocked", !.pause = e.to]
          [] e.interrupt = "move" -> Relocate(t, e.to, e.fresh)
          [] OTHER -> [t EXCEPT !.status = e.interrupt]

AcknowledgeInterrupt(t, l) ==
    /\ Holds(t, l)
    /\ ticket[t].exec.interrupt # "none"
    /\ Store(t, [Interrupted(ticket[t]) EXCEPT !.exec = NoExec])
    /\ Finish(l, "interrupted")
    /\ UNCHANGED <<issued, calls>>

(***************************************************************************)
(* A terminal callback: the read, the await, the mutation.                 *)
(***************************************************************************)
ReadCallback(t, l, kind) ==
    /\ Holds(t, l)
    /\ ticket[t].callback # l
    /\ Kind[ticket[t].node] = IF kind = "activity" THEN "activity" ELSE "agent"
    /\ kind = "activity" => ticket[t].exec.interrupt = "none"
    /\ Cardinality(calls) < MaxCalls
    /\ calls' = calls \cup {[lease |-> l, kind |-> kind, node |-> ticket[t].node]}
    /\ UNCHANGED <<ticket, run, issued>>

(* What the handler did not find in the ticket it read it takes from the   *)
(* request: a route of the node read, or for a failure no route at all.    *)
Settlements(c, t) ==
    LET base == [t EXCEPT !.losses[c.node] = 0, !.exec = NoExec,
                          !.callback = c.lease]
    IN  {Transition(base, n) : n \in Succ[c.node] \cap Succ[t.node]} \cup
        {new \in {[base EXCEPT !.status = "failed"]} : c.kind = "fail"}

(* Fault: the mutation trusts the interruption check made at the read.     *)
CommitInterrupted(c) ==
    LET t == run[c.lease].ticket
    IN  /\ c \in calls
        /\ Holds(t, c.lease)
        /\ c.kind # "activity" => ~ticket[t].open
        /\ \E new \in Settlements(c, ticket[t]) : Store(t, new)
        /\ Finish(c.lease, "completed")
        /\ calls' = calls \ {c}
        /\ UNCHANGED issued

CommitCallback(c) ==
    LET t == run[c.lease].ticket
    IN  /\ c \in calls
        /\ Holds(t, c.lease)
        /\ ticket[t].exec.interrupt = "none"
        /\ c.kind # "activity" => ~ticket[t].open
        /\ run[c.lease].outcome = "open"
        /\ \E new \in Settlements(c, ticket[t]) : Store(t, new)
        /\ \E outcome \in {"completed", "failed"} : Finish(c.lease, outcome)
        /\ calls' \in {calls, calls \ {c}}
        /\ UNCHANGED issued

(* Refused with 409 or 422, or lost with its connection.                   *)
DropCallback(c) == /\ c \in calls
                   /\ calls' = calls \ {c}
                   /\ UNCHANGED <<ticket, run, issued>>

-----------------------------------------------------------------------------
(***************************************************************************)
(* Operator commands.  The client sends the revision it read, so a command *)
(* acts on the ticket the operator saw or is refused: one step.            *)
(***************************************************************************)
Command(t, name, guard, new) == /\ name \in Commands
                                /\ guard
                                /\ Store(t, new)
                                /\ UNCHANGED <<run, issued, calls>>

Idle(t) == ~Leased(ticket[t])

(* A reopening brings a completed or cancelled ticket back to work.        *)
Reopens(t) == ~Active(ticket[t])

Ready(t) == Command(t, "ready", ticket[t].status = "pending", Enter(ticket[t]))

ReturnToDraft(t) ==
    Command(t, "draft", ticket[t].status = "ready" /\ Idle(t),
            [ticket[t] EXCEPT !.status = "pending"])

(* The decision of the operator, or the feedback outcome of a watched gate.*)
Decide(t) ==
    \E n \in Succ[ticket[t].node] :
        Command(t, "decide", /\ Kind[ticket[t].node] = "gate"
                             /\ ticket[t].status = "waiting_approval",
                Transition(ticket[t], n))

(* Fault: the ticket goes back to the queue, whatever its node.            *)
RetryReady(t) ==
    LET old == ticket[t]
    IN  Command(t, "retry", /\ old.status \in {"failed", "blocked"}
                            /\ Idle(t) /\ ~old.done /\ ~old.open
                            /\ old.pause # old.node
                            /\ ~Bounded(old),
                [old EXCEPT !.losses[old.node] = 0, !.status = "ready"])

Retry(t) ==
    LET old == ticket[t]
    IN  Command(t, "retry", /\ old.status \in {"failed", "blocked"}
                            /\ Idle(t) /\ ~old.done /\ ~old.open
                            /\ old.pause # old.node
                            /\ ~Bounded(old),
                Enter([old EXCEPT !.losses[old.node] = 0]))

Released(t) ==
    LET freed == [t EXCEPT !.owner = NoOwner]
    IN  IF t.status \in {"failed", "blocked"} /\ ~t.done /\ ~Bounded(t) /\ ~t.open
          THEN [freed EXCEPT !.status = "ready", !.losses[t.node] = 0]
          ELSE freed

ReleaseSupervisor(t) ==
    Command(t, "release",
            ticket[t].owner # NoOwner /\ Idle(t) /\ Active(ticket[t]),
            Released(ticket[t]))

(* cancel and fail: at once when nothing runs, else by interruption.       *)
Terminate(t, how) ==
    Command(t, how, /\ ticket[t].exec.interrupt = "none"
                    /\ Reopens(t) /\ how = "failed" => "reopen" \in Commands,
            IF Idle(t) THEN [ticket[t] EXCEPT !.status = how]
                       ELSE [ticket[t] EXCEPT !.exec.interrupt = how])

Migratable == {"pending", "blocked", "waiting_approval", "failed",
               "completed", "cancelled"}

(* At once when nothing runs, else by interruption.                        *)
Redirect(t, n, fresh) ==
    IF Idle(t)
      THEN [Relocate(ticket[t], n, fresh) EXCEPT !.archived = FALSE]
      ELSE [ticket[t] EXCEPT !.exec.interrupt = "move", !.exec.to = n,
                             !.exec.fresh = fresh]

(* Faults: the node moves under the live lease; any node may be a target.  *)
MigrateAtOnce(t, n, fresh) ==
    Command(t, "migrate", Kind[n] \notin Terminal,
            [Relocate(ticket[t], n, fresh) EXCEPT !.archived = FALSE])

MigrateAnywhere(t, n, fresh) ==
    Command(t, "migrate", ~Idle(t) /\ ticket[t].exec.interrupt = "none",
            [ticket[t] EXCEPT !.exec.interrupt = "move", !.exec.to = n,
                              !.exec.fresh = fresh])

Migrate(t, n, fresh) ==
    Command(t, "migrate", /\ Kind[n] \notin Terminal
                          /\ ~Idle(t) \/ ticket[t].status \in Migratable
                          /\ ticket[t].exec.interrupt = "none"
                          /\ Reopens(t) => "reopen" \in Commands,
            Redirect(t, n, fresh))

(* A checkpoint or a restore asked for by the operator, in any status.     *)
CheckpointAction(t, n) ==
    Command(t, "checkpoint", /\ Kind[n] = "activity"
                             /\ ticket[t].exec.interrupt = "none"
                             /\ Reopens(t) => "reopen" \in Commands,
            Redirect(t, n, FALSE))

GithubFeedback(t) ==
    \E n \in Feedback[ticket[t].node] :
        Command(t, "reopen", /\ ticket[t].status = "completed"
                             /\ Kind[ticket[t].node] = "completed"
                             /\ ~ticket[t].archived,
                Transition(ticket[t], n))

(* An answer to one of the open questions, the last of them or not.        *)
Answer(t, last) ==
    Command(t, "answer", ticket[t].open,
            [ticket[t] EXCEPT !.open = ~last,
               !.status = IF Idle(t) THEN @
                          ELSE IF last THEN "running" ELSE "blocked"])

Archive(t) ==
    Command(t, "archive", ticket[t].done /\ ticket[t].status = "completed",
            [ticket[t] EXCEPT !.archived = TRUE])

Unarchive(t) ==
    Command(t, "archive", ticket[t].archived,
            [ticket[t] EXCEPT !.archived = FALSE])

Erase(t) ==
    run' = [l \in Leases |-> IF run[l].ticket = t
                               THEN [run[l] EXCEPT !.outcome = "erased"]
                               ELSE run[l]]

(* A person edits the file of an executing ticket so that it no longer     *)
(* fits the lease: it has a status in which nothing executes, another node *)
(* or phase (done: the last one), or no execution.  The scan drops the     *)
(* execution, closes its run and puts a ticket left running or blocked     *)
(* back to work.                                                           *)
(*                                                                         *)
(* That also repairs a file that was wrong in itself (torn), as when the   *)
(* phase is no longer its execution's.  But the runs of such a ticket were *)
(* not read from the ledger, and none is what the repair then stores: the  *)
(* history is lost, and with it the cost of every node.                    *)
FencingEdit(t, s, n, done, torn) ==
    LET status == IF s \notin {"running", "blocked"} THEN s
                  ELSE IF done THEN "completed" ELSE "ready"
        edited == [ticket[t] EXCEPT !.status = status, !.node = n, !.done = done,
                                    !.exec = NoExec, !.over = IF torn THEN {} ELSE @]
    IN  /\ "edit" \in Commands
        /\ Leased(ticket[t])
        /\ ~torn => IF done THEN s \in Terminal ELSE s # "completed"
        /\ Store(t, edited)
        /\ IF torn THEN Erase(t) ELSE Finish(ticket[t].exec.lease, "interrupted")
        /\ UNCHANGED <<issued, calls>>

-----------------------------------------------------------------------------
(***************************************************************************)
(* The operator's inbox.                                                   *)
(***************************************************************************)
(* Why the inbox shows a ticket that waits for its operator.  GitHub       *)
(* feedback, failed deliveries and conflicts over repositories are told of *)
(* tickets that supervisors go on with; waits belong to the engine.        *)
Attention(t) ==
    {kind \in {"question", "human_gate", "blocked", "failed"} :
       CASE kind = "question" -> t.open
         [] kind = "human_gate" -> t.status = "waiting_approval" /\ Kind[t.node] = "gate"
         [] OTHER -> t.status = kind}

Claimable(t) == t.status = "ready" /\ t.node \in Work

(* Unfinished, and neither a supervisor nor the inbox has it.              *)
Stranded(t) == /\ Active(t) /\ t.status # "pending"
               /\ ~Leased(t) /\ ~Claimable(t)
               /\ Attention(t) = {}

(* As Stranded, but for a question, whose answer moves no ticket.          *)
Misplaced(t) == /\ Active(t) /\ t.status # "pending"
                /\ ~Leased(t) /\ ~Claimable(t)
                /\ Attention(t) \subseteq {"question"}

(* An edit moves an executing ticket to another node, or has it wait for   *)
(* an approval where it is.                                                *)
Displaced(t) ==
    LET new == ticket'[t]
    IN  /\ new.node # ticket[t].node \/ new.status = "waiting_approval"
        /\ \E s \in Status, torn \in BOOLEAN :
             FencingEdit(t, s, new.node, new.done, torn)

-----------------------------------------------------------------------------
(* Tickets are created with a selection of stages their workflow accepts.  *)
Init == /\ ticket \in [Tickets ->
                {new \in {NewTicket(off) : off \in SUBSET Skippable} : Valid(new)}]
        /\ run = [l \in Leases |-> NoRun]
        /\ issued = 0
        /\ calls = {}

Operator(t) ==
    \/ Ready(t) \/ ReturnToDraft(t) \/ Decide(t) \/ Retry(t)
    \/ ReleaseSupervisor(t) \/ Archive(t) \/ Unarchive(t) \/ GithubFeedback(t)
    \/ \E how \in {"cancelled", "failed"} : Terminate(t, how)
    \/ \E n \in Nodes, fresh \in BOOLEAN : Migrate(t, n, fresh)
    \/ \E n \in Nodes : CheckpointAction(t, n)
    \/ \E last \in BOOLEAN : Answer(t, last)
    \/ \E s \in Status, n \in Nodes, done, torn \in BOOLEAN :
         FencingEdit(t, s, n, done, torn)

UnderLease(t, l) ==
    \/ Heartbeat(t, l) \/ ConfirmDelivery(t, l) \/ RejectDelivery(t, l)
    \/ Ask(t, l) \/ AcknowledgeInterrupt(t, l)
    \/ \E kind \in {"complete", "fail", "activity"} : ReadCallback(t, l, kind)

Next ==
    \/ \E s \in Supervisors : Claim(s) \/ ClaimActivity(s)
    \/ \E t \in Tickets : Operator(t) \/ Lapse(t)
    \/ \E t \in Tickets, l \in Leases : UnderLease(t, l)
    \/ \E l \in Leases, beat \in BOOLEAN : Overspend(l, beat)
    \/ \E c \in calls : CommitCallback(c) \/ DropCallback(c)
    \/ Sweep
    \/ Crash

(* The tracker runs the sweep on a timer for as long as it lives.          *)
Spec == Init /\ [][Next]_vars /\ WF_vars(Sweep)

TypeOK == /\ ticket \in [Tickets -> Frontmatter]
          /\ run \in [Leases -> NodeRun]
          /\ issued \in 0..MaxLeases
          /\ calls \subseteq Call

-----------------------------------------------------------------------------
(***************************************************************************)
(* Properties.                                                             *)
(***************************************************************************)

(* A ticket and the run its lease opened agree: the execution is at the    *)
(* ticket's current node, under the ticket's supervisor, and its run is    *)
(* open; a run is open only while its lease is some ticket's execution.    *)
(* Every handler that ends an execution must also close its run, and none  *)
(* may move the node under a live lease.                                   *)
RunMatchesExecution ==
    /\ \A t \in Tickets : Leased(ticket[t]) =>
         /\ run[ticket[t].exec.lease] =
              [ticket |-> t, node |-> ticket[t].node, outcome |-> "open"]
         /\ ticket[t].exec.node = ticket[t].node
         /\ ticket[t].exec.by = ticket[t].owner.sup
         /\ ticket[t].owner # NoOwner
         /\ ticket[t].status \in {"running", "blocked"}
    /\ \A l \in Leases : run[l].outcome = "open" =>
         run[l].ticket \in Tickets /\ Holds(run[l].ticket, l)

(* Two executions under one hostname never work in a common repository,    *)
(* whatever operators release, migrate, reopen or edit meanwhile, and      *)
(* whether or not the tracker knew the supervisors' hostnames when they    *)
(* claimed (README:78: "A supervisor cannot claim a ticket while another   *)
(* nonterminal ticket assigned on the same hostname names any of the same  *)
(* repositories").                                                         *)
RepoExclusion ==
    \A t, u \in Tickets :
        /\ t # u /\ Leased(ticket[t]) /\ Leased(ticket[u])
        /\ ticket[t].owner.host = ticket[u].owner.host
        => ~Overlap(t, u)

(* As RepoExclusion, of the hosts themselves: no two supervisors of one    *)
(* machine execute in a common repository.                                 *)
MachineExclusion ==
    \A t, u \in Tickets :
        /\ t # u /\ Leased(ticket[t]) /\ Leased(ticket[u])
        /\ HostOf[ticket[t].exec.by] = HostOf[ticket[u].exec.by]
        => ~Overlap(t, u)

(* A ticket ready for work that is with a supervisor has one that may take *)
(* it, whichever way its host is named by then.                            *)
OwnerMayClaim ==
    \A t \in Tickets :
        LET o == ticket[t].owner
        IN  Claimable(ticket[t]) /\ o # NoOwner => o.host = HostOf[o.sup]

(* The node a terminal callback read before its await is still the node of *)
(* its ticket if its lease is: what the mutation does with the stale       *)
(* definition and node (route, pull request requirement, loss counter) is  *)
(* right.                                                                  *)
CallbackNodeCurrent ==
    \A c \in calls : \A t \in Tickets :
        Holds(t, c.lease) => c.node = ticket[t].node

(* No ticket makes the sweep fail: what expiry would store is valid, or    *)
(* the 422 would stop every later sweep and claim at this ticket.          *)
SweepNeverPoisoned == Poisoned = {}

(* A requested interruption stays as requested until the lease ends, which *)
(* then ends interrupted, not as the agent's own result or as lost; only a *)
(* failed delivery takes precedence (see InterruptHonoured), or the        *)
(* history goes with it (see HistoryKept).                                 *)
InterruptFences ==
    [][\A t \in Tickets :
         LET e == ticket[t].exec
             f == ticket'[t].exec
         IN  e.interrupt # "none" =>
               IF f.lease = e.lease
                 THEN <<f.interrupt, f.to, f.fresh>> = <<e.interrupt, e.to, e.fresh>>
                 ELSE run'[e.lease].outcome \in
                        {"interrupted", "delivery_failed", "erased"}]_vars

(* A requested interruption is not dropped: its lease ends interrupted and *)
(* the ticket is not offered to a supervisor in the same state (v3.md:186).*)
InterruptHonoured ==
    [][\A t \in Tickets :
         LET e == ticket[t].exec
         IN  e.interrupt # "none" /\ ticket'[t].exec.lease # e.lease
               => run'[e.lease].outcome = "interrupted"]_vars

(* "Complete run history is stored in a revision-addressed, integrity-     *)
(* checked ledger" (v3.md:77) of "immutable node-run records" (v3.md:71):  *)
(* a run that has been recorded is not lost.                               *)
HistoryKept ==
    [][\A l \in Leases :
         run[l].outcome \notin {"none", "erased"}
           => run'[l].outcome # "erased"]_vars

(* A node that has lost LossLimit executions in a row is not offered again *)
(* before an operator intervenes on the ticket.                            *)
LossesEscalate ==
    \A t \in Tickets : ticket[t].status = "ready"
        => ticket[t].losses[ticket[t].node] < LossLimit

(* A supervisor owns at most one unfinished ticket (supervisor README:3).  *)
OneTicketPerSupervisor ==
    \A t, u \in Tickets :
        /\ Active(ticket[t]) /\ Active(ticket[u])
        /\ ticket[t].owner.sup = ticket[u].owner.sup
        /\ ticket[t].owner # NoOwner
        => t = u

(* An unfinished ticket that is not a draft is with a supervisor, open to  *)
(* one, or in the inbox for what it stands at: no callback, expiry,        *)
(* decision, migration or answer leaves it to nobody.  Two steps may: the  *)
(* release of a ticket's supervisor, which makes a ticket that stopped at  *)
(* a gate ready there, and the edit of an executing ticket's file that     *)
(* puts the ticket where no supervisor executes.                           *)
OnlyReleaseStrands ==
    [][\A t \in Tickets :
         Misplaced(ticket'[t]) =>
           \/ Misplaced(ticket[t])
           \/ ticket'[t] = Released(ticket[t])
           \/ Displaced(t)]_vars

(* "The far-left Inbox page consolidates unanswered agent questions, Human *)
(* Gates, blocked or failed work ..." (tracker README:60).                 *)
NobodyStrands == \A t \in Tickets : ~Stranded(ticket[t])

(* A lapsed lease does not stay lapsed: the sweep ends it, interruption or *)
(* open question pending or not, or its supervisor comes back.             *)
LapsedLeaseSettles ==
    \A t \in Tickets : (t \in Lapsed) ~> (t \notin Lapsed)

Registry == INSTANCE LeaseRegistry
    WITH holds <- [t \in Tickets |-> ticket[t].exec.lease],
         ended <- {l \in Leases : run[l].outcome \notin {"none", "open"}}

(* Every step of the tracker is a step of the lease registry.              *)
ImplementsRegistry == Registry!LSpec

Reservations == [t \in Tickets |-> IF Active(ticket[t]) THEN ticket[t].owner
                                                        ELSE NoOwner]

Lock == INSTANCE RepositoryLock WITH owner <- Reservations

(* Where no operator reopens finished work, reservations are the lock.     *)
ImplementsLock == Lock!RSpec

=============================================================================
