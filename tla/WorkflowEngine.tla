--------------------------- MODULE WorkflowEngine ---------------------------
(***************************************************************************)
(* The interpreter of a ticket's workflow: how a ticket enters, passes over *)
(* and leaves nodes, and how the tracker itself settles the nodes that need *)
(* nobody (waits, metadata reads and writes, fan-out and fan-in, calls of  *)
(* child workflows and their return).                                      *)
(*                                                                         *)
(* One ticket.  Its store runs settleAutomaticLoaded as one operation,     *)
(* whenever a supervisor claims work and after the handlers that move a    *)
(* ticket; handler and settlement are two turns of the store's queue, so   *)
(* Settle is a step of its own that may come at any time.                  *)
(*                                                                         *)
(* Abstractions.  The execution of a work node under a lease, which        *)
(* suspends settlement, is the subject of TicketLease and one step here.   *)
(* Nodes have unique names over all workflows, which is what the code's    *)
(* runtimeNodeKey provides.  A wait records the time left to its wake and  *)
(* to its deadline.  The contexts handed from node to node are left out; a *)
(* fan-out frame counts those that have arrived.                           *)
(***************************************************************************)
EXTENDS Integers, FiniteSets, SequencesExt

CONSTANTS
    Def,        \* the pinned definition of every node, of every workflow
    Root,       \* the workflow the ticket is pinned to
    StartOf,    \* the start node of a workflow
    Ceiling,    \* the max_transitions of a workflow
    NoNode,
    Values,     \* the values of the metadata key the nodes read and write
    WaitDelay, WaitDeadline,  \* the schedule of the wait nodes, in ticks
    MaxDepth,   \* nested calls: 16 in the code
    SettleCap,  \* steps of one settlement: 100 in the code
    VisitCap,   \* bound: where visit counts saturate
    Destinations,  \* bound: the nodes operators migrate to
    MaxFrames,  \* bound: fan-outs in progress when an operator migrates
    Commands    \* the commands the instance exercises

Nodes == DOMAIN Def
Type(n) == Def[n].type
Flow(n) == Def[n].flow
To(n, route) == Def[n].routes[route]
Targets(n) == {To(n, r) : r \in DOMAIN Def[n].routes}
OfType(type) == {n \in Nodes : Type(n) = type}
Waits == OfType("wait")
Conditional == {n \in Nodes : Def[n].bypass # NoNode}
Limit(n) == Def[n].limit
MoveCap == 1 + CHOOSE c \in {Ceiling[w] : w \in DOMAIN Ceiling} :
                 \A w \in DOMAIN Ceiling : Ceiling[w] <= c

-----------------------------------------------------------------------------
(***************************************************************************)
(* What the engine reads of a definition, which WorkflowGraph has as it is *)
(* stored: routes by outcome, code, value, branch or field.  Stages a      *)
(* ticket has disabled are compiled to bypasses, conditions on its inputs  *)
(* are left out.                                                           *)
(***************************************************************************)
Graph == INSTANCE WorkflowGraph

Role(type) == CASE type \in {"agent", "script", "checkpoint", "restore_checkpoint"} -> "work"
                [] type = "workflow" -> "call"
                [] type = "human_gate" -> "gate"
                [] OTHER -> type

RoutesOf(node) ==
    LET by(answers) == [a \in answers |-> Graph!ActivityTarget(node, a)]
    IN  CASE node.type = "fan_out" -> [i \in DOMAIN node.routes |-> node.routes[i].target]
          [] node.type = "workflow" -> by({0, 1})
          [] node.type = "read" -> by(Values)
          [] node.type \in {"write", "fan_in"} -> [next |-> node.next]
          [] OTHER -> LET routes == ToSet(Graph!Routes(node))
                      IN  [id \in {r.id : r \in routes} |->
                             (CHOOSE r \in routes : r.id = id).target]

ArgumentOf(node) == CASE node.type = "workflow" -> node.child
                      [] node.type = "fan_out" -> node.join
                      [] node.type = "terminal" -> node.status
                      [] node.type = "write" -> node.value
                      [] OTHER -> ""

Compiled(D, flow, n) ==
    LET node == D.nodes[n]
        bypass == Graph!BypassTo(D, node)
    IN  [type |-> Role(node.type), flow |-> flow, routes |-> RoutesOf(node),
         arg |-> ArgumentOf(node), limit |-> node.limit,
         bypass |-> IF bypass = "" THEN NoNode ELSE bypass]

(* Workflows under their names, whose nodes have unique names.             *)
Linked(flows) ==
    [n \in UNION {DOMAIN flows[w].nodes : w \in DOMAIN flows} |->
       LET w == CHOOSE w \in DOMAIN flows : n \in DOMAIN flows[w].nodes
       IN  Compiled(flows[w], w, n)]

(* What the engine relies on: nodes lead to nodes of their workflow, have  *)
(* the routes the tracker takes by itself, and name what there is.         *)
Interpretable(def, starts, ceilings) ==
    LET of(type) == {n \in DOMAIN def : def[n].type = type}
        ways(n) == DOMAIN def[n].routes
        near(n) == {m \in DOMAIN def : def[m].flow = def[n].flow}
    IN  /\ \A n \in DOMAIN def :
             /\ def[n].flow \in DOMAIN ceilings /\ def[n].limit \in Nat
             /\ {def[n].routes[r] : r \in ways(n)} \cup ({def[n].bypass} \ {NoNode})
                  \subseteq near(n)
        /\ \A w \in DOMAIN starts : starts[w] \in DOMAIN def /\ def[starts[w]].flow = w
        /\ \A n \in of("wait") : {"elapsed", "timed_out"} \subseteq ways(n)
        /\ \A n \in of("read") : Values \subseteq ways(n)
        /\ \A n \in of("write") : def[n].arg \in Values
        /\ \A n \in of("write") \cup of("fan_in") : "next" \in ways(n)
        /\ \A n \in of("call") : def[n].arg \in DOMAIN starts /\ {0, 1} \subseteq ways(n)
        /\ \A n \in of("fan_out") : /\ def[n].routes \in Seq(DOMAIN def) \ {<<>>}
                                    /\ def[n].arg \in of("fan_in") \cap near(n)
        /\ \A n \in of("terminal") : def[n].arg \in Graph!TerminalStatus

(* The theorem ValidIsInterpretable: so is what the library accepts.       *)
ASSUME DefinitionAssumption ==
    /\ NoNode \notin Nodes /\ Values # {} /\ Root \in DOMAIN StartOf
    /\ Interpretable(Def, StartOf, Ceiling)

ASSUME BoundAssumption ==
    /\ Ceiling \in [DOMAIN Ceiling -> Nat]
    /\ \E w \in DOMAIN Ceiling : \A v \in DOMAIN Ceiling : Ceiling[v] <= Ceiling[w]
    /\ {WaitDelay, WaitDeadline, SettleCap, VisitCap} \subseteq Nat

VARIABLE ticket

Status == {"pending", "ready", "blocked", "waiting_approval",
           "waiting_external", "completed", "failed", "cancelled"}

Wait == [running : BOOLEAN, asleep : 0..WaitDelay, left : 0..WaitDeadline]

NoWait == [running |-> FALSE, asleep |-> 0, left |-> -1]

(***************************************************************************)
(* Entering and leaving nodes.                                             *)
(***************************************************************************)
Projection(n) == CASE Type(n) = "gate" -> "waiting_approval"
                   [] Type(n) = "wait" -> "waiting_external"
                   [] Type(n) = "terminal" -> Def[n].arg
                   [] OTHER -> "ready"

Over(t) == t.moves > Ceiling[Flow(t.node)]

Counted(t, n) == Limit(n) > 0 /\ t.visits[n] > Limit(n)

(* Leaving "source" for "target": a wait whose poller leaves for another   *)
(* node is over, and so is one that an operator leaves.                    *)
Ended(n, source, target, operator) ==
    /\ Flow(n) = Flow(target)
    /\ \/ operator /\ n = source
       \/ To(n, "elapsed") = source /\ target # n

(* Fault: the poller's return to its wait ends the wait as well.           *)
MoveAfresh(t, source, target, operator) ==
    [t EXCEPT !.waits = [n \in Waits |->
                          IF To(n, "elapsed") = source THEN NoWait ELSE t.waits[n]],
              !.node = target,
              !.moves = IF @ < MoveCap THEN @ + 1 ELSE MoveCap]

Move(t, source, target, operator) ==
    [t EXCEPT !.waits = [n \in Waits |-> IF Ended(n, source, target, operator)
                                           THEN NoWait ELSE t.waits[n]],
              !.node = target,
              !.moves = IF @ < MoveCap THEN @ + 1 ELSE MoveCap]

(* One node of a disabled stage, or whose condition fails, is passed over. *)
Bypass(t) == IF t.node \in t.off /\ ~Over(t)
               THEN Move(t, t.node, Def[t.node].bypass, FALSE) ELSE t

(* Only the visits of limited nodes are ever compared, and so counted.     *)
Visit(t) == IF Limit(t.node) = 0 THEN t
            ELSE [t EXCEPT !.visits[t.node] = IF @ < VisitCap THEN @ + 1 ELSE @]

Arrive(t, count) ==
    LET v == IF count THEN Visit(t) ELSE t
    IN  IF count /\ Counted(v, v.node)
          THEN [v EXCEPT !.status = "blocked"]
          ELSE [v EXCEPT !.status = Projection(v.node)]

(* Fault: a target of a bypass is entered without asking for its own.      *)
EnterBypassed(t, count) ==
    IF Over(Bypass(t)) THEN [Bypass(t) EXCEPT !.status = "blocked"]
    ELSE Arrive(Bypass(t), count)

(* Each bypass is a move, so the ceiling ends a chain of them.             *)
Enter(t, count) ==
    LET chain == Ceiling[Flow(t.node)] + 1
        passed[i \in 0..chain] == IF i = 0 THEN t ELSE Bypass(passed[i - 1])
        last == passed[chain]
    IN  IF Over(last) THEN [last EXCEPT !.status = "blocked"]
        ELSE Arrive(last, count)

Transition(t, source, target, operator) ==
    Enter(Move(t, source, target, operator), TRUE)

Follow(t, route) == Transition(t, t.node, To(t.node, route), FALSE)

(* initializeWorkflow: the runtime starts over, with a stage selection.    *)
Pinned(t, off) ==
    Enter([t EXCEPT !.flow = Root, !.node = StartOf[Root], !.moves = 0,
                    !.visits = [n \in Nodes |-> 0], !.off = off,
                    !.stack = <<>>, !.frames = <<>>,
                    !.waits = [n \in Waits |-> NoWait]], FALSE)

-----------------------------------------------------------------------------
(***************************************************************************)
(* Settlement: one node the tracker passes by itself.  Each operator gives *)
(* the ticket and whether the settlement goes on.                          *)
(***************************************************************************)
GoOn(t) == [ticket |-> t, more |-> TRUE]
Rest(t) == [ticket |-> t, more |-> FALSE]

Smaller(a, b) == IF a < b THEN a ELSE b

(* Fault: the deadline is looked at only where it is set.                  *)
SettleWaitUntimed(t) ==
    LET n == t.node
        w == t.waits[n]
        wait == [running |-> TRUE, asleep |-> WaitDelay, left |-> WaitDeadline]
    IN  CASE ~w.running -> Rest([t EXCEPT !.waits[n] = wait,
                                          !.status = "waiting_external"])
          [] w.running /\ w.asleep = 0 /\ w.left > 0 ->
               GoOn(Follow([t EXCEPT !.waits[n].running = FALSE], "elapsed"))
          [] OTHER -> Rest(t)

SettleWait(t) ==
    LET n == t.node
        w == t.waits[n]
        over == [t EXCEPT !.waits[n] = NoWait]
        done == [t EXCEPT !.waits[n].running = FALSE]
        left == IF w = NoWait THEN WaitDeadline ELSE w.left
        wait == [running |-> TRUE, asleep |-> Smaller(left, WaitDelay), left |-> left]
    IN  CASE ~w.running -> Rest([t EXCEPT !.waits[n] = wait,
                                          !.status = "waiting_external"])
          [] w.running /\ w.left = 0 -> GoOn(Follow(over, "timed_out"))
          [] w.running /\ w.left > 0 /\ w.asleep = 0 -> GoOn(Follow(done, "elapsed"))
          [] OTHER -> Rest(t)

SettleRead(t) == GoOn(Follow(t, t.meta))

SettleWrite(t) == GoOn(Follow([t EXCEPT !.meta = Def[t.node].arg], "next"))

SettleFanOut(t) ==
    LET n == t.node
        frame == [fan |-> n, pending |-> Tail(Def[n].routes), inputs |-> 0]
    IN  GoOn(Follow([t EXCEPT !.frames = Append(@, frame)], 1))

(* The last frame that waits at this fan-in.                               *)
FrameOf(t) == SelectLastInSeq(t.frames, LAMBDA f : Def[f.fan].arg = t.node)

(* Fault: an arriving branch is joined only when it is not the first.      *)
SettleFanInEarly(t) ==
    LET i == FrameOf(t)
    IN  IF i = 0 THEN Rest([t EXCEPT !.status = "blocked"])
        ELSE IF t.frames[i].pending # <<>>
          THEN GoOn(Enter([t EXCEPT !.frames[i].pending = Tail(@),
                                    !.node = Head(t.frames[i].pending)], TRUE))
        ELSE GoOn(Follow([t EXCEPT !.frames = RemoveAt(@, i)], "next"))

SettleFanIn(t) ==
    LET n == t.node
        i == FrameOf(t)
        joined == [t EXCEPT !.frames[i].inputs = @ + 1]
        pending == t.frames[i].pending
        again == [joined EXCEPT !.frames[i].pending = Tail(@),
                                !.visits[n] = IF @ > 0 THEN @ - 1 ELSE 0,
                                !.node = Head(pending),
                                !.moves = IF @ < MoveCap THEN @ + 1 ELSE @]
    IN  IF i = 0 THEN Rest([t EXCEPT !.status = "blocked"])
        ELSE IF pending # <<>> THEN GoOn(Enter(again, TRUE))
        ELSE GoOn(Follow([t EXCEPT !.frames = RemoveAt(@, i)], "next"))

SettleCall(t) ==
    LET child == Def[t.node].arg
    IN  IF Len(t.stack) >= MaxDepth \/ t.moves >= Ceiling[t.flow]
          THEN Rest([t EXCEPT !.status = "blocked"])
          ELSE GoOn(Enter([t EXCEPT !.stack = Append(@, t.node), !.flow = child,
                                    !.node = StartOf[child],
                                    !.moves = IF @ < MoveCap THEN @ + 1 ELSE @],
                          TRUE))

(* Fault: the return continues in the parent without naming it active.     *)
SettleReturnInPlace(t) ==
    LET call == Last(t.stack)
        code == IF Def[t.node].arg = "completed" THEN 0 ELSE 1
    IN  IF t.stack = <<>> THEN Rest(t)
        ELSE GoOn(Transition([t EXCEPT !.stack = Front(@)], call, To(call, code), FALSE))

(* A terminal of a child returns its code; the top-level one is the end.   *)
SettleReturn(t) ==
    LET call == Last(t.stack)
        code == IF Def[t.node].arg = "completed" THEN 0 ELSE 1
    IN  IF t.stack = <<>> THEN Rest(t)
        ELSE GoOn(Transition([t EXCEPT !.stack = Front(@), !.flow = Flow(call),
                                       !.node = call],
                             call, To(call, code), FALSE))

SettleNode(t) == CASE Type(t.node) = "wait" -> SettleWait(t)
                   [] Type(t.node) = "read" -> SettleRead(t)
                   [] Type(t.node) = "write" -> SettleWrite(t)
                   [] Type(t.node) = "fan_out" -> SettleFanOut(t)
                   [] Type(t.node) = "fan_in" -> SettleFanIn(t)
                   [] Type(t.node) = "call" -> SettleCall(t)
                   [] Type(t.node) = "terminal" -> SettleReturn(t)
                   [] OTHER -> Rest(t)

Settled(t) ==
    LET settled[i \in 0..SettleCap] ==
          IF i = 0 THEN GoOn(t)
          ELSE LET acc == settled[i - 1]
               IN  IF acc.more THEN SettleNode(acc.ticket) ELSE acc
    IN  settled[SettleCap].ticket

(* The current node is looked up in the active workflow; elsewhere the     *)
(* lookup throws, and the settlement and its caller with it.               *)
InPlace(t) == Flow(t.node) = t.flow

Unsettled == InPlace(ticket) /\ Settled(ticket) # ticket

Settle == Unsettled /\ ticket' = Settled(ticket)

Tick == /\ \E n \in Waits : ticket.waits[n].left > 0
        /\ ticket' = [ticket EXCEPT !.waits = [n \in Waits |->
             LET w == ticket.waits[n]
             IN  IF w.left <= 0 THEN w
                 ELSE [w EXCEPT !.left = @ - 1,
                                !.asleep = IF @ > 0 THEN @ - 1 ELSE 0]]]

-----------------------------------------------------------------------------
(***************************************************************************)
(* Work and operator commands.                                             *)
(***************************************************************************)
Command(name, guard, new) == /\ name \in Commands
                             /\ guard
                             /\ ticket' = new

Work(route) ==
    /\ ticket.status = "ready" /\ Type(ticket.node) = "work" /\ InPlace(ticket)
    /\ ticket' = [Follow(ticket, route) EXCEPT !.owned = TRUE]

(* A result without a route fails the ticket, a third loss blocks it.      *)
WorkFails == /\ ticket.status = "ready" /\ Type(ticket.node) = "work"
             /\ InPlace(ticket)
             /\ \E s \in {"failed", "blocked"} :
                  ticket' = [ticket EXCEPT !.status = s, !.owned = TRUE]

Decide(route) == Command("decide", /\ Type(ticket.node) = "gate"
                                   /\ ticket.status = "waiting_approval"
                                   /\ InPlace(ticket),
                         Follow(ticket, route))

Ready == Command("ready", ticket.status = "pending" /\ InPlace(ticket),
                 Enter(ticket, ticket.visits[ticket.node] = 0))

ReturnToDraft == Command("draft", ticket.status = "ready",
                         [ticket EXCEPT !.status = "pending"])

Bounded(t) == Over(t) \/ Counted(t, t.node)

Retry == Command("retry", /\ ticket.status \in {"failed", "blocked"}
                          /\ Type(ticket.node) # "terminal"
                          /\ InPlace(ticket) /\ ~Bounded(ticket),
                 Enter(ticket, FALSE))

ReleaseSupervisor ==
    Command("release", ticket.owned /\ ticket.status \notin {"completed", "cancelled"},
            [ticket EXCEPT !.owned = FALSE,
               !.status = IF /\ @ \in {"failed", "blocked"} /\ InPlace(ticket)
                             /\ Type(ticket.node) # "terminal" /\ ~Bounded(ticket)
                            THEN "ready" ELSE @])

Terminate(how) == Command(how, TRUE, [ticket EXCEPT !.status = how])

(* To a node of the pinned workflow, whose stage is enabled, or to one of  *)
(* a new revision of it, with a fresh runtime.                             *)
Migrate(n, fresh) ==
    Command("migrate",
            /\ n \in Destinations /\ Type(n) # "terminal" /\ Flow(n) = Root
            /\ ticket.status # "ready"
            /\ fresh \/ Len(ticket.frames) < MaxFrames
            /\ ticket.stack # <<>> => fresh \/ "migrateChild" \in Commands,
            IF fresh THEN Transition(Pinned(ticket, {}), ticket.node, n, TRUE)
            ELSE Transition([ticket EXCEPT !.off = @ \ {n}], ticket.node, n, TRUE))

WriteMetadata(v) == Command("metadata", TRUE, [ticket EXCEPT !.meta = v])

Wake == Command("wake", /\ ticket.status = "waiting_external"
                        /\ Type(ticket.node) = "wait"
                        /\ ticket.waits[ticket.node] # NoWait,
                [ticket EXCEPT !.waits[ticket.node].asleep = 0])

-----------------------------------------------------------------------------
NewTicket == [status |-> "pending", flow |-> Root, node |-> StartOf[Root],
              moves |-> 0, visits |-> [n \in Nodes |-> 0], stack |-> <<>>,
              frames |-> <<>>, owned |-> FALSE,
              waits |-> [n \in Waits |-> NoWait], off |-> {},
              meta |-> CHOOSE v \in Values : TRUE]

Init == \E off \in SUBSET Conditional :
          ticket = [Pinned(NewTicket, off) EXCEPT !.status = "pending"]

Next ==
    \/ Settle \/ Tick \/ WorkFails
    \/ \E r \in DOMAIN Def[ticket.node].routes : Work(r) \/ Decide(r)
    \/ Ready \/ ReturnToDraft \/ Retry \/ ReleaseSupervisor \/ Wake
    \/ \E how \in {"cancelled", "failed"} : Terminate(how)
    \/ \E n \in Nodes, fresh \in BOOLEAN : Migrate(n, fresh)
    \/ \E v \in Values : WriteMetadata(v)

(* WF_ticket(Settle): Unsettled is what enables a settlement, written out  *)
(* because TLC is slow to compute ENABLED of so large an action.           *)
KeepsSettling == []<>~Unsettled \/ []<><<Settle>>_ticket

(* Time passes, and supervisors keep asking for work: each claim settles.  *)
Spec == /\ Init /\ [][Next]_ticket
        /\ WF_ticket(Tick) /\ KeepsSettling

Frame == [fan : OfType("fan_out"), pending : Seq(Nodes), inputs : Nat]

TypeOK == ticket \in [status : Status, flow : DOMAIN Ceiling, node : Nodes,
                      moves : 0..MoveCap, visits : [Nodes -> 0..VisitCap],
                      stack : Seq(OfType("call")), frames : Seq(Frame),
                      owned : BOOLEAN,
                      waits : [Waits -> Wait \cup {NoWait}],
                      off : SUBSET Conditional, meta : Values]

-----------------------------------------------------------------------------
(***************************************************************************)
(* Properties.                                                             *)
(***************************************************************************)

(* The state is well typed, the call frames are a path of calls from the   *)
(* pinned workflow to the active one, and the current node is a node of    *)
(* the active workflow.                                                    *)
CallsNest ==
    LET calls == ticket.stack
        flows == <<Root>> \o [i \in DOMAIN calls |-> Def[calls[i]].arg]
    IN  /\ TypeOK
        /\ \A i \in DOMAIN calls : Flow(calls[i]) = flows[i]
        /\ ticket.flow = Last(flows)
        /\ Flow(ticket.node) = ticket.flow

(* Every branch of a fan-out in progress is accounted for once: joined,    *)
(* still to come, or the one on its way (v3.md: the fan-in waits for and   *)
(* combines every declared branch).                                        *)
BranchesBalanced ==
    \A i \in DOMAIN ticket.frames :
        LET f == ticket.frames[i]
        IN  f.inputs + 1 + Len(f.pending) = Len(Def[f.fan].routes)

(* What a supervisor may claim is within the limits of the node and the    *)
(* active workflow, and is not a node the ticket passes over, whatever     *)
(* chain of bypasses, calls, retries and releases led to it.               *)
WorkWithinBounds ==
    ticket.status = "ready" /\ Type(ticket.node) = "work" =>
        /\ ~Bounded(ticket)
        /\ ticket.node \notin ticket.off

(* The deadline of a wait is absolute (v3.md:46): when the work or the     *)
(* automatic node that polls leads back to the wait, the wait continues    *)
(* with the deadline it had.  (Of a poller of one node; PolledAlone says   *)
(* of which definitions that is true.)                                     *)
DeadlineKept ==
    [][Settle \/ (\E r \in DOMAIN Def[ticket.node].routes : Work(r)) =>
         \A n \in Waits : ticket.waits[n] # NoWait /\ ticket'.node = n =>
             ticket'.waits[n].left \in 0..ticket.waits[n].left]_ticket

(* Where the tracker may take a ticket from m by itself, in one move.      *)
Onward(m) ==
    ({Def[m].bypass} \ {NoNode}) \cup
    CASE Type(m) \in {"work", "gate"} -> {}
      [] Type(m) = "call" -> {StartOf[Def[m].arg]}
      [] Type(m) = "terminal" ->
           UNION {Targets(c) : c \in {c \in OfType("call") : Def[c].arg = Flow(m)}}
      [] Type(m) = "fan_in" ->
           Targets(m) \cup
           UNION {Targets(f) : f \in {f \in OfType("fan_out") : Def[f].arg = m}}
      [] OTHER -> Targets(m)

(* Once the wait n is over, by its deadline or because its poller led      *)
(* elsewhere, the tracker takes a ticket to nodes of "after" only, and so  *)
(* not back to n before work is done or an operator acts.                  *)
PolledAlone(n, after) ==
    LET poller == To(n, "elapsed")
    IN  /\ after \subseteq Nodes \ {n}
        /\ To(n, "timed_out") \in after
        /\ (Targets(poller) \cup {Def[poller].bypass}) \ {n, NoNode} \subseteq after
        /\ \A m \in after : Onward(m) \subseteq after

(* A ticket does not wait for ever: its wake or its deadline comes and a   *)
(* settlement takes it on, unless an operator keeps migrating it.          *)
WaitEnds ==
    \/ []<><<\E n \in Nodes, fresh \in BOOLEAN : Migrate(n, fresh)>>_ticket
    \/ \A n \in Waits :
          (ticket.node = n /\ ticket.status = "waiting_external")
            ~> ~(ticket.node = n /\ ticket.status = "waiting_external")

(* A ticket an operator has cancelled or failed does not go back to work   *)
(* by itself (init.md:528).                                                *)
StoppedStays ==
    [][Settle /\ ticket.status \in {"cancelled", "failed"}
         /\ Type(ticket.node) # "terminal" => ticket'.status = ticket.status]_ticket
=============================================================================
