-------------------------- MODULE MCWorkflowEngine --------------------------
(***************************************************************************)
(* An instance of WorkflowEngine.  The pinned workflow starts at work that *)
(* may call a child workflow, poll outside events or fork: call runs the   *)
(* child, whose own work ends in one of two terminals; pause waits and     *)
(* polls the metadata, or an agent does; fork has two branches that meet   *)
(* at join, the second of which a ticket may pass over, twice in a row.    *)
(*                                                                         *)
(* Both definitions are written as the library stores them and must be     *)
(* valid (WorkflowGraph); Linked gives the engine's view of them.          *)
(***************************************************************************)
EXTENDS WorkflowEngine, TLC

Editor == INSTANCE WorkflowEditor

Plain(type) == Graph!Blank(type, "main")
Way(id, target) == Graph!Route(id, target)
Answering(code, target) ==
    [Graph!Route("answers_" \o target, target) EXCEPT !.codes = {code}]
Otherwise(target) == [Graph!Route("other", target) EXCEPT !.default = TRUE]
Stage(bypass) == [skippable |-> bypass # "", bypass |-> bypass]
Agent(stage, routes) == [Graph!Blank("agent", stage) EXCEPT !.routes = routes]
End(status) == [Plain("terminal") EXCEPT !.status = status]

Parent ==
    [id |-> "parent", start |-> "plan", ceiling |-> 6,
     inputs |-> [kind |-> {"quick", "slow"}],
     stages |-> [main |-> Stage(""), second |-> Stage("three"), third |-> Stage("join")],
     nodes |->
       "plan" :> [Agent("main", <<Way("call", "call"), Way("poll", "pause"),
                                  Way("fork", "fork")>>) EXCEPT !.limit = 1]
       @@ "call" :> [Plain("workflow") EXCEPT !.child = "child",
                       !.routes = <<Answering(0, "pause"), Otherwise("plan")>>]
       @@ "pause" :> [Plain("wait") EXCEPT !.next = "probe", !.timeout = "gate"]
       @@ "probe" :> [Plain("read") EXCEPT
                        !.routes = <<Answering("yes", "mark"), Otherwise("pause")>>]
       @@ "mark" :> [Plain("write") EXCEPT !.next = "fork", !.value = "no"]
       @@ "fork" :> [Plain("fan_out") EXCEPT !.join = "join",
                       !.routes = <<Way("one", "one"), Way("two", "two")>>]
       @@ "one" :> Agent("main", <<Way("ok", "join")>>)
       @@ "two" :> Agent("second", <<Way("ok", "join")>>)
       @@ "three" :> Agent("third", <<Way("ok", "join")>>)
       @@ "join" :> [Plain("fan_in") EXCEPT !.next = "gate", !.limit = 1]
       @@ "gate" :> [Plain("human_gate") EXCEPT
                       !.routes = <<Way("again", "plan"), Way("good", "done")>>]
       @@ "done" :> End("completed")]

Child ==
    [id |-> "child", start |-> "task", ceiling |-> 5, inputs |-> <<>>,
     stages |-> [main |-> Stage("")],
     nodes |-> "task" :> Agent("main", <<Way("ok", "good"), Way("bad", "bad")>>)
               @@ "good" :> End("completed")
               @@ "bad" :> End("failed")]

-----------------------------------------------------------------------------
(* What Linked makes of the two, written out.                              *)
Step(flow, type, routes, arg) ==
    [type |-> type, flow |-> flow, routes |-> routes, arg |-> arg, limit |-> 0,
     bypass |-> NoNode]

ParentAndChild ==
    [plan |-> [Step("root", "work", [call |-> "call", poll |-> "pause", fork |-> "fork"], "")
                EXCEPT !.limit = 1],
     call |-> Step("root", "call", (0 :> "pause" @@ 1 :> "plan"), "child"),
     pause |-> Step("root", "wait", [elapsed |-> "probe", timed_out |-> "gate"], ""),
     probe |-> Step("root", "read", [yes |-> "mark", no |-> "pause"], ""),
     mark |-> Step("root", "write", [next |-> "fork"], "no"),
     fork |-> Step("root", "fan_out", <<"one", "two">>, "join"),
     one |-> Step("root", "work", [ok |-> "join"], ""),
     two |-> [Step("root", "work", [ok |-> "join"], "") EXCEPT !.bypass = "three"],
     three |-> [Step("root", "work", [ok |-> "join"], "") EXCEPT !.bypass = "join"],
     join |-> [Step("root", "fan_in", [next |-> "gate"], "") EXCEPT !.limit = 1],
     gate |-> Step("root", "gate", [again |-> "plan", good |-> "done"], ""),
     done |-> Step("root", "terminal", <<>>, "completed"),
     task |-> Step("child", "work", [ok |-> "good", bad |-> "bad"], ""),
     good |-> Step("child", "terminal", <<>>, "completed"),
     bad |-> Step("child", "terminal", <<>>, "failed")]

Starts == [root |-> "plan", child |-> "task"]
Ceilings == [root |-> 6, child |-> 5]

ASSUME CompiledAssumption ==
    /\ ParentAndChild = Linked([root |-> Parent, child |-> Child])
    /\ Starts = [root |-> Parent.start, child |-> Child.start]
    /\ Ceilings = [root |-> Parent.ceiling, child |-> Child.ceiling]

(* Its wait is polled by one node, which the theorem DeadlinesKept asks.   *)
ASSUME PollerAssumption ==
    \A n \in Waits : \E after \in SUBSET Nodes : PolledAlone(n, after)

MigrateInside == {"ready", "cancelled", "migrate", "migrateChild"}

AllCommands == {"decide", "ready", "draft", "retry", "release", "cancelled",
                "failed", "migrate", "metadata", "wake"}

-----------------------------------------------------------------------------
(* Both definitions pass validation, and each of these mistakes is found.  *)
With(n, node) == [Parent EXCEPT !.nodes[n] = node]

Mistaken ==
    {[Parent EXCEPT !.start = "nowhere"],
     [Parent EXCEPT !.nodes = [n \in DOMAIN @ \ {"done"} |-> @[n]]],
     [Parent EXCEPT !.nodes = @ @@ "lost" :> End("failed")],
     [Parent EXCEPT !.stages.second.bypass = "two"],
     [Parent EXCEPT !.stages.main.bypass = "gate"],
     With("call", [Parent.nodes["call"] EXCEPT !.child = "parent"]),
     With("call", [Parent.nodes["call"] EXCEPT !.routes = <<Answering(0, "pause")>>]),
     With("pause", [Parent.nodes["pause"] EXCEPT !.timeout = "pause"]),
     With("probe", [Parent.nodes["probe"] EXCEPT
            !.routes = Append(@, Otherwise("mark"))]),
     With("mark", [Parent.nodes["mark"] EXCEPT !.value = ""]),
     With("fork", [Parent.nodes["fork"] EXCEPT !.join = "gate"]),
     With("fork", [Parent.nodes["fork"] EXCEPT !.routes = <<Way("one", "one")>>]),
     [With("one", Agent("main", <<Way("ok", "gate")>>))
       EXCEPT !.nodes["gate"].routes = <<Way("good", "done")>>],
     With("gate", [Parent.nodes["gate"] EXCEPT !.watch.outcome = "merged"]),
     With("done", [End("completed") EXCEPT !.watch.target = "done"]),
     With("one", [Parent.nodes["one"] EXCEPT !.when = "kind", !.equals = "quick"])}

ASSUME ValidationAssumption ==
    /\ Graph!Valid(Parent) /\ Graph!Valid(Child)
    /\ \A D \in Mistaken : ~Graph!Valid(D)

(* Both searches agree with paths, over every graph of three nodes and     *)
(* every start and goal.                                                   *)
Ids == 1..3
Connected(succ, from, goal) ==
    \E len \in 1..Cardinality(Ids) : \E path \in [1..len -> Ids] :
      /\ path[1] = from /\ path[len] = goal
      /\ \A i \in 1..(len - 1) : path[i + 1] \in succ[path[i]]

ASSUME SearchAssumption ==
    \A succ \in [Ids -> SUBSET Ids], from \in Ids :
      LET connected == {goal \in Ids : Connected(succ, from, goal)}
      IN  /\ Graph!Reachable(succ, from) = connected
          /\ \A goal \in Ids : Graph!ReachesJoin(succ, goal, from) <=> goal \in connected

-----------------------------------------------------------------------------
(* The editor and the library.  The editor lets everything through that    *)
(* the library accepts; renaming a node changes nothing but its name;      *)
(* a node added leaves no other unreachable and no route dangling, nor     *)
(* does a node of another type; and what a deletion leaves dangling the    *)
(* editor reports.                                                         *)
Watched == [Parent EXCEPT !.nodes["done"].watch.target = "plan",
                          !.nodes["gate"].watch.outcome = "again",
                          !.nodes["one"] = [@ EXCEPT !.when = "kind", !.equals = "slow",
                                                     !.otherwise = "gate"]]
Spare == [Parent EXCEPT !.stages.third.bypass = "lost", !.nodes = @ @@ "lost" :> End("failed")]
Accepted == {Parent, Child, Watched, Spare}
Added == {"agent", "script", "human_gate", "wait", "read", "write", "workflow", "fan_out",
          "fan_in"}

Dangling(D) == (UNION {Editor!EditorTargets(D, D.nodes[n]) : n \in DOMAIN D.nodes})
                 \ DOMAIN D.nodes

ASSUME EditorAssumption ==
    \A D \in Accepted :
      /\ Graph!Valid(D) /\ Editor!Clean(D)
      /\ \A n \in DOMAIN D.nodes :
           /\ LET renamed == Editor!RenameNode(D, n, "new")
              IN  Graph!Valid(renamed) /\ Editor!RenameNode(renamed, "new", n) = D
           /\ \A type \in Added :
                LET grown == Editor!AddNode(D, "new", type, n)
                IN  /\ Dangling(grown) = {}
                    /\ Graph!Reachable(Graph!Successors(grown), D.start) = DOMAIN grown.nodes
           /\ \A type \in Added \cup {"terminal"} :
                Dangling(Editor!ChangeType(D, n, type)) = {}
           /\ Editor!Deletable(D, n) =>
                LET shrunk == Editor!DeleteNode(D, n)
                IN  Dangling(shrunk) # {} => ~Editor!Clean(shrunk)
=============================================================================
