---------------------------- MODULE WorkflowGraph ----------------------------
(***************************************************************************)
(* What the tracker accepts as a workflow: the routes and targets of a     *)
(* node, and the conditions validateWorkflow puts on the graph of a        *)
(* definition before the library saves, publishes or imports it.           *)
(*                                                                         *)
(* A definition is a record: start, the workflow's own id, its transition  *)
(* ceiling, the values of each input, its stages and its nodes by name.    *)
(* "" is an absent field.  A route has a name, a target, the codes or      *)
(* values it answers to and whether it is the default; conditions on text, *)
(* prompts, scripts and schedules are left out.                            *)
(***************************************************************************)
EXTENDS Integers, FiniteSets, SequencesExt

Codes == 0..255
TerminalStatus == {"completed", "failed", "cancelled"}
Types == {"agent", "script", "checkpoint", "restore_checkpoint", "human_gate", "wait",
          "read", "write", "workflow", "fan_out", "fan_in", "terminal"}

Route(id, target) == [id |-> id, target |-> target, codes |-> {}, default |-> FALSE]

Blank(type, stage) ==
    [type |-> type, stage |-> stage, routes |-> <<>>, next |-> "", timeout |-> "",
     value |-> "", join |-> "", child |-> "", when |-> "", equals |-> "", otherwise |-> "",
     limit |-> 0, status |-> "", watch |-> [outcome |-> "", target |-> ""]]

Node(D, n) == D.nodes[n]
Known(D, n) == n \in DOMAIN D.nodes
Onward(D, n) == Known(D, n) /\ Node(D, n).type # "terminal"

(* The routes a node offers; waits, writes and joins have theirs by field. *)
Routes(node) ==
    LET named(id, target) == IF target = "" THEN <<>> ELSE <<Route(id, target)>>
    IN  CASE node.type = "wait" -> named("elapsed", node.next)
                                     \o named("timed_out", node.timeout)
          [] node.type \in {"write", "fan_in"} -> named("completed", node.next)
          [] node.type = "terminal" -> <<>>
          [] OTHER -> node.routes

BypassTo(D, node) == IF node.stage \in DOMAIN D.stages /\ D.stages[node.stage].skippable
                     THEN D.stages[node.stage].bypass ELSE ""

WorkflowTargets(D, node) ==
    ({r.target : r \in ToSet(Routes(node))}
       \cup {node.otherwise, BypassTo(D, node), node.watch.target}) \ {""}

Successors(D) == [n \in DOMAIN D.nodes |-> WorkflowTargets(D, Node(D, n))]

-----------------------------------------------------------------------------
(***************************************************************************)
(* The two depth-first searches over targets.                              *)
(***************************************************************************)
(* Each looks at a node once; the state of a search is its stack and the   *)
(* nodes seen.                                                             *)
Ids(succ, start) == {start} \cup DOMAIN succ \cup UNION {succ[n] : n \in DOMAIN succ}
Below(succ, n) == IF n \in DOMAIN succ THEN SetToSeq(succ[n]) ELSE <<>>

(* reachesJoin: from the target of a branch, up to the join.               *)
ReachesJoin(succ, join, from) ==
    LET ids == Ids(succ, from)
        search[at \in Seq(ids) \X SUBSET ids] ==
          LET stack == at[1]
              seen == at[2]
              n == Head(stack)
          IN  /\ stack # <<>>
              /\ \/ n = join
                 \/ n \in seen /\ search[<<Tail(stack), seen>>]
                 \/ n \notin seen /\ search[<<Below(succ, n) \o Tail(stack), seen \cup {n}>>]
    IN  search[<< <<from>>, {} >>]

(* visit: everything reachable from the start.                             *)
Reachable(succ, start) ==
    LET ids == Ids(succ, start)
        visit[at \in Seq(ids) \X SUBSET ids] ==
          LET stack == at[1]
              seen == at[2]
              n == Head(stack)
          IN  IF stack = <<>> THEN seen
              ELSE IF n \in seen THEN visit[<<Tail(stack), seen>>]
                   ELSE visit[<<Below(succ, n) \o Tail(stack), seen \cup {n}>>]
    IN  visit[<< <<start>>, {} >>]

-----------------------------------------------------------------------------
(***************************************************************************)
(* Validity.                                                               *)
(***************************************************************************)
StageValid(D, s) ==
    IF ~D.stages[s].skippable THEN D.stages[s].bypass = ""
    ELSE /\ Known(D, D.stages[s].bypass)
         /\ Node(D, D.stages[s].bypass).stage # s

ConditionValid(D, n) ==
    LET node == Node(D, n)
    IN  /\ node.when # "" => /\ node.when \in DOMAIN D.inputs
                             /\ node.otherwise \notin {"", n}
                             /\ node.equals \in D.inputs[node.when]
        /\ node.otherwise # "" => Known(D, node.otherwise)

RoutesValid(D, n) ==
    LET routes == Routes(Node(D, n))
    IN  /\ \A i, j \in DOMAIN routes : routes[i].id = routes[j].id => i = j
        /\ \A i \in DOMAIN routes : Known(D, routes[i].target)

OneDefault(node) == Cardinality({i \in DOMAIN node.routes : node.routes[i].default}) = 1

DefaultIsBare(node) == \A r \in ToSet(node.routes) : r.default => r.codes = {}

CodesDistinct(node) ==
    \A i, j \in DOMAIN node.routes :
      i # j => node.routes[i].codes \cap node.routes[j].codes = {}

HasSuccessRoute(node) == \E r \in ToSet(node.routes) : 0 \in r.codes

ScriptValid(node) == /\ HasSuccessRoute(node) /\ OneDefault(node) /\ DefaultIsBare(node)
                     /\ UNION {r.codes : r \in ToSet(node.routes)} \subseteq Codes
                     /\ CodesDistinct(node)

(* The same without bounds or distinct codes: the first match is taken.    *)
CheckpointValid(node) == HasSuccessRoute(node) /\ OneDefault(node) /\ DefaultIsBare(node)

WaitValid(D, n) == /\ {Node(D, n).next, Node(D, n).timeout} \subseteq DOMAIN D.nodes
                   /\ n \notin {Node(D, n).next, Node(D, n).timeout}

ReadValid(node) == OneDefault(node) /\ DefaultIsBare(node) /\ CodesDistinct(node)

CallValid(D, node) == /\ node.child \notin {"", D.id} /\ node.routes # <<>>
                      /\ OneDefault(node) /\ CodesDistinct(node)
                      /\ UNION {r.codes : r \in ToSet(node.routes)} \subseteq Codes

FanOutValid(D, node) ==
    /\ Len(node.routes) >= 2
    /\ Known(D, node.join) /\ Node(D, node.join).type = "fan_in"
    /\ \A r \in ToSet(node.routes) : ReachesJoin(Successors(D), node.join, r.target)

FanInValid(D, n) == /\ Known(D, Node(D, n).next)
                    /\ \E m \in DOMAIN D.nodes : /\ Node(D, m).type = "fan_out"
                                                 /\ Node(D, m).join = n

GateValid(node) == /\ node.routes # <<>>
                   /\ node.watch.target = ""
                   /\ \/ node.watch.outcome = ""
                      \/ \E r \in ToSet(node.routes) : r.id = node.watch.outcome

TerminalValid(D, node) ==
    /\ node.status \in TerminalStatus /\ node.routes = <<>> /\ node.otherwise = ""
    /\ node.watch.outcome = ""
    /\ \/ node.watch.target = ""
       \/ node.status = "completed" /\ Onward(D, node.watch.target)

NodeValid(D, n) ==
    LET node == Node(D, n)
    IN  /\ node.type \in Types /\ node.stage \in DOMAIN D.stages /\ node.limit \in 0..100
        /\ ConditionValid(D, n) /\ RoutesValid(D, n)
        /\ node.type \notin {"human_gate", "terminal"} => node.watch = Blank("", "").watch
        /\ CASE node.type = "agent" -> node.routes # <<>>
             [] node.type = "script" -> ScriptValid(node)
             [] node.type \in {"checkpoint", "restore_checkpoint"} -> CheckpointValid(node)
             [] node.type = "wait" -> WaitValid(D, n)
             [] node.type = "read" -> ReadValid(node)
             [] node.type = "write" -> Known(D, node.next) /\ node.value # ""
             [] node.type = "workflow" -> CallValid(D, node)
             [] node.type = "fan_out" -> FanOutValid(D, node)
             [] node.type = "fan_in" -> FanInValid(D, n)
             [] node.type = "human_gate" -> GateValid(node)
             [] node.type = "terminal" -> TerminalValid(D, node)

Valid(D) == /\ D.ceiling \in 1..1000
            /\ Known(D, D.start)
            /\ \A s \in DOMAIN D.stages : StageValid(D, s)
            /\ \A n \in DOMAIN D.nodes : NodeValid(D, n)
            /\ DOMAIN D.nodes \subseteq Reachable(Successors(D), D.start)

(* activityRoute: the first route of an exit code, the default's without   *)
(* one.                                                                    *)
ActivityTarget(node, code) ==
    LET exact == {i \in DOMAIN node.routes : code \in node.routes[i].codes}
        default == {i \in DOMAIN node.routes : node.routes[i].default}
    IN  node.routes[Min(IF exact # {} THEN exact ELSE default)].target
=============================================================================
