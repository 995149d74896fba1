--------------------------- MODULE WorkflowEditor ---------------------------
(***************************************************************************)
(* The dashboard's workflow editor: the errors it finds in a draft before  *)
(* it lets the operator publish it, and what its buttons do to the graph   *)
(* of the draft (add, rename, retype and delete a node).                   *)
(*                                                                         *)
(* The draft is a definition of WorkflowGraph, whose nodes have distinct   *)
(* names: a draft with a name twice, which the editor reports, is left     *)
(* out.  So are the operational roles of stages (a new terminal goes to a  *)
(* stage that holds one), texts, prompts, scripts and schedules.  Where    *)
(* the code takes the first node of some kind, any one is taken.           *)
(***************************************************************************)
EXTENDS WorkflowGraph

OfType(D, type) == {n \in DOMAIN D.nodes : Node(D, n).type = type}
OneOf(S) == CHOOSE x \in S : TRUE

(* nodeRoutes: the routes the editor knows of; a wait's only in pairs.     *)
EditorRoutes(node) == IF node.type = "wait" /\ "" \in {node.next, node.timeout}
                        THEN <<>> ELSE Routes(node)

EditorTargets(D, node) ==
    ({r.target : r \in ToSet(EditorRoutes(node))}
       \cup {node.otherwise, BypassTo(D, node), node.watch.target}) \ {""}

-----------------------------------------------------------------------------
(***************************************************************************)
(* workflowErrors.                                                         *)
(***************************************************************************)
StageClean(D, s) ==
    IF D.stages[s].skippable
      THEN Known(D, D.stages[s].bypass) /\ Node(D, D.stages[s].bypass).stage # s
      ELSE D.stages[s].bypass = ""

WatchClean(D, node) ==
    CASE node.type = "human_gate" ->
           \/ node.watch = Blank("", "").watch
           \/ \E r \in ToSet(node.routes) : r.id = node.watch.outcome
      [] node.type = "terminal" ->
           \/ node.watch = Blank("", "").watch
           \/ node.status = "completed" /\ Onward(D, node.watch.target)
      [] OTHER -> node.watch = Blank("", "").watch

(* Codes and values are not compared: only their presence is looked at.    *)
TypeClean(node) ==
    CASE node.type \in {"agent", "human_gate"} -> node.routes # <<>>
      [] node.type = "script" -> HasSuccessRoute(node) /\ OneDefault(node)
      [] node.type = "read" -> OneDefault(node)
      [] node.type = "write" -> "" \notin {node.next, node.value}
      [] node.type = "workflow" -> node.child # "" /\ OneDefault(node)
      [] node.type = "fan_out" -> Len(node.routes) >= 2 /\ node.join # ""
      [] node.type = "fan_in" -> node.next # ""
      [] node.type = "terminal" -> node.status # "" /\ EditorRoutes(node) = <<>>
      [] OTHER -> TRUE

NodeClean(D, n) ==
    LET node == Node(D, n)
    IN  /\ node.stage \in DOMAIN D.stages /\ node.limit \in 0..100
        /\ node.when # "" => node.when \in DOMAIN D.inputs /\ node.otherwise \notin {"", n}
        /\ {r.target : r \in ToSet(EditorRoutes(node))} \cup {node.otherwise}
             \subseteq DOMAIN D.nodes \cup {""}
        /\ TypeClean(node) /\ WatchClean(D, node)

(* No error: the buttons that publish are enabled.                         *)
Clean(D) ==
    /\ D.ceiling \in 1..1000 /\ Known(D, D.start)
    /\ \A s \in DOMAIN D.stages : StageClean(D, s)
    /\ \A n \in DOMAIN D.nodes : NodeClean(D, n)
    /\ DOMAIN D.nodes \subseteq
         Reachable([n \in DOMAIN D.nodes |-> EditorTargets(D, Node(D, n))], D.start)

-----------------------------------------------------------------------------
(***************************************************************************)
(* Edits of the graph.                                                     *)
(***************************************************************************)
(* replaceNodeTargets: every field of a node that names another.           *)
Redirected(node, from, to) ==
    LET there(id) == IF id = from THEN to ELSE id
        led(way) == [way EXCEPT !.target = there(@)]
    IN  [node EXCEPT !.routes = [i \in DOMAIN @ |-> led(@[i])], !.watch = led(@),
                     !.next = there(@), !.timeout = there(@), !.join = there(@),
                     !.otherwise = there(@)]

BypassRedirected(D, from, to) ==
    [s \in DOMAIN D.stages |-> [D.stages[s] EXCEPT !.bypass = IF @ = from THEN to ELSE @]]

(* What a node of a type starts with: success leads on, anything else      *)
(* comes back to the node.                                                 *)
Fresh(D, type, stage, self, target) ==
    LET node == [Blank(type, stage) EXCEPT !.limit = 10]
        ok == [Route("success", target) EXCEPT !.codes = {0}]
        other == [Route("failure", self) EXCEPT !.default = TRUE]
        joins == OfType(D, "fan_in")
    IN  CASE type = "agent" -> [node EXCEPT !.routes = <<Route("completed", target)>>]
          [] type = "human_gate" ->
               [node EXCEPT !.routes = <<Route("approved", target), Route("changes", self)>>]
          [] type \in {"script", "checkpoint", "restore_checkpoint", "read"} ->
               [node EXCEPT !.routes = <<ok, other>>]
          [] type = "workflow" -> [node EXCEPT !.routes = <<ok, other>>, !.child = "another"]
          [] type = "wait" -> [node EXCEPT !.next = target, !.timeout = target]
          [] type = "write" -> [node EXCEPT !.next = target, !.value = "true"]
          [] type = "fan_in" -> [node EXCEPT !.next = target]
          [] type = "fan_out" ->
               [node EXCEPT !.routes = <<Route("a", target), Route("b", target)>>,
                            !.join = IF joins = {} THEN target ELSE OneOf(joins)]
          [] type = "terminal" -> [node EXCEPT !.status = "completed"]

(* A new node goes into the first route of the selected one, or, where     *)
(* that is a terminal, before it.                                          *)
AddNode(D, id, type, selected) ==
    LET source == Node(D, selected)
        routes == EditorRoutes(source)
        ending == source.type = "terminal"
        target == IF routes # <<>> THEN Head(routes).target
                  ELSE IF ending THEN selected ELSE OneOf(OfType(D, "terminal"))
        stage == IF type = "terminal" THEN Node(D, OneOf(OfType(D, "terminal"))).stage
                                      ELSE source.stage
        rerouted(n) == IF ending THEN Redirected(Node(D, n), selected, id)
                       ELSE IF n = selected /\ routes # <<>>
                              THEN Redirected(Node(D, n), target, id)
                              ELSE Node(D, n)
    IN  [D EXCEPT !.nodes = [n \in DOMAIN @ \cup {id} |->
                              IF n = id THEN Fresh(D, type, stage, id, target)
                                        ELSE rerouted(n)],
                  !.stages = IF ending THEN BypassRedirected(D, selected, id) ELSE @]

RenameNode(D, n, to) ==
    LET old(m) == IF m = to THEN n ELSE m
    IN  [D EXCEPT !.nodes = [m \in (DOMAIN @ \ {n}) \cup {to} |->
                               Redirected(@[old(m)], n, to)],
                  !.stages = BypassRedirected(D, n, to),
                  !.start = IF @ = n THEN to ELSE @]

ChangeType(D, n, type) ==
    LET others == DOMAIN D.nodes \ {n}
        target == IF others = {} THEN n ELSE OneOf(others)
        stage == IF type = "terminal" /\ OfType(D, "terminal") # {}
                   THEN Node(D, OneOf(OfType(D, "terminal"))).stage
                   ELSE Node(D, n).stage
    IN  [D EXCEPT !.nodes[n] = Fresh(D, type, stage, n, target)]

(* What leads to a deleted node leads to its first other target instead;   *)
(* without one, the deletion is refused while a route leads there.         *)
Replacements(D, n) ==
    {r.target : r \in ToSet(EditorRoutes(Node(D, n)))} \ {n, ""}

Deletable(D, n) ==
    \/ Replacements(D, n) # {}
    \/ \A m \in DOMAIN D.nodes \ {n} :
         n \notin {r.target : r \in ToSet(EditorRoutes(Node(D, m)))} \cup {Node(D, m).otherwise}

DeleteNode(D, n) ==
    LET routes == SelectSeq(EditorRoutes(Node(D, n)), LAMBDA r : r.target \notin {n, ""})
        kept == DOMAIN D.nodes \ {n}
    IN  IF routes = <<>>
          THEN [D EXCEPT !.nodes = [m \in kept |-> @[m]],
                         !.start = IF @ = n THEN OneOf(kept) ELSE @]
          ELSE LET to == Head(routes).target
               IN  [D EXCEPT !.nodes = [m \in kept |-> Redirected(@[m], n, to)],
                             !.stages = BypassRedirected(D, n, to),
                             !.start = IF @ = n THEN OneOf(kept) ELSE @]
=============================================================================
