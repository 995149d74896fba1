------------------------ MODULE WorkflowEngine_proofs ------------------------
(***************************************************************************)
(* Theorems about WorkflowEngine, for every compiled definition, every     *)
(* ceiling and limit and every choice of the bounds; and, in the last part *)
(* of the module, about ActivityWorker, which executes the activity nodes  *)
(* of such a workflow, for every set of repositories and every number of   *)
(* leases, checkpoints and faults.                                         *)
(***************************************************************************)
EXTENDS WorkflowEngine, ActivityWorker, FiniteSetTheorems, SequenceTheorems,
        WellFoundedInduction, TLAPS

(***************************************************************************)
(* The inductive invariant.  The interpreter's helpers work on tickets     *)
(* that are values, so its parts are predicates of a ticket.               *)
(***************************************************************************)

(* A fan-out in progress: its branches add up, and those to come are among *)
(* the fan's own.                                                          *)
Branch == {f \in Frame :
             /\ f.inputs + 1 + Len(f.pending) = Len(Def[f.fan].routes)
             /\ \A k \in DOMAIN f.pending : f.pending[k] \in Targets(f.fan)}

Shape == [status : Status, flow : DOMAIN Ceiling, node : Nodes, moves : 0..MoveCap,
          visits : [Nodes -> 0..VisitCap], stack : Seq(OfType("call")),
          frames : Seq(Branch), owned : BOOLEAN,
          waits : [Waits -> Wait \cup {NoWait}], off : SUBSET Conditional,
          meta : Values]

(* Only a ticket past its ceiling rests at a node it should pass over;     *)
(* work that is ready, or will be when its draft is, is within its limit;  *)
(* work that is ready is below the ceiling.                                *)
Claimable(t) ==
    /\ t.node \in t.off => Over(t)
    /\ Type(t.node) = "work" /\ t.status \in {"ready", "pending"} => ~ Counted(t, t.node)
    /\ Type(t.node) = "work" /\ t.status = "ready" => ~ Over(t)

(* The flow the i-th call of a stack was made in; of Len(stack) + 1, the   *)
(* one the last call has entered.                                          *)
Caller(stack, i) == IF i = 1 THEN Root ELSE Def[stack[i - 1]].arg

Path(t) == /\ Flow(t.node) = t.flow
           /\ t.flow = Caller(t.stack, Len(t.stack) + 1)
           /\ \A i \in DOMAIN t.stack : Flow(t.stack[i]) = Caller(t.stack, i)

(* A migration inside a child workflow leaves the path (the run displaced) *)
Placed(t) == "migrateChild" \notin Commands => Path(t)

Sound == {t \in Shape : Claimable(t) /\ Placed(t)}

IInv == ticket \in Sound

-----------------------------------------------------------------------------
(***************************************************************************)
(* Iteration.  The interpreter steps a ticket by a recursive function of   *)
(* the number of steps; these lemmas take the place of induction over it.  *)
(***************************************************************************)

LEMMA Smallest ==
  ASSUME NEW B, B \subseteq Nat, B # {}
  PROVE  \E m \in B : \A k \in B : m <= k
  <1> DEFINE less == OpToRel(<, Nat)
  <1>1. IsWellFoundedOn(less, Nat)
    BY NatLessThanWellFounded
  <1>2. \A x, y \in Nat : x < y => <<x, y>> \in less
    BY DEF OpToRel
  <1> HIDE DEF less
  <1>3. PICK m \in B : \A k \in B : <<k, m>> \notin less
    BY <1>1, WFMin
  <1>4. \A k \in B : m <= k
    <2>1. SUFFICES ASSUME NEW k \in B PROVE m <= k
      OBVIOUS
    <2>2. m \in Nat /\ k \in Nat
      OBVIOUS
    <2>3. ~ (k < m)
      BY <1>2, <1>3, <2>2, Zenon
    <2>4. QED
      BY <2>2, <2>3
  <1>5. QED
    BY <1>4

(* Steps counted from 0 to n of which each follows from the one before.    *)
LEMMA Stepwise ==
  ASSUME NEW n \in Nat, NEW G, 0 \in G, \A i \in 1..n : i - 1 \in G => i \in G
  PROVE  \A i \in 0..n : i \in G
  <1> DEFINE B == {i \in 0..n : i \notin G}
  <1>1. SUFFICES ASSUME B # {} PROVE FALSE
    OBVIOUS
  <1>2. PICK m \in B : \A k \in B : m <= k
    <2>1. B \subseteq Nat
      OBVIOUS
    <2> HIDE DEF B
    <2>2. QED
      BY <1>1, <2>1, Smallest
  <1>3. m # 0 /\ m \in 1..n /\ m - 1 \in 0..n
    BY <1>2
  <1>4. m - 1 \notin B
    BY <1>2, <1>3
  <1>5. QED
    BY <1>2, <1>3, <1>4

(* The steps of a function exist: the recursion has a solution.            *)
Iterates(g, S, f, x, n) == /\ g \in [0..n -> S]
                           /\ g[0] = x /\ \A i \in 1..n : g[i] = f[g[i - 1]]

LEMMA Iterated ==
  ASSUME NEW S, NEW f \in [S -> S], NEW x \in S, NEW n \in Nat
  PROVE  \E g : Iterates(g, S, f, x, n)
  <1> USE DEF Iterates
  <1> DEFINE Solves(g, k) == g[0] = x /\ \A i \in 1..k : g[i] = f[g[i - 1]]
             B == {k \in Nat : ~ \E g \in [0..k -> S] : Solves(g, k)}
  <1>1. SUFFICES ASSUME B # {} PROVE FALSE
    OBVIOUS
  <1>2. PICK m \in B : \A k \in B : m <= k
    <2>1. B \subseteq Nat
      OBVIOUS
    <2> HIDE DEF B
    <2>2. QED
      BY <1>1, <2>1, Smallest
  <1>3. CASE m = 0
    <2> DEFINE g == [i \in 0..0 |-> x]
    <2>1. g \in [0..0 -> S] /\ Solves(g, 0)
      OBVIOUS
    <2>2. QED
      BY <1>2, <1>3, <2>1
  <1>4. CASE m # 0
    <2>1. m - 1 \in Nat /\ m - 1 \notin B
      <3>1. m \in Nat
        BY <1>2
      <3> HIDE DEF B
      <3>2. QED
        BY <3>1, <1>2, <1>4
    <2>2. PICK g \in [0..(m - 1) -> S] : Solves(g, m - 1)
      BY <2>1
    <2> DEFINE h == [i \in 0..m |-> IF i = m THEN f[g[m - 1]] ELSE g[i]]
    <2>3. /\ h \in [0..m -> S]
          /\ h[0] = x
          /\ \A i \in 1..m : h[i] = f[h[i - 1]]
      <3>1. g[0] = x /\ \A i \in 1..(m - 1) : g[i] = f[g[i - 1]]
        BY <2>2
      <3>2. h \in [0..m -> S] /\ h[0] = x
        BY <3>1, <2>1, <1>4
      <3>3. ASSUME NEW i \in 1..m PROVE h[i] = f[h[i - 1]]
        <4>1. CASE i = m
          BY <4>1, <1>4, <2>1
        <4>2. CASE i # m
          BY <4>2, <3>1, <2>1
        <4>3. QED
          BY <4>1, <4>2
      <3>4. QED
        BY <3>2, <3>3
    <2>4. Solves(h, m)
      <3> HIDE DEF h
      <3>1. QED
        BY <2>3
    <2>5. QED
      BY <1>2, <2>3, <2>4
  <1>5. QED
    BY <1>3, <1>4

-----------------------------------------------------------------------------
(***************************************************************************)
(* What the assumption on the definitions says, part by part.              *)
(***************************************************************************)

LEMMA Defined ==
  /\ NoNode \notin Nodes /\ Values # {}
  /\ \A n \in Nodes :
       /\ Flow(n) \in DOMAIN Ceiling /\ Limit(n) \in Nat
       /\ Targets(n) \cup ({Def[n].bypass} \ {NoNode})
            \subseteq {m \in Nodes : Flow(m) = Flow(n)}
  /\ Root \in DOMAIN StartOf
  /\ \A w \in DOMAIN StartOf : StartOf[w] \in Nodes /\ Flow(StartOf[w]) = w
  BY DefinitionAssumption DEF Interpretable, Nodes, Flow, Limit, Targets, To

LEMMA Routed ==
  /\ \A n \in Waits : {"elapsed", "timed_out"} \subseteq DOMAIN Def[n].routes
  /\ \A n \in OfType("read") : Values \subseteq DOMAIN Def[n].routes
  /\ \A n \in OfType("write") : Def[n].arg \in Values
  /\ \A n \in OfType("write") \cup OfType("fan_in") : "next" \in DOMAIN Def[n].routes
  /\ \A n \in OfType("call") : /\ Def[n].arg \in DOMAIN StartOf
                               /\ {0, 1} \subseteq DOMAIN Def[n].routes
  /\ \A n \in OfType("fan_out") :
       /\ Def[n].routes \in Seq(Nodes) \ {<<>>}
       /\ Def[n].arg \in OfType("fan_in") /\ Flow(Def[n].arg) = Flow(n)
  /\ \A n \in OfType("terminal") : Def[n].arg \in {"completed", "failed", "cancelled"}
  BY DefinitionAssumption
     DEF Interpretable, Graph!TerminalStatus, Nodes, Type, Flow, OfType, Waits

-----------------------------------------------------------------------------
(***************************************************************************)
(* Moves and bypasses.                                                     *)
(***************************************************************************)

LEMMA Cap ==
  /\ MoveCap \in Nat
  /\ \A w \in DOMAIN Ceiling : Ceiling[w] \in Nat /\ Ceiling[w] < MoveCap
  <1> DEFINE C == {Ceiling[w] : w \in DOMAIN Ceiling}
             Top(c) == \A w \in DOMAIN Ceiling : Ceiling[w] <= c
             top == CHOOSE c \in C : Top(c)
  <1>1. C \subseteq Nat
    BY BoundAssumption
  <1>2. \E c \in C : Top(c)
    BY BoundAssumption
  <1>3. top \in C /\ Top(top)
    BY <1>2, Zenon
  <1>4. MoveCap = 1 + top
    BY DEF MoveCap
  <1> HIDE DEF top
  <1>5. QED
    BY <1>1, <1>3, <1>4, BoundAssumption

LEMMA Nodal ==
  /\ \A n \in Nodes : /\ Flow(n) \in DOMAIN Ceiling /\ Limit(n) \in Nat
                      /\ \A r \in DOMAIN Def[n].routes :
                           To(n, r) \in Nodes /\ Flow(To(n, r)) = Flow(n)
  /\ \A n \in Conditional : /\ n \in Nodes /\ Def[n].bypass \in Nodes
                            /\ Flow(Def[n].bypass) = Flow(n)
  /\ \A n \in Waits : {"elapsed", "timed_out"} \subseteq DOMAIN Def[n].routes
  <1>1. \A n \in Nodes : Targets(n) \cup ({Def[n].bypass} \ {NoNode})
                           \subseteq {m \in Nodes : Flow(m) = Flow(n)}
    BY Defined
  <1>2. \A n \in Nodes : \A r \in DOMAIN Def[n].routes : To(n, r) \in Targets(n)
    BY DEF Targets
  <1>3. QED
    BY <1>1, <1>2, Defined, Routed DEF Conditional

(* Leaving a node counts a move and may end waits; nothing else changes.   *)
LEMMA Moved ==
  ASSUME NEW t \in Shape, NEW source \in Nodes, NEW target \in Nodes,
         NEW operator \in BOOLEAN
  PROVE  LET m == Move(t, source, target, operator)
         IN  /\ m \in Shape /\ m.node = target
             /\ m.moves = IF t.moves < MoveCap THEN t.moves + 1 ELSE MoveCap
             /\ m.status = t.status /\ m.flow = t.flow /\ m.visits = t.visits
             /\ m.stack = t.stack /\ m.frames = t.frames /\ m.owned = t.owned
             /\ m.off = t.off /\ m.meta = t.meta
  <1> DEFINE waits == [n \in Waits |-> IF Ended(n, source, target, operator)
                                         THEN NoWait ELSE t.waits[n]]
             moves == IF t.moves < MoveCap THEN t.moves + 1 ELSE MoveCap
             m == [t EXCEPT !.waits = waits, !.node = target, !.moves = moves]
  <1>1. waits \in [Waits -> Wait \cup {NoWait}]
    BY DEF Shape
  <1>2. moves \in 0..MoveCap
    BY Cap DEF Shape
  <1>3. Move(t, source, target, operator) = m
    BY DEF Move
  <1> HIDE DEF waits, moves
  <1>4. QED
    BY <1>1, <1>2, <1>3 DEF Shape, moves

(* A bypass stays in the flow and, when it passes a node over, is a move.  *)
LEMMA Bypassed ==
  ASSUME NEW t \in Shape
  PROVE  LET b == Bypass(t)
         IN  /\ b \in Shape
             /\ Flow(b.node) = Flow(t.node)
             /\ b.status = t.status /\ b.flow = t.flow /\ b.visits = t.visits
             /\ b.stack = t.stack /\ b.frames = t.frames /\ b.owned = t.owned
             /\ b.off = t.off /\ b.meta = t.meta
             /\ IF t.node \in t.off /\ ~ Over(t)
                  THEN b.moves = t.moves + 1 ELSE b = t
  <1>1. CASE ~ (t.node \in t.off /\ ~ Over(t))
    BY <1>1 DEF Bypass
  <1>2. CASE t.node \in t.off /\ ~ Over(t)
    <2> DEFINE target == Def[t.node].bypass
    <2>1. t.node \in Conditional /\ t.node \in Nodes
      BY <1>2, Nodal DEF Shape
    <2>2. target \in Nodes /\ Flow(target) = Flow(t.node)
      BY <2>1, Nodal
    <2>3. t.moves \in Nat /\ t.moves < MoveCap
      BY <1>2, <2>1, Cap, Nodal DEF Shape, Over
    <2>4. Bypass(t) = Move(t, t.node, target, FALSE)
      BY <1>2 DEF Bypass
    <2> DEFINE m == Move(t, t.node, target, FALSE)
    <2> HIDE DEF target
    <2>5. /\ m \in Shape /\ m.node = target
          /\ m.moves = IF t.moves < MoveCap THEN t.moves + 1 ELSE MoveCap
          /\ m.status = t.status /\ m.flow = t.flow /\ m.visits = t.visits
          /\ m.stack = t.stack /\ m.frames = t.frames /\ m.owned = t.owned
          /\ m.off = t.off /\ m.meta = t.meta
      BY <2>1, <2>2, Moved, Zenon
    <2> HIDE DEF m
    <2>6. Bypass(t) = m
      BY <2>4 DEF m
    <2>7. QED
      BY <1>2, <2>2, <2>3, <2>5, <2>6
  <1>3. QED
    BY <1>1, <1>2

(* What an entry, or any step that moves the ticket alone, leaves alone.   *)
Alike(s, t) == /\ s.flow = t.flow /\ s.stack = t.stack /\ s.frames = t.frames
               /\ s.owned = t.owned /\ s.off = t.off /\ s.meta = t.meta

(* A chain of bypasses ends: past the ceiling, or at a node that is not    *)
(* passed over.  A ticket that passes nothing over stays as it is, and     *)
(* what each bypass preserves the chain does.                              *)
LEMMA PassedOver ==
  ASSUME NEW T \in SUBSET Shape, \A s \in T : Bypass(s) \in T, NEW t \in T
  PROVE  \E last \in T :
           /\ \A count : Enter(t, count) = IF Over(last) THEN [last EXCEPT !.status = "blocked"]
                                           ELSE Arrive(last, count)
           /\ Alike(last, t) /\ last.visits = t.visits
           /\ Flow(last.node) = Flow(t.node)
           /\ last.node \in last.off => Over(last)
           /\ ~ (t.node \in t.off /\ ~ Over(t)) => last = t
  <1> DEFINE S == {s \in T : /\ Alike(s, t) /\ s.visits = t.visits
                             /\ Flow(s.node) = Flow(t.node)}
             chain == Ceiling[Flow(t.node)] + 1
             Passes(p) == p = [i \in 0..chain |-> IF i = 0 THEN t ELSE Bypass(p[i - 1])]
             passed == CHOOSE p : Passes(p)
             last == passed[chain]
             f == [s \in S |-> Bypass(s)]
  <1>1. chain \in Nat /\ t.node \in Nodes /\ chain > Ceiling[Flow(t.node)]
        /\ Ceiling[Flow(t.node)] \in Nat
    BY Cap, Nodal DEF Shape
  <1>2. t \in S
    BY DEF Alike
  <1>3. ASSUME NEW s \in S PROVE Bypass(s) \in S
    <2>1. s \in Shape /\ s \in T
      OBVIOUS
    <2> DEFINE b == Bypass(s)
    <2>0. b \in T
      BY <2>1
    <2>2. /\ b \in Shape /\ Flow(b.node) = Flow(s.node)
          /\ b.flow = s.flow /\ b.visits = s.visits /\ b.stack = s.stack
          /\ b.frames = s.frames /\ b.owned = s.owned /\ b.off = s.off /\ b.meta = s.meta
      BY <2>1, Bypassed, Zenon
    <2> HIDE DEF b
    <2>3. b \in S
      BY <2>0, <2>2 DEF Alike
    <2>4. QED
      BY <2>3 DEF b
  <1>4. f \in [S -> S]
    BY <1>3
  <1>5. \E p : Passes(p)
    <2>1. PICK g : /\ g \in [0..chain -> S]
                   /\ g[0] = t /\ \A i \in 1..chain : g[i] = f[g[i - 1]]
      <3>1. chain \in Nat
        BY <1>1
      <3> HIDE DEF f, S, chain
      <3>2. \E g : Iterates(g, S, f, t, chain)
        BY <3>1, <1>2, <1>4, Iterated
      <3>3. QED
        BY <3>2 DEF Iterates
    <2>2. \A i \in 0..chain : i # 0 => g[i - 1] \in S
      <3> HIDE DEF S, f, chain
      <3>1. QED
        BY <1>1, <2>1
    <2>3. \A i \in 0..chain : i # 0 => f[g[i - 1]] = Bypass(g[i - 1])
      <3>1. \A s \in S : f[s] = Bypass(s)
        BY Zenon
      <3> HIDE DEF S, f
      <3>2. QED
        BY <2>2, <3>1
    <2>4. g = [i \in 0..chain |-> IF i = 0 THEN t ELSE Bypass(g[i - 1])]
      <3> HIDE DEF S, f, chain
      <3>1. QED
        BY <2>1, <2>3
    <2>5. QED
      BY <2>4
  <1>6. Passes(passed)
    BY <1>5, Zenon
  <1>7. \A count : Enter(t, count) = IF Over(last) THEN [last EXCEPT !.status = "blocked"]
                                     ELSE Arrive(last, count)
    BY Zenon DEF Enter
  <1> HIDE DEF passed
  <1>8. passed[0] = t /\ \A i \in 1..chain : passed[i] = Bypass(passed[i - 1])
    <2> HIDE DEF chain
    <2>1. QED
      BY <1>1, <1>6
  <1> HIDE DEF chain
  <1>9. \A i \in 0..chain : passed[i] \in S
    <2> DEFINE G == {i \in 0..chain : passed[i] \in S}
    <2>1. 0 \in G
      BY <1>1, <1>2, <1>8
    <2>2. ASSUME NEW i \in 1..chain, i - 1 \in G PROVE i \in G
      BY <2>2, <1>1, <1>3, <1>8
    <2>3. \A i \in 0..chain : i \in G
      <3> HIDE DEF G
      <3>1. QED
        BY <1>1, <2>1, <2>2, Stepwise
    <2>4. QED
      BY <2>3
  <1>10. \A i \in 1..chain :
           IF passed[i - 1].node \in passed[i - 1].off /\ ~ Over(passed[i - 1])
             THEN passed[i].moves = passed[i - 1].moves + 1
             ELSE passed[i] = passed[i - 1]
    <2>1. SUFFICES ASSUME NEW i \in 1..chain
                   PROVE  IF passed[i - 1].node \in passed[i - 1].off /\ ~ Over(passed[i - 1])
                            THEN passed[i].moves = passed[i - 1].moves + 1
                            ELSE passed[i] = passed[i - 1]
      OBVIOUS
    <2>2. passed[i - 1] \in Shape /\ passed[i] = Bypass(passed[i - 1])
      BY <1>1, <1>8, <1>9
    <2>3. QED
      BY <2>2, Bypassed
  <1>11. \A i \in 0..chain :
           passed[i].node \in passed[i].off /\ ~ Over(passed[i]) => passed[i].moves >= i
    <2> DEFINE G == {i \in 0..chain :
                  passed[i].node \in passed[i].off /\ ~ Over(passed[i]) => passed[i].moves >= i}
    <2>1. 0 \in G
      <3>1. passed[0].moves \in 0..MoveCap
        BY <1>8 DEF Shape
      <3>2. QED
        BY <3>1, <1>1, Cap
    <2>2. ASSUME NEW i \in 1..chain, i - 1 \in G PROVE i \in G
      <3>1. i \in 0..chain /\ i - 1 \in 0..chain /\ i \in Nat
        BY <1>1
      <3>2. passed[i - 1].moves \in Nat
        BY <1>9, <3>1, Cap DEF Shape
      <3> DEFINE a == passed[i - 1]
                 b == passed[i]
      <3>3. IF a.node \in a.off /\ ~ Over(a) THEN b.moves = a.moves + 1 ELSE b = a
        BY <1>10
      <3>4. a.node \in a.off /\ ~ Over(a) => a.moves >= i - 1
        BY <2>2
      <3> HIDE DEF a, b
      <3>5. b.node \in b.off /\ ~ Over(b) => b.moves >= i
        BY <3>1, <3>2, <3>3, <3>4 DEF a
      <3>6. QED
        BY <3>1, <3>5 DEF b
    <2>3. \A i \in 0..chain : i \in G
      <3> HIDE DEF G
      <3>1. QED
        BY <1>1, <2>1, <2>2, Stepwise
    <2>4. QED
      BY <2>3
  <1>12. ~ (t.node \in t.off /\ ~ Over(t)) => last = t
    <2>1. SUFFICES ASSUME ~ (t.node \in t.off /\ ~ Over(t)) PROVE last = t
      OBVIOUS
    <2> DEFINE G == {i \in 0..chain : passed[i] = t}
    <2>2. 0 \in G
      BY <1>1, <1>8
    <2>3. ASSUME NEW i \in 1..chain, i - 1 \in G PROVE i \in G
      BY <2>1, <2>3, <1>1, <1>10
    <2>4. \A i \in 0..chain : i \in G
      <3> HIDE DEF G
      <3>1. QED
        BY <1>1, <2>2, <2>3, Stepwise
    <2>5. QED
      BY <2>4, <1>1
  <1>13. last \in S
    BY <1>1, <1>9
  <1>14. last.node \in last.off => Over(last)
    <2>1. SUFFICES ASSUME last.node \in last.off, ~ Over(last) PROVE FALSE
      OBVIOUS
    <2>2. last.moves >= chain /\ last.moves \in 0..MoveCap /\ Flow(last.node) = Flow(t.node)
      BY <1>1, <1>11, <1>13, <2>1 DEF Shape
    <2>3. QED
      BY <1>1, <2>1, <2>2, Cap DEF Over
  <1>15. QED
    BY <1>7, <1>12, <1>13, <1>14

-----------------------------------------------------------------------------
(***************************************************************************)
(* Entering a node.                                                        *)
(***************************************************************************)

LEMMA Projected ==
  ASSUME NEW n \in Nodes
  PROVE  /\ Projection(n) \in Status /\ Projection(n) # "pending"
  <1>1. Type(n) = "terminal" => Projection(n) \in {"completed", "failed", "cancelled"}
    BY Routed DEF Projection, OfType
  <1>2. Type(n) # "terminal" => Projection(n) \in {"ready", "waiting_approval", "waiting_external"}
    BY DEF Projection
  <1>3. QED
    BY <1>1, <1>2 DEF Status

LEMMA Visited ==
  ASSUME NEW t \in Shape
  PROVE  LET v == Visit(t)
         IN  /\ v \in Shape /\ v.node = t.node /\ v.moves = t.moves
             /\ v.status = t.status /\ v.flow = t.flow
             /\ v.stack = t.stack /\ v.frames = t.frames /\ v.owned = t.owned
             /\ v.off = t.off /\ v.meta = t.meta /\ v.waits = t.waits
  <1> DEFINE visits == [t.visits EXCEPT ![t.node] = IF @ < VisitCap THEN @ + 1 ELSE @]
             v == [t EXCEPT !.visits = visits]
  <1>1. VisitCap \in Nat /\ t.node \in Nodes /\ t.visits \in [Nodes -> 0..VisitCap]
    BY BoundAssumption DEF Shape
  <1>2. visits \in [Nodes -> 0..VisitCap]
    BY <1>1
  <1>3. Visit(t) = IF Limit(t.node) = 0 THEN t ELSE v
    BY DEF Visit
  <1> HIDE DEF visits
  <1>4. v \in Shape
    BY <1>2 DEF Shape
  <1>5. QED
    BY <1>3, <1>4 DEF Shape

(* What an entry leaves: a ticket that rests where it may.                 *)
Rests(e, t, count) ==
    /\ e \in Shape /\ Alike(e, t) /\ Flow(e.node) = Flow(t.node)
    /\ e.node \in e.off => Over(e)
    /\ e.status # "pending" /\ (e.status = "ready" => ~ Over(e))
    /\ count => (e.status = "ready" => ~ Counted(e, e.node))
    /\ ~ count => e.visits = t.visits
    /\ ~ (t.node \in t.off /\ ~ Over(t)) => e.node = t.node

LEMMA Arrived ==
  ASSUME NEW t \in Shape, NEW count \in BOOLEAN, ~ Over(t), t.node \notin t.off
  PROVE  Rests(Arrive(t, count), t, count)
  <1> DEFINE v == IF count THEN Visit(t) ELSE t
  <1>1. /\ v \in Shape /\ v.node = t.node /\ v.moves = t.moves
        /\ v.status = t.status /\ v.flow = t.flow
        /\ v.stack = t.stack /\ v.frames = t.frames /\ v.owned = t.owned
        /\ v.off = t.off /\ v.meta = t.meta
        /\ ~ count => v.visits = t.visits
    BY Visited
  <1> DEFINE status == IF count /\ Counted(v, v.node) THEN "blocked" ELSE Projection(v.node)
             e == [v EXCEPT !.status = status]
  <1>2. Arrive(t, count) = e
    BY DEF Arrive
  <1> HIDE DEF v
  <1>3. status \in Status /\ status # "pending"
        /\ (count => (status = "ready" => ~ Counted(v, v.node)))
    BY <1>1, Projected DEF Status, Shape
  <1> HIDE DEF status
  <1>4. /\ e \in Shape /\ e.node = v.node /\ e.moves = v.moves /\ e.flow = v.flow
        /\ e.stack = v.stack /\ e.frames = v.frames /\ e.owned = v.owned
        /\ e.off = v.off /\ e.meta = v.meta /\ e.visits = v.visits /\ e.status = status
    BY <1>1, <1>3 DEF Shape
  <1> HIDE DEF e
  <1>5. ~ Over(e)
    BY <1>1, <1>4 DEF Over
  <1>6. Counted(e, e.node) = Counted(v, v.node)
    BY <1>4 DEF Counted
  <1>7. Rests(e, t, count)
    BY <1>1, <1>3, <1>4, <1>5, <1>6 DEF Rests, Alike
  <1>8. QED
    BY <1>2, <1>7

LEMMA Entered ==
  ASSUME NEW t \in Shape, NEW count \in BOOLEAN
  PROVE  Rests(Enter(t, count), t, count)
  <1>1. PICK last \in Shape :
           /\ \A c : Enter(t, c) = IF Over(last) THEN [last EXCEPT !.status = "blocked"]
                                   ELSE Arrive(last, c)
           /\ Alike(last, t) /\ last.visits = t.visits
           /\ Flow(last.node) = Flow(t.node)
           /\ last.node \in last.off => Over(last)
           /\ ~ (t.node \in t.off /\ ~ Over(t)) => last = t
    <2>1. Shape \in SUBSET Shape /\ \A s \in Shape : Bypass(s) \in Shape
      BY Bypassed, Zenon
    <2>2. QED
      BY <2>1, PassedOver, Zenon
  <1>2. CASE Over(last)
    <2> DEFINE e == [last EXCEPT !.status = "blocked"]
    <2>1. Enter(t, count) = e
      BY <1>1, <1>2
    <2>2. /\ e \in Shape /\ e.node = last.node /\ e.moves = last.moves /\ e.flow = last.flow
          /\ e.stack = last.stack /\ e.frames = last.frames /\ e.owned = last.owned
          /\ e.off = last.off /\ e.meta = last.meta /\ e.visits = last.visits
          /\ e.status = "blocked"
      BY DEF Shape, Status
    <2> HIDE DEF e
    <2>3. Over(e)
      BY <1>2, <2>2 DEF Over
    <2>4. QED
      BY <1>1, <2>1, <2>2, <2>3 DEF Rests, Alike
  <1>3. CASE ~ Over(last)
    <2> DEFINE e == Arrive(last, count)
    <2>1. Enter(t, count) = e
      BY <1>1, <1>3
    <2>2. Rests(e, last, count)
      BY <1>1, <1>3, Arrived
    <2> HIDE DEF e
    <2>3. ~ (last.node \in last.off)
      BY <1>1, <1>3
    <2>4. Rests(e, t, count)
      BY <1>1, <2>2, <2>3 DEF Rests, Alike
    <2>5. QED
      BY <2>1, <2>4
  <1>4. QED
    BY <1>2, <1>3

(* With its visit counted, an entry leaves nothing to claim beyond limits. *)
LEMMA RestsClaimable ==
  ASSUME NEW t, NEW e, Rests(e, t, TRUE)
  PROVE  e \in Shape /\ Alike(e, t) /\ Flow(e.node) = Flow(t.node) /\ Claimable(e)
  BY DEF Rests, Claimable

LEMMA PlacedKept ==
  ASSUME NEW t, NEW e, Placed(t), e.flow = t.flow, e.stack = t.stack,
         Flow(e.node) = Flow(t.node)
  PROVE  Placed(e)
  BY DEF Placed, Path

LEMMA Transited ==
  ASSUME NEW t \in Shape, NEW source \in Nodes, NEW target \in Nodes,
         NEW operator \in BOOLEAN
  PROVE  LET e == Transition(t, source, target, operator)
         IN  e \in Shape /\ Alike(e, t) /\ Flow(e.node) = Flow(target) /\ Claimable(e)
  <1> DEFINE m == Move(t, source, target, operator)
             e == Transition(t, source, target, operator)
  <1>1. m \in Shape /\ m.node = target /\ m.flow = t.flow /\ m.stack = t.stack
        /\ m.frames = t.frames /\ m.owned = t.owned /\ m.off = t.off /\ m.meta = t.meta
    <2>1. /\ m \in Shape /\ m.node = target
          /\ m.moves = IF t.moves < MoveCap THEN t.moves + 1 ELSE MoveCap
          /\ m.status = t.status /\ m.flow = t.flow /\ m.visits = t.visits
          /\ m.stack = t.stack /\ m.frames = t.frames /\ m.owned = t.owned
          /\ m.off = t.off /\ m.meta = t.meta
      BY Moved, ZenonT(60)
    <2> HIDE DEF m
    <2>2. QED
      BY <2>1
  <1>2. e = Enter(m, TRUE)
    BY DEF Transition
  <1> HIDE DEF m, e
  <1>3. TRUE \in BOOLEAN
    OBVIOUS
  <1>4. Rests(e, m, TRUE)
    BY <1>1, <1>2, <1>3, Entered, Zenon
  <1>5. e \in Shape /\ Alike(e, m) /\ Flow(e.node) = Flow(m.node) /\ Claimable(e)
    BY <1>4, RestsClaimable
  <1>6. e \in Shape /\ Alike(e, t) /\ Flow(e.node) = Flow(target) /\ Claimable(e)
    BY <1>1, <1>5 DEF Alike
  <1>7. QED
    BY <1>6 DEF e

LEMMA Followed ==
  ASSUME NEW t \in Shape, NEW route \in DOMAIN Def[t.node].routes
  PROVE  LET e == Follow(t, route)
         IN  /\ e \in Shape /\ Alike(e, t) /\ Flow(e.node) = Flow(t.node)
             /\ Claimable(e)
  <1> DEFINE target == To(t.node, route)
             e == Transition(t, t.node, target, FALSE)
  <1>1. t.node \in Nodes /\ target \in Nodes /\ Flow(target) = Flow(t.node)
    BY Nodal DEF Shape
  <1>2. Follow(t, route) = e
    BY DEF Follow
  <1> HIDE DEF target
  <1>3. e \in Shape /\ Alike(e, t) /\ Flow(e.node) = Flow(target) /\ Claimable(e)
    <2>1. FALSE \in BOOLEAN
      OBVIOUS
    <2>2. QED
      BY <1>1, <2>1, Transited, Zenon
  <1> HIDE DEF e
  <1>4. QED
    BY <1>1, <1>2, <1>3

(* A ticket on its path, followed along a route, is sound.                 *)
LEMMA FollowedSound ==
  ASSUME NEW t \in Shape, Placed(t), NEW route \in DOMAIN Def[t.node].routes
  PROVE  Follow(t, route) \in Sound /\ Alike(Follow(t, route), t)
  <1> DEFINE e == Follow(t, route)
  <1>1. /\ e \in Shape /\ Alike(e, t) /\ Flow(e.node) = Flow(t.node)
        /\ Claimable(e)
    BY Followed, Zenon
  <1> HIDE DEF e
  <1>2. Placed(e)
    BY <1>1, PlacedKept DEF Alike
  <1>3. QED
    BY <1>1, <1>2 DEF Sound, e

(* So is a ticket on its path that enters its node with a visit counted.   *)
LEMMA EnteredSound ==
  ASSUME NEW t \in Shape, Placed(t)
  PROVE  Enter(t, TRUE) \in Sound
  <1> DEFINE e == Enter(t, TRUE)
  <1>1. Rests(e, t, TRUE)
    <2>1. TRUE \in BOOLEAN
      OBVIOUS
    <2>2. QED
      BY <2>1, Entered, Zenon
  <1> HIDE DEF e
  <1>2. e \in Shape /\ Alike(e, t) /\ Flow(e.node) = Flow(t.node) /\ Claimable(e)
    BY <1>1, RestsClaimable
  <1>3. Placed(e)
    BY <1>2, PlacedKept DEF Alike
  <1>4. QED
    BY <1>2, <1>3 DEF Sound, e

(* A change of status at the same node, to one nobody claims.              *)
LEMMA StatusSound ==
  ASSUME NEW t \in Sound, NEW e \in Shape, Alike(e, t), e.node = t.node,
         e.moves = t.moves, e.status \notin {"ready", "pending"}
  PROVE  e \in Sound
  <1>1. t \in Shape /\ Claimable(t) /\ Placed(t)
    BY DEF Sound
  <1>2. Placed(e)
    BY <1>1, PlacedKept DEF Alike
  <1>3. Over(e) = Over(t)
    BY DEF Over
  <1>4. Claimable(e)
    BY <1>1, <1>3 DEF Claimable, Alike
  <1>5. QED
    BY <1>2, <1>4 DEF Sound

-----------------------------------------------------------------------------
(***************************************************************************)
(* Settlement, node by node.                                               *)
(***************************************************************************)

(* What settling a node may give.                                          *)
Outcomes == [ticket : Sound, more : BOOLEAN]

LEMMA Given ==
  ASSUME NEW t \in Sound
  PROVE  GoOn(t) \in Outcomes /\ Rest(t) \in Outcomes
  BY DEF GoOn, Rest, Outcomes

(* Time spent and waits ended change neither the node nor its claim.       *)
LEMMA Stirred ==
  ASSUME NEW t \in Shape, NEW waits \in [Waits -> Wait \cup {NoWait}]
  PROVE  LET e == [t EXCEPT !.waits = waits]
         IN  /\ e \in Shape /\ Alike(e, t) /\ e.node = t.node /\ e.moves = t.moves
             /\ e.status = t.status /\ e.visits = t.visits
  BY DEF Shape, Alike

LEMMA SettleWaitSound ==
  ASSUME NEW t \in Sound, Type(t.node) = "wait"
  PROVE  SettleWait(t) \in Outcomes
  <1> DEFINE n == t.node
             w == t.waits[n]
             over == [t EXCEPT !.waits = [t.waits EXCEPT ![n] = NoWait]]
             stopped == [w EXCEPT !.running = FALSE]
             done == [t EXCEPT !.waits = [t.waits EXCEPT ![n] = stopped]]
             left == IF w = NoWait THEN WaitDeadline ELSE w.left
             wait == [running |-> TRUE, asleep |-> Smaller(left, WaitDelay), left |-> left]
             awaits == [t EXCEPT !.waits = [t.waits EXCEPT ![n] = wait],
                                 !.status = "waiting_external"]
  <1>1. /\ t \in Shape /\ Placed(t) /\ n \in Waits /\ n \in Nodes
        /\ t.waits \in [Waits -> Wait \cup {NoWait}] /\ w \in Wait \cup {NoWait}
        /\ "elapsed" \in DOMAIN Def[n].routes /\ "timed_out" \in DOMAIN Def[n].routes
    BY Routed DEF Sound, Shape, Waits, OfType
  <1>2. left \in 0..WaitDeadline /\ Smaller(left, WaitDelay) \in 0..WaitDelay
    BY <1>1, BoundAssumption DEF Wait, Smaller
  <1>3. wait \in Wait
    BY <1>2 DEF Wait
  <1>4. w.running => stopped \in Wait
    <2>1. \A x \in Wait : [x EXCEPT !.running = FALSE] \in Wait
      BY DEF Wait
    <2>2. NoWait.running = FALSE
      BY DEF NoWait
    <2>3. w.running => w \in Wait
      <3> HIDE DEF w
      <3>1. QED
        BY <1>1, <2>2
    <2>4. QED
      BY <2>1, <2>3, Zenon
  <1>5. CASE ~ w.running
    <2>1. SettleWait(t) = Rest(awaits)
      BY <1>5 DEF SettleWait
    <2> HIDE DEF wait
    <2>2. /\ awaits \in Shape /\ Alike(awaits, t) /\ awaits.node = t.node
          /\ awaits.moves = t.moves /\ awaits.status = "waiting_external"
      BY <1>1, <1>3 DEF Shape, Alike, Status
    <2> HIDE DEF awaits
    <2>3. awaits \in Sound
      BY <2>2, StatusSound
    <2>4. QED
      BY <2>1, <2>3, Given
  <1>6. CASE w.running /\ w.left = 0
    <2>1. SettleWait(t) = GoOn(Follow(over, "timed_out"))
      BY <1>6 DEF SettleWait
    <2>2. over \in Shape /\ Alike(over, t) /\ over.node = n
      BY <1>1 DEF Shape, Alike
    <2> HIDE DEF over
    <2>3. Placed(over)
      BY <1>1, <2>2, PlacedKept DEF Alike
    <2>4. Follow(over, "timed_out") \in Sound
      BY <1>1, <2>2, <2>3, FollowedSound
    <2>5. QED
      BY <2>1, <2>4, Given
  <1>7. CASE w.running /\ w.left > 0 /\ w.asleep = 0
    <2>1. SettleWait(t) = GoOn(Follow(done, "elapsed"))
      BY <1>7 DEF SettleWait
    <2>2. done \in Shape /\ Alike(done, t) /\ done.node = n
      <3> HIDE DEF stopped
      <3>1. QED
        BY <1>1, <1>4, <1>7 DEF Shape, Alike
    <2> HIDE DEF done
    <2>3. Placed(done)
      BY <1>1, <2>2, PlacedKept DEF Alike
    <2>4. Follow(done, "elapsed") \in Sound
      BY <1>1, <2>2, <2>3, FollowedSound
    <2>5. QED
      BY <2>1, <2>4, Given
  <1>8. CASE w.running /\ w.left # 0 /\ ~ (w.left > 0 /\ w.asleep = 0)
    <2>1. SettleWait(t) = Rest(t)
      BY <1>8 DEF SettleWait
    <2>2. QED
      BY <2>1, Given
  <1>9. QED
    BY <1>5, <1>6, <1>7, <1>8

LEMMA SettleReadSound ==
  ASSUME NEW t \in Sound, Type(t.node) = "read"
  PROVE  SettleRead(t) \in Outcomes
  <1>1. t \in Shape /\ Placed(t) /\ t.meta \in DOMAIN Def[t.node].routes
    BY Routed DEF Sound, Shape, OfType
  <1>2. Follow(t, t.meta) \in Sound
    BY <1>1, FollowedSound
  <1>3. QED
    BY <1>2, Given DEF SettleRead

LEMMA SettleWriteSound ==
  ASSUME NEW t \in Sound, Type(t.node) = "write"
  PROVE  SettleWrite(t) \in Outcomes
  <1> DEFINE e == [t EXCEPT !.meta = Def[t.node].arg]
  <1>1. /\ t \in Shape /\ Placed(t) /\ Def[t.node].arg \in Values
        /\ "next" \in DOMAIN Def[t.node].routes
    BY Routed DEF Sound, Shape, OfType
  <1>2. e \in Shape /\ e.node = t.node /\ e.flow = t.flow /\ e.stack = t.stack
    BY <1>1 DEF Shape
  <1>3. SettleWrite(t) = GoOn(Follow(e, "next"))
    BY DEF SettleWrite
  <1> HIDE DEF e
  <1>4. Placed(e)
    BY <1>1, <1>2, PlacedKept
  <1>5. Follow(e, "next") \in Sound
    BY <1>1, <1>2, <1>4, FollowedSound
  <1>6. QED
    BY <1>3, <1>5, Given

(* A fan-out starts with every branch but the first still to come.         *)
LEMMA FannedOut ==
  ASSUME NEW n \in OfType("fan_out")
  PROVE  /\ [fan |-> n, pending |-> Tail(Def[n].routes), inputs |-> 0] \in Branch
         /\ 1 \in DOMAIN Def[n].routes
  <1> DEFINE routes == Def[n].routes
             pending == Tail(routes)
             f == [fan |-> n, pending |-> pending, inputs |-> 0]
  <1>1. routes \in Seq(Nodes) /\ routes # <<>> /\ n \in Nodes
    BY Routed DEF OfType
  <1>2. \A k \in DOMAIN routes : routes[k] \in Targets(n)
    BY DEF Targets, To
  <1>3. /\ pending \in Seq(Nodes) /\ Len(pending) = Len(routes) - 1
        /\ \A k \in 1..Len(pending) : pending[k] = routes[k + 1]
        /\ Len(routes) \in Nat /\ DOMAIN routes = 1..Len(routes)
        /\ Len(pending) \in Nat /\ DOMAIN pending = 1..Len(pending)
    <2> HIDE DEF routes
    <2>1. pending \in Seq(Nodes) /\ Len(pending) = Len(routes) - 1
          /\ \A k \in 1..Len(pending) : pending[k] = routes[k + 1]
      BY <1>1, HeadTailProperties
    <2>2. QED
      BY <1>1, <2>1, LenProperties
  <1> HIDE DEF pending
  <1>4. \A k \in DOMAIN pending : pending[k] \in Targets(n)
    <2> HIDE DEF routes
    <2>1. ASSUME NEW k \in 1..Len(pending) PROVE pending[k] \in Targets(n)
      <3>1. k + 1 \in DOMAIN routes /\ pending[k] = routes[k + 1]
        BY <1>3
      <3>2. QED
        BY <1>2, <3>1
    <2>2. QED
      BY <1>3, <2>1
  <1>5. f \in Frame /\ f.fan = n /\ f.pending = pending /\ f.inputs = 0
    BY <1>3 DEF Frame
  <1>6. f \in Branch
    <2> HIDE DEF f, routes
    <2>1. f.inputs + 1 + Len(f.pending) = Len(routes)
      BY <1>3, <1>5
    <2>2. QED
      BY <1>4, <1>5, <2>1 DEF Branch, routes
  <1>7. 1 \in DOMAIN routes
    BY <1>3
  <1>8. QED
    BY <1>6, <1>7 DEF pending, f

LEMMA SettleFanOutSound ==
  ASSUME NEW t \in Sound, Type(t.node) = "fan_out"
  PROVE  SettleFanOut(t) \in Outcomes
  <1> DEFINE frame == [fan |-> t.node, pending |-> Tail(Def[t.node].routes), inputs |-> 0]
             e == [t EXCEPT !.frames = Append(t.frames, frame)]
  <1>1. t \in Shape /\ Placed(t) /\ t.node \in OfType("fan_out")
    BY DEF Sound, Shape, OfType
  <1>2. frame \in Branch /\ 1 \in DOMAIN Def[t.node].routes
    BY <1>1, FannedOut
  <1>3. SettleFanOut(t) = GoOn(Follow(e, 1))
    BY DEF SettleFanOut
  <1> HIDE DEF frame
  <1>4. e \in Shape /\ e.node = t.node /\ e.flow = t.flow /\ e.stack = t.stack
    <2>1. t.frames \in Seq(Branch)
      BY <1>1 DEF Shape
    <2>2. Append(t.frames, frame) \in Seq(Branch)
      BY <1>2, <2>1, AppendProperties
    <2>3. QED
      BY <1>1, <2>2 DEF Shape
  <1> HIDE DEF e
  <1>5. Placed(e)
    BY <1>1, <1>4, PlacedKept
  <1>6. Follow(e, 1) \in Sound
    BY <1>1, <1>2, <1>4, <1>5, FollowedSound
  <1>7. QED
    BY <1>3, <1>6, Given

(* The frame a fan-in finds is one that waits for it.                      *)
LEMMA FrameFound ==
  ASSUME NEW t \in Shape
  PROVE  /\ FrameOf(t) \in 0..Len(t.frames)
         /\ FrameOf(t) # 0 => Def[t.frames[FrameOf(t)].fan].arg = t.node
  <1> DEFINE I == {i \in 1..Len(t.frames) : Def[t.frames[i].fan].arg = t.node}
             B == {Len(t.frames) - i : i \in I}
  <1>1. FrameOf(t) = IF I # {} THEN Max(I) ELSE 0
    BY DEF FrameOf, SelectLastInSeq
  <1>2. Len(t.frames) \in Nat
    BY DEF Shape
  <1>3. ASSUME I # {} PROVE Max(I) \in I
    <2>0. \A i \in I : i \in Nat /\ Len(t.frames) - i \in Nat
      BY <1>2
    <2>1. B \subseteq Nat /\ B # {}
      <3> HIDE DEF I
      <3>1. QED
        BY <1>3, <2>0
    <2>2. PICK m \in B : \A k \in B : m <= k
      <3> HIDE DEF B
      <3>1. QED
        BY <2>1, Smallest
    <2>3. PICK i \in I : m = Len(t.frames) - i
      BY <2>2
    <2>4. \A j \in I : i >= j
      <3>1. SUFFICES ASSUME NEW j \in I PROVE i >= j
        OBVIOUS
      <3>2. Len(t.frames) - j \in B
        OBVIOUS
      <3>3. Len(t.frames) - i <= Len(t.frames) - j
        <4> HIDE DEF I, B
        <4>1. QED
          BY <2>2, <2>3, <3>2
      <3>4. i \in Nat /\ j \in Nat
        OBVIOUS
      <3>5. QED
        <4> HIDE DEF I, B
        <4>1. QED
          BY <1>2, <3>3, <3>4
    <2> HIDE DEF I
    <2>5. QED
      BY <2>4, Zenon DEF Max
  <1>4. CASE I # {}
    <2> DEFINE i == Max(I)
    <2>1. i \in I /\ FrameOf(t) = i
      BY <1>1, <1>3, <1>4, Zenon
    <2> HIDE DEF i
    <2>2. i \in 1..Len(t.frames) /\ Def[t.frames[i].fan].arg = t.node
      BY <2>1
    <2>3. QED
      BY <1>2, <2>1, <2>2
  <1>5. CASE I = {}
    <2>1. FrameOf(t) = 0
      <3> HIDE DEF I
      <3>1. QED
        BY <1>1, <1>5
    <2>2. QED
      BY <1>2, <2>1
  <1>6. QED
    BY <1>4, <1>5

(* A frame that is joined and sends its next branch still adds up.         *)
LEMMA Joined ==
  ASSUME NEW f \in Branch, f.pending # <<>>
  PROVE  /\ [f EXCEPT !.inputs = @ + 1, !.pending = Tail(@)] \in Branch
         /\ Head(f.pending) \in Targets(f.fan)
  <1> DEFINE pending == Tail(f.pending)
             inputs == f.inputs + 1
             g == [f EXCEPT !.inputs = inputs, !.pending = pending]
  <1>1. /\ f.fan \in OfType("fan_out") /\ f.pending \in Seq(Nodes) /\ f.inputs \in Nat
        /\ f.inputs + 1 + Len(f.pending) = Len(Def[f.fan].routes)
        /\ \A k \in DOMAIN f.pending : f.pending[k] \in Targets(f.fan)
        /\ f \in Frame
    BY DEF Branch, Frame
  <1>2. /\ pending \in Seq(Nodes) /\ Len(pending) = Len(f.pending) - 1
        /\ \A k \in 1..Len(pending) : pending[k] = f.pending[k + 1]
        /\ Len(f.pending) \in Nat /\ DOMAIN f.pending = 1..Len(f.pending)
        /\ Len(pending) \in Nat /\ DOMAIN pending = 1..Len(pending)
        /\ Head(f.pending) \in Nodes
    <2>1. pending \in Seq(Nodes) /\ Len(pending) = Len(f.pending) - 1
          /\ Head(f.pending) \in Nodes
          /\ \A k \in 1..Len(pending) : pending[k] = f.pending[k + 1]
      BY <1>1, HeadTailProperties
    <2>2. QED
      BY <1>1, <2>1, LenProperties
  <1>3. Head(f.pending) = f.pending[1] /\ 1 \in DOMAIN f.pending
    <2>1. Len(f.pending) # 0
      BY <1>1, <1>2
    <2>2. QED
      BY <1>1, <1>2, <2>1
  <1> HIDE DEF pending, inputs
  <1>4. \A k \in DOMAIN pending : pending[k] \in Targets(f.fan)
    <2>1. ASSUME NEW k \in 1..Len(pending) PROVE pending[k] \in Targets(f.fan)
      <3>1. k + 1 \in DOMAIN f.pending /\ pending[k] = f.pending[k + 1]
        BY <1>2
      <3>2. QED
        BY <1>1, <3>1
    <2>2. QED
      BY <1>2, <2>1
  <1>5. inputs \in Nat /\ inputs + 1 + Len(pending) = Len(Def[f.fan].routes)
    <2>1. f.inputs \in Nat /\ f.inputs + 1 + Len(f.pending) = Len(Def[f.fan].routes)
      BY <1>1
    <2>2. Len(pending) = Len(f.pending) - 1 /\ Len(f.pending) \in Nat
      BY <1>2
    <2>3. inputs \in Nat /\ inputs = f.inputs + 1
      BY <2>1 DEF inputs
    <2>4. PICK a, b \in Nat : a = f.inputs /\ b = Len(f.pending)
      BY <2>1, <2>2
    <2>5. inputs = a + 1 /\ Len(pending) = b - 1
      BY <2>2, <2>3, <2>4
    <2>6. inputs + 1 + Len(pending) = a + 1 + b
      <3>1. inputs + 1 = a + 2
        BY <2>5
      <3>2. inputs + 1 + Len(pending) = a + 2 + (b - 1)
        BY <2>5, <3>1
      <3>3. QED
        BY <3>2
    <2>7. f.inputs + 1 + Len(f.pending) = a + 1 + b
      BY <2>4
    <2>8. QED
      BY <2>1, <2>3, <2>6, <2>7
  <1>6. g \in Frame /\ g.fan = f.fan /\ g.inputs = inputs /\ g.pending = pending
    BY <1>1, <1>2, <1>5 DEF Frame
  <1> HIDE DEF g
  <1>7. g \in Branch
    BY <1>4, <1>5, <1>6 DEF Branch
  <1>8. g = [f EXCEPT !.inputs = @ + 1, !.pending = Tail(@)]
    BY DEF g, inputs, pending
  <1>9. QED
    BY <1>1, <1>2, <1>3, <1>7, <1>8

LEMMA Removed ==
  ASSUME NEW S, NEW s \in Seq(S), NEW i \in 1..Len(s)
  PROVE  RemoveAt(s, i) \in Seq(S)
  <1>1. Len(s) \in Nat /\ \A k \in 1..Len(s) : s[k] \in S
    BY LenProperties
  <1>2. SubSeq(s, 1, i - 1) \in Seq(S)
    <2>1. \A k \in 1..(i - 1) : s[k] \in S
      BY <1>1
    <2>2. 1 \in Int /\ i - 1 \in Int
      BY <1>1
    <2>3. QED
      BY <2>1, <2>2, SubSeqProperties
  <1>3. SubSeq(s, i + 1, Len(s)) \in Seq(S)
    <2>1. \A k \in (i + 1)..Len(s) : s[k] \in S
      BY <1>1
    <2>2. i + 1 \in Int /\ Len(s) \in Int
      BY <1>1
    <2>3. QED
      BY <2>1, <2>2, SubSeqProperties
  <1>4. QED
    BY <1>2, <1>3, ConcatProperties DEF RemoveAt

(* A branch that arrives while others are to come is joined, and the next  *)
(* of its fan-out's branches is entered.                                   *)
LEMMA BranchSent ==
  ASSUME NEW t \in Sound, Type(t.node) = "fan_in", FrameOf(t) # 0,
         t.frames[FrameOf(t)].pending # <<>>
  PROVE  \E again \in Shape, fan \in OfType("fan_out") :
           /\ SettleFanIn(t) = GoOn(Enter(again, TRUE)) /\ Placed(again)
           /\ Def[fan].arg = t.node /\ again.node \in Targets(fan)
           /\ again.waits = t.waits
  <1> DEFINE n == t.node
             i == FrameOf(t)
             f == t.frames[i]
             g == [f EXCEPT !.inputs = @ + 1, !.pending = Tail(@)]
             frames == [t.frames EXCEPT ![i] = g]
             visits == [t.visits EXCEPT ![n] = IF @ > 0 THEN @ - 1 ELSE 0]
             moves == IF t.moves < MoveCap THEN t.moves + 1 ELSE t.moves
             again == [t EXCEPT !.frames = frames, !.visits = visits,
                                !.node = Head(f.pending), !.moves = moves]
  <1>1. /\ t \in Shape /\ Placed(t) /\ n \in Nodes
        /\ t.frames \in Seq(Branch) /\ t.visits \in [Nodes -> 0..VisitCap]
        /\ t.moves \in 0..MoveCap
    BY DEF Sound, Shape
  <1>2. Len(t.frames) \in Nat /\ DOMAIN t.frames = 1..Len(t.frames)
    BY <1>1, LenProperties
  <1>3. i \in 1..Len(t.frames) /\ Def[f.fan].arg = n
    BY <1>1, <1>2, FrameFound
  <1> HIDE DEF i
  <1>4. f \in Branch /\ f.fan \in OfType("fan_out") /\ f.fan \in Nodes /\ f.pending # <<>>
    <2>1. f \in Branch
      BY <1>1, <1>3, ElementOfSeq
    <2>2. QED
      BY <2>1 DEF Branch, Frame, OfType, i
  <1>5. /\ g \in Branch /\ Head(f.pending) \in Targets(f.fan)
        /\ Head(f.pending) \in Nodes /\ Flow(Head(f.pending)) = Flow(n)
    <2>1. g \in Branch /\ Head(f.pending) \in Targets(f.fan)
      BY <1>4, Joined
    <2>2. Head(f.pending) \in Nodes /\ Flow(Head(f.pending)) = Flow(f.fan)
      BY <1>4, <2>1, Defined
    <2>3. Flow(f.fan) = Flow(n)
      BY <1>3, <1>4, Routed
    <2>4. QED
      BY <2>1, <2>2, <2>3
  <1>6. SettleFanIn(t) = GoOn(Enter(again, TRUE))
    <2> DEFINE joined == [t EXCEPT !.frames[i].inputs = @ + 1]
               coded == [joined EXCEPT !.frames[i].pending = Tail(@),
                                       !.visits[n] = IF @ > 0 THEN @ - 1 ELSE 0,
                                       !.node = Head(f.pending),
                                       !.moves = IF @ < MoveCap THEN @ + 1 ELSE @]
               once == [f EXCEPT !.inputs = @ + 1]
    <2>1. SettleFanIn(t) = GoOn(Enter(coded, TRUE))
      BY <1>4 DEF SettleFanIn, i
    <2>2. joined = [t EXCEPT !.frames = [t.frames EXCEPT ![i] = once]]
      OBVIOUS
    <2>3. joined.frames[i] = once /\ joined.frames = [t.frames EXCEPT ![i] = once]
      BY <1>1, <1>2, <1>3, <2>2 DEF Shape
    <2>4. once.pending = f.pending /\ g = [once EXCEPT !.pending = Tail(f.pending)]
      BY <1>4 DEF Branch, Frame
    <2>5. [joined.frames EXCEPT ![i].pending = Tail(@)] = frames
      <3> HIDE DEF joined, once
      <3>1. [joined.frames EXCEPT ![i].pending = Tail(@)]
              = [joined.frames EXCEPT ![i] = [once EXCEPT !.pending = Tail(f.pending)]]
        BY <2>3, <2>4
      <3>2. QED
        BY <1>1, <1>2, <2>3, <2>4, <3>1
    <2>6. /\ joined.visits = t.visits /\ joined.moves = t.moves
          /\ joined = [t EXCEPT !.frames = joined.frames]
      BY <1>1, <2>2 DEF Shape
    <2>7. coded = [joined EXCEPT !.frames = frames, !.visits = visits,
                                 !.node = Head(f.pending), !.moves = moves]
      <3> HIDE DEF joined, frames
      <3>1. QED
        BY <2>5, <2>6
    <2>8. coded = again
      <3> HIDE DEF frames, visits, moves, coded
      <3>1. QED
        BY <1>1, <2>6, <2>7 DEF Shape
    <2>9. QED
      BY <2>1, <2>8
  <1> HIDE DEF g
  <1>7. frames \in Seq(Branch)
    <2>1. \A s \in Seq(Branch) :
            \A k \in 1..Len(s), b \in Branch : [s EXCEPT ![k] = b] \in Seq(Branch)
      BY ExceptSeq, ZenonT(60)
    <2>2. g \in Branch
      BY <1>5
    <2>3. QED
      BY <1>1, <1>3, <2>1, <2>2, ZenonT(60)
  <1>8. visits \in [Nodes -> 0..VisitCap]
    BY <1>1, BoundAssumption
  <1>9. moves \in 0..MoveCap
    BY <1>1, Cap
  <1> HIDE DEF frames, visits, moves, f
  <1>10. again \in Shape /\ again.node = Head(f.pending) /\ again.flow = t.flow
         /\ again.stack = t.stack /\ again.waits = t.waits
    BY <1>1, <1>5, <1>7, <1>8, <1>9 DEF Shape
  <1> HIDE DEF again
  <1>11. Placed(again)
    BY <1>1, <1>5, <1>10, PlacedKept
  <1>12. QED
    BY <1>3, <1>4, <1>5, <1>6, <1>10, <1>11

LEMMA SettleFanInSound ==
  ASSUME NEW t \in Sound, Type(t.node) = "fan_in"
  PROVE  SettleFanIn(t) \in Outcomes
  <1> DEFINE n == t.node
             i == FrameOf(t)
             f == t.frames[i]
  <1>1. /\ t \in Shape /\ Placed(t) /\ n \in Nodes /\ "next" \in DOMAIN Def[n].routes
        /\ t.frames \in Seq(Branch)
    BY Routed DEF Sound, Shape, OfType
  <1>2. CASE i = 0
    <2> DEFINE e == [t EXCEPT !.status = "blocked"]
    <2>1. SettleFanIn(t) = Rest(e)
      BY <1>2 DEF SettleFanIn
    <2>2. /\ e \in Shape /\ Alike(e, t) /\ e.node = t.node /\ e.moves = t.moves
          /\ e.status = "blocked"
      BY <1>1 DEF Shape, Alike, Status
    <2> HIDE DEF e
    <2>3. e \in Sound
      BY <2>2, StatusSound
    <2>4. QED
      BY <2>1, <2>3, Given
  <1>3. CASE i # 0 /\ f.pending # <<>>
    <2>1. PICK again \in Shape : SettleFanIn(t) = GoOn(Enter(again, TRUE)) /\ Placed(again)
      BY <1>3, BranchSent
    <2>2. QED
      BY <2>1, EnteredSound, Given
  <1>4. CASE i # 0 /\ f.pending = <<>>
    <2> DEFINE frames == RemoveAt(t.frames, i)
               e == [t EXCEPT !.frames = frames]
    <2>1. SettleFanIn(t) = GoOn(Follow(e, "next"))
      BY <1>4 DEF SettleFanIn
    <2>2. frames \in Seq(Branch)
      <3>1. i \in 1..Len(t.frames)
        BY <1>1, <1>4, FrameFound, LenProperties
      <3>2. QED
        BY <1>1, <3>1, Removed
    <2> HIDE DEF frames
    <2>3. e \in Shape /\ e.node = t.node /\ e.flow = t.flow /\ e.stack = t.stack
      BY <1>1, <2>2 DEF Shape
    <2> HIDE DEF e
    <2>4. Placed(e)
      BY <1>1, <2>3, PlacedKept
    <2>5. QED
      BY <1>1, <2>1, <2>3, <2>4, FollowedSound, Given
  <1>5. QED
    BY <1>2, <1>3, <1>4

-----------------------------------------------------------------------------
(***************************************************************************)
(* Calls and returns.                                                      *)
(***************************************************************************)

LEMMA Called ==
  ASSUME NEW n \in OfType("call")
  PROVE  /\ n \in Nodes /\ Def[n].arg \in DOMAIN Ceiling
         /\ StartOf[Def[n].arg] \in Nodes /\ Flow(StartOf[Def[n].arg]) = Def[n].arg
         /\ 0 \in DOMAIN Def[n].routes /\ 1 \in DOMAIN Def[n].routes
  <1>1. n \in Nodes /\ Def[n].arg \in DOMAIN StartOf /\ {0, 1} \subseteq DOMAIN Def[n].routes
    BY Routed DEF OfType
  <1>2. StartOf[Def[n].arg] \in Nodes /\ Flow(StartOf[Def[n].arg]) = Def[n].arg
    BY <1>1, Defined
  <1>3. QED
    BY <1>1, <1>2, Nodal

(* A call extends the path by the frame it pushes.                         *)
LEMMA PathDown ==
  ASSUME NEW t \in Shape, Path(t), t.node \in OfType("call"), NEW e,
         e.stack = Append(t.stack, t.node), e.flow = Def[t.node].arg,
         Flow(e.node) = e.flow
  PROVE  Path(e)
  <1> DEFINE s == t.stack
             len == Len(s)
  <1>1. s \in Seq(OfType("call")) /\ len \in Nat /\ DOMAIN s = 1..len
    BY LenProperties DEF Shape
  <1>2. /\ e.stack \in Seq(OfType("call")) /\ Len(e.stack) = len + 1
        /\ \A i \in 1..len : e.stack[i] = s[i]
        /\ e.stack[len + 1] = t.node /\ DOMAIN e.stack = 1..(len + 1)
    <2>1. /\ e.stack \in Seq(OfType("call")) /\ Len(e.stack) = len + 1
          /\ \A i \in 1..len : e.stack[i] = s[i]
          /\ e.stack[len + 1] = t.node
      BY <1>1, AppendProperties
    <2>2. QED
      BY <2>1, LenProperties
  <1> HIDE DEF s, len
  <1>3. \A i \in 1..(len + 1) : Caller(e.stack, i) = Caller(s, i)
    BY <1>1, <1>2 DEF Caller
  <1>4. Caller(e.stack, len + 2) = Def[t.node].arg
    BY <1>1, <1>2 DEF Caller
  <1>5. /\ Flow(t.node) = Caller(s, len + 1)
        /\ \A i \in 1..len : Flow(s[i]) = Caller(s, i)
    BY <1>1 DEF Path, s, len
  <1>6. ASSUME NEW i \in 1..(len + 1) PROVE Flow(e.stack[i]) = Caller(e.stack, i)
    <2>1. CASE i = len + 1
      BY <1>1, <1>2, <1>3, <1>5, <2>1
    <2>2. CASE i # len + 1
      BY <1>1, <1>2, <1>3, <1>5, <2>2
    <2>3. QED
      BY <2>1, <2>2
  <1>7. (len + 1) + 1 = len + 2
    BY <1>1
  <1>8. QED
    BY <1>2, <1>4, <1>6, <1>7 DEF Path

(* A return goes back along it, to the flow the call was made in.          *)
LEMMA PathUp ==
  ASSUME NEW t \in Shape, Path(t), t.stack # <<>>, NEW e,
         e.stack = Front(t.stack), e.flow = Flow(Last(t.stack)),
         Flow(e.node) = e.flow
  PROVE  Path(e)
  <1> DEFINE s == t.stack
             len == Len(s)
  <1>1. s \in Seq(OfType("call")) /\ len \in Nat /\ DOMAIN s = 1..len /\ len # 0
    <2>1. s \in Seq(OfType("call"))
      BY DEF Shape
    <2>2. QED
      BY <2>1, LenProperties, EmptySeq
  <1>2. /\ Len(e.stack) = len - 1 /\ DOMAIN e.stack = 1..(len - 1)
        /\ \A i \in 1..(len - 1) : e.stack[i] = s[i]
    <2>1. \A i \in 1..(len - 1) : s[i] \in OfType("call")
      BY <1>1, ElementOfSeq
    <2>2. 1 \in Int /\ len - 1 \in Int
      BY <1>1
    <2>3. e.stack = SubSeq(s, 1, len - 1)
      BY DEF Front
    <2> HIDE DEF s, len
    <2>4. /\ e.stack \in Seq(OfType("call"))
          /\ Len(e.stack) = IF 1 <= len - 1 THEN len - 1 - 1 + 1 ELSE 0
          /\ \A i \in 1..(len - 1 - 1 + 1) : e.stack[i] = s[1 + i - 1]
      BY <2>1, <2>2, <2>3, SubSeqProperties
    <2>5. Len(e.stack) = len - 1 /\ \A i \in 1..(len - 1) : e.stack[i] = s[i]
      BY <1>1, <2>4
    <2>6. QED
      BY <2>4, <2>5, LenProperties
  <1>3. Last(t.stack) = s[len]
    BY DEF Last
  <1> HIDE DEF s, len
  <1>4. \A i \in 1..len : Caller(e.stack, i) = Caller(s, i)
    BY <1>1, <1>2 DEF Caller
  <1>5. \A i \in 1..len : Flow(s[i]) = Caller(s, i)
    BY <1>1 DEF Path, s, len
  <1>6. ASSUME NEW i \in 1..(len - 1) PROVE Flow(e.stack[i]) = Caller(e.stack, i)
    BY <1>1, <1>2, <1>4, <1>5
  <1>7. e.flow = Caller(e.stack, len)
    BY <1>1, <1>3, <1>4, <1>5
  <1>8. (len - 1) + 1 = len
    BY <1>1
  <1>9. QED
    BY <1>2, <1>6, <1>7, <1>8 DEF Path

LEMMA SettleCallSound ==
  ASSUME NEW t \in Sound, Type(t.node) = "call"
  PROVE  SettleCall(t) \in Outcomes
  <1> DEFINE n == t.node
             flow == Def[n].arg
             full == Len(t.stack) >= MaxDepth \/ t.moves >= Ceiling[t.flow]
             blocked == [t EXCEPT !.status = "blocked"]
             stack == Append(t.stack, n)
             moves == IF t.moves < MoveCap THEN t.moves + 1 ELSE t.moves
             e == [t EXCEPT !.stack = stack, !.flow = flow, !.node = StartOf[flow],
                            !.moves = moves]
  <1>1. /\ t \in Shape /\ Placed(t) /\ n \in OfType("call")
        /\ t.stack \in Seq(OfType("call")) /\ t.moves \in 0..MoveCap
    BY DEF Sound, Shape, OfType
  <1>2. /\ flow \in DOMAIN Ceiling /\ StartOf[flow] \in Nodes
        /\ Flow(StartOf[flow]) = flow
    BY <1>1, Called
  <1>3. CASE full
    <2>1. SettleCall(t) = Rest(blocked)
      BY <1>3 DEF SettleCall
    <2>2. /\ blocked \in Shape /\ Alike(blocked, t) /\ blocked.node = t.node
          /\ blocked.moves = t.moves /\ blocked.status = "blocked"
      BY <1>1 DEF Shape, Alike, Status
    <2> HIDE DEF blocked
    <2>3. blocked \in Sound
      BY <2>2, StatusSound
    <2>4. QED
      BY <2>1, <2>3, Given
  <1>4. CASE ~ full
    <2>1. SettleCall(t) = GoOn(Enter(e, TRUE))
      BY <1>4 DEF SettleCall
    <2>2. stack \in Seq(OfType("call"))
      BY <1>1, AppendProperties
    <2>3. moves \in 0..MoveCap
      BY <1>1, Cap
    <2> HIDE DEF moves
    <2>4. e \in Shape /\ e.stack = stack /\ e.flow = flow /\ e.node = StartOf[flow]
      <3> HIDE DEF stack, flow, n
      <3>1. QED
        BY <1>1, <1>2, <2>2, <2>3 DEF Shape
    <2> HIDE DEF e
    <2>5. Placed(e)
      <3>1. Path(t) => Path(e)
        <4>1. ASSUME Path(t) PROVE Path(e)
          BY <4>1, <1>1, <1>2, <2>4, PathDown
        <4>2. QED
          BY <4>1
      <3>2. QED
        BY <1>1, <3>1 DEF Placed
    <2>6. QED
      BY <2>1, <2>4, <2>5, EnteredSound, Given
  <1>5. QED
    BY <1>3, <1>4

LEMMA SettleReturnSound ==
  ASSUME NEW t \in Sound
  PROVE  SettleReturn(t) \in Outcomes
  <1> DEFINE call == Last(t.stack)
             code == IF Def[t.node].arg = "completed" THEN 0 ELSE 1
             stack == Front(t.stack)
             back == [t EXCEPT !.stack = stack, !.flow = Flow(call), !.node = call]
             e == Transition(back, call, To(call, code), FALSE)
  <1>1. t \in Shape /\ Placed(t) /\ t.stack \in Seq(OfType("call"))
    BY DEF Sound, Shape
  <1>2. CASE t.stack = <<>>
    BY <1>2, Given DEF SettleReturn
  <1>3. CASE t.stack # <<>>
    <2>1. SettleReturn(t) = GoOn(e)
      BY <1>3 DEF SettleReturn
    <2>2. call \in OfType("call") /\ stack \in Seq(OfType("call"))
      <3>1. Len(t.stack) \in Nat /\ Len(t.stack) # 0
        BY <1>1, <1>3, EmptySeq, LenProperties
      <3>2. Len(t.stack) \in 1..Len(t.stack) /\ 1 \in Int /\ Len(t.stack) - 1 \in Int
        BY <3>1
      <3>3. \A i \in 1..Len(t.stack) : t.stack[i] \in OfType("call")
        BY <1>1, ElementOfSeq
      <3>4. \A i \in 1..(Len(t.stack) - 1) : t.stack[i] \in OfType("call")
        BY <3>1, <3>3
      <3>5. QED
        BY <3>2, <3>3, <3>4, SubSeqProperties DEF Last, Front
    <2>3. /\ call \in Nodes /\ code \in DOMAIN Def[call].routes
          /\ Flow(call) \in DOMAIN Ceiling
          /\ To(call, code) \in Nodes /\ Flow(To(call, code)) = Flow(call)
      <3> HIDE DEF call
      <3>1. QED
        BY <2>2, Called, Nodal
    <2> HIDE DEF code
    <2>4. /\ back \in Shape /\ back.stack = stack /\ back.flow = Flow(call)
      <3> HIDE DEF call, stack
      <3>1. QED
        BY <1>1, <2>2, <2>3 DEF Shape
    <2> HIDE DEF back
    <2>5. e \in Shape /\ Alike(e, back) /\ Flow(e.node) = Flow(To(call, code)) /\ Claimable(e)
      <3>1. FALSE \in BOOLEAN
        OBVIOUS
      <3> HIDE DEF call
      <3>2. QED
        BY <2>3, <2>4, <3>1, Transited, Zenon
    <2> HIDE DEF e
    <2>6. e.stack = Front(t.stack) /\ e.flow = Flow(Last(t.stack)) /\ Flow(e.node) = e.flow
      BY <2>3, <2>4, <2>5 DEF Alike
    <2>7. Placed(e)
      <3>1. ASSUME Path(t) PROVE Path(e)
        BY <1>1, <1>3, <2>6, <3>1, PathUp
      <3>2. QED
        BY <1>1, <3>1 DEF Placed
    <2>8. e \in Sound
      BY <2>5, <2>7 DEF Sound
    <2>9. QED
      BY <2>1, <2>8, Given
  <1>4. QED
    BY <1>2, <1>3

LEMMA SettleNodeSound ==
  ASSUME NEW t \in Sound
  PROVE  SettleNode(t) \in Outcomes
  <1>1. CASE Type(t.node) = "wait"
    BY <1>1, SettleWaitSound DEF SettleNode
  <1>2. CASE Type(t.node) = "read"
    BY <1>2, SettleReadSound DEF SettleNode
  <1>3. CASE Type(t.node) = "write"
    BY <1>3, SettleWriteSound DEF SettleNode
  <1>4. CASE Type(t.node) = "fan_out"
    BY <1>4, SettleFanOutSound DEF SettleNode
  <1>5. CASE Type(t.node) = "fan_in"
    BY <1>5, SettleFanInSound DEF SettleNode
  <1>6. CASE Type(t.node) = "call"
    BY <1>6, SettleCallSound DEF SettleNode
  <1>7. CASE Type(t.node) = "terminal"
    BY <1>7, SettleReturnSound DEF SettleNode
  <1>8. CASE Type(t.node) \notin {"wait", "read", "write", "fan_out", "fan_in", "call",
                                  "terminal"}
    BY <1>8, Given DEF SettleNode
  <1>9. QED
    BY <1>1, <1>2, <1>3, <1>4, <1>5, <1>6, <1>7, <1>8

(* What the settlement of any one node preserves, a whole settlement does. *)
LEMMA SettledWithin ==
  ASSUME NEW T, T \subseteq Sound, \A s \in T : SettleNode(s).ticket \in T,
         NEW t \in T
  PROVE  Settled(t) \in T
  <1> DEFINE S == [ticket : T, more : BOOLEAN]
             step(acc) == IF acc.more THEN SettleNode(acc.ticket) ELSE acc
             Settles(p) == p = [i \in 0..SettleCap |->
                                  IF i = 0 THEN GoOn(t)
                                  ELSE IF p[i - 1].more THEN SettleNode(p[i - 1].ticket)
                                       ELSE p[i - 1]]
             settled == CHOOSE p : Settles(p)
             f == [acc \in S |-> step(acc)]
  <1>1. SettleCap \in Nat
    BY BoundAssumption
  <1>2. GoOn(t) \in S
    BY DEF GoOn
  <1>3. ASSUME NEW acc \in S PROVE step(acc) \in S
    <2>1. acc.ticket \in T
      OBVIOUS
    <2>2. SettleNode(acc.ticket) \in Outcomes /\ SettleNode(acc.ticket).ticket \in T
      BY <2>1, SettleNodeSound
    <2>3. SettleNode(acc.ticket) \in S
      BY <2>2 DEF Outcomes
    <2>4. QED
      BY <2>3
  <1>4. f \in [S -> S]
    <2> HIDE DEF S, step
    <2>1. QED
      BY <1>3
  <1>5. \E p : Settles(p)
    <2>1. PICK g : /\ g \in [0..SettleCap -> S]
                   /\ g[0] = GoOn(t) /\ \A i \in 1..SettleCap : g[i] = f[g[i - 1]]
      <3> HIDE DEF f, S
      <3>1. \E g : Iterates(g, S, f, GoOn(t), SettleCap)
        BY <1>1, <1>2, <1>4, Iterated
      <3>2. QED
        BY <3>1 DEF Iterates
    <2>2. \A i \in 0..SettleCap : i # 0 => g[i - 1] \in S
      <3> HIDE DEF S, f
      <3>1. QED
        BY <1>1, <2>1
    <2>3. \A i \in 0..SettleCap : i # 0 => f[g[i - 1]] = step(g[i - 1])
      <3>1. \A s \in S : f[s] = step(s)
        BY Zenon
      <3> HIDE DEF S, f, step
      <3>2. QED
        BY <2>2, <3>1
    <2>4. g = [i \in 0..SettleCap |-> IF i = 0 THEN GoOn(t) ELSE step(g[i - 1])]
      <3> HIDE DEF S, f, step
      <3>1. QED
        BY <1>1, <2>1, <2>3
    <2>5. QED
      BY <2>4
  <1>6. Settles(settled)
    BY <1>5, Zenon
  <1>7. Settled(t) = settled[SettleCap].ticket
    BY Zenon DEF Settled
  <1> HIDE DEF settled
  <1>8. settled[0] = GoOn(t) /\ \A i \in 1..SettleCap : settled[i] = step(settled[i - 1])
    BY <1>1, <1>6
  <1>9. \A i \in 0..SettleCap : settled[i] \in S
    <2> DEFINE G == {i \in 0..SettleCap : settled[i] \in S}
    <2> HIDE DEF S, step
    <2>1. 0 \in G
      BY <1>1, <1>2, <1>8
    <2>2. ASSUME NEW i \in 1..SettleCap, i - 1 \in G PROVE i \in G
      BY <2>2, <1>1, <1>3, <1>8
    <2>3. \A i \in 0..SettleCap : i \in G
      <3> HIDE DEF G
      <3>1. QED
        BY <1>1, <2>1, <2>2, Stepwise
    <2>4. QED
      BY <2>3
  <1>10. QED
    BY <1>1, <1>7, <1>9

(* A whole settlement of a sound ticket gives a sound ticket.              *)
LEMMA SettledSound ==
  ASSUME NEW t \in Sound
  PROVE  Settled(t) \in Sound
  <1>1. \A s \in Sound : SettleNode(s).ticket \in Sound
    BY SettleNodeSound DEF Outcomes
  <1>2. QED
    BY <1>1, SettledWithin

-----------------------------------------------------------------------------
(***************************************************************************)
(* Where the runtime starts.                                               *)
(***************************************************************************)

LEMMA PinnedSound ==
  ASSUME NEW t \in Shape, NEW off \in SUBSET Conditional
  PROVE  LET e == Pinned(t, off)
         IN  /\ e \in Sound /\ e.stack = <<>> /\ e.flow = Root
             /\ e.visits = [n \in Nodes |-> 0] /\ (e.node \in e.off => Over(e))
  <1> DEFINE p == [t EXCEPT !.flow = Root, !.node = StartOf[Root], !.moves = 0,
                            !.visits = [n \in Nodes |-> 0], !.off = off,
                            !.stack = <<>>, !.frames = <<>>,
                            !.waits = [n \in Waits |-> NoWait]]
             e == Enter(p, FALSE)
  <1>1. Root \in DOMAIN Ceiling /\ StartOf[Root] \in Nodes /\ Flow(StartOf[Root]) = Root
    BY Defined
  <1>2. 0 \in 0..MoveCap /\ 0 \in 0..VisitCap
    BY Cap, BoundAssumption
  <1>3. [n \in Nodes |-> 0] \in [Nodes -> 0..VisitCap]
    BY <1>2
  <1>4. /\ p \in Shape /\ p.node = StartOf[Root] /\ p.flow = Root /\ p.stack = <<>>
        /\ p.visits = [n \in Nodes |-> 0]
    BY <1>1, <1>2, <1>3, EmptySeq DEF Shape
  <1>5. Pinned(t, off) = e
    BY DEF Pinned
  <1> HIDE DEF p
  <1>6. Rests(e, p, FALSE)
    <2>1. FALSE \in BOOLEAN
      OBVIOUS
    <2>2. QED
      BY <1>4, <2>1, Entered, Zenon
  <1> HIDE DEF e
  <1>7. /\ e \in Shape /\ e.stack = <<>> /\ e.flow = Root /\ Flow(e.node) = Root
        /\ e.visits = [n \in Nodes |-> 0] /\ (e.node \in e.off => Over(e))
        /\ (e.status = "ready" => ~ Over(e)) /\ e.status # "pending"
    BY <1>1, <1>4, <1>6 DEF Rests, Alike
  <1>8. ~ Counted(e, e.node)
    <2>1. e.node \in Nodes /\ Limit(e.node) \in Nat /\ e.visits[e.node] = 0
      BY <1>7, Nodal DEF Shape
    <2>2. QED
      BY <2>1 DEF Counted
  <1>9. Path(e)
    <2>1. Len(<<>>) = 0 /\ DOMAIN <<>> = {}
      OBVIOUS
    <2>2. QED
      BY <1>7, <2>1 DEF Path, Caller
  <1>10. e \in Sound
    BY <1>7, <1>8, <1>9 DEF Sound, Claimable, Placed
  <1>11. QED
    BY <1>5, <1>7, <1>10

LEMMA NewTicketShape == NewTicket \in Shape
  <1>1. Root \in DOMAIN Ceiling /\ StartOf[Root] \in Nodes
    BY Defined, Nodal
  <1>2. 0 \in 0..MoveCap /\ 0 \in 0..VisitCap
    BY Cap, BoundAssumption
  <1>3. (CHOOSE v \in Values : TRUE) \in Values
    BY Defined
  <1>4. [n \in Nodes |-> 0] \in [Nodes -> 0..VisitCap]
    BY <1>2
  <1>5. <<>> \in Seq(OfType("call")) /\ <<>> \in Seq(Branch)
    BY EmptySeq
  <1>6. QED
    BY <1>1, <1>2, <1>3, <1>4, <1>5 DEF NewTicket, Shape, Status

LEMMA InitInvariant == Init => IInv
  <1>1. SUFFICES ASSUME Init PROVE IInv
    OBVIOUS
  <1>2. PICK off \in SUBSET Conditional :
               ticket = [Pinned(NewTicket, off) EXCEPT !.status = "pending"]
    BY <1>1 DEF Init
  <1> DEFINE e == Pinned(NewTicket, off)
  <1>3. /\ e \in Sound /\ e.stack = <<>> /\ e.flow = Root
        /\ e.visits = [n \in Nodes |-> 0] /\ (e.node \in e.off => Over(e))
    BY NewTicketShape, PinnedSound, Zenon
  <1> HIDE DEF e
  <1>4. e \in Shape /\ Placed(e)
    BY <1>3 DEF Sound
  <1>5. /\ ticket \in Shape /\ ticket.node = e.node /\ ticket.moves = e.moves
        /\ ticket.flow = e.flow /\ ticket.stack = e.stack /\ ticket.visits = e.visits
        /\ ticket.off = e.off /\ ticket.status = "pending"
    <2>1. ticket = [e EXCEPT !.status = "pending"]
      BY <1>2 DEF e
    <2>2. QED
      BY <1>4, <2>1 DEF Shape, Status
  <1>6. Placed(ticket)
    BY <1>4, <1>5, PlacedKept
  <1>7. ~ Counted(ticket, ticket.node)
    <2>1. ticket.node \in Nodes /\ Limit(ticket.node) \in Nat /\ ticket.visits[ticket.node] = 0
      BY <1>3, <1>5, Nodal DEF Shape
    <2>2. QED
      BY <2>1 DEF Counted
  <1>8. Over(ticket) = Over(e)
    BY <1>5 DEF Over
  <1>9. QED
    BY <1>3, <1>5, <1>6, <1>7, <1>8 DEF IInv, Sound, Claimable

-----------------------------------------------------------------------------
(***************************************************************************)
(* The steps.                                                              *)
(***************************************************************************)

LEMMA SettleStep == ASSUME IInv, Settle PROVE IInv'
  BY SettledSound DEF IInv, Settle

LEMMA TickStep == ASSUME IInv, Tick PROVE IInv'
  <1> DEFINE waits == [n \in Waits |->
                         LET w == ticket.waits[n]
                         IN  IF w.left <= 0 THEN w
                             ELSE [w EXCEPT !.left = @ - 1,
                                            !.asleep = IF @ > 0 THEN @ - 1 ELSE 0]]
             e == [ticket EXCEPT !.waits = waits]
  <1>1. /\ ticket \in Sound /\ ticket \in Shape /\ Claimable(ticket) /\ Placed(ticket)
        /\ ticket.waits \in [Waits -> Wait \cup {NoWait}]
    BY DEF IInv, Sound, Shape
  <1>2. ASSUME NEW w \in Wait \cup {NoWait}
        PROVE  IF w.left <= 0 THEN TRUE
               ELSE [w EXCEPT !.left = @ - 1, !.asleep = IF @ > 0 THEN @ - 1 ELSE 0] \in Wait
    <2>1. CASE w = NoWait
      BY <2>1 DEF NoWait
    <2>2. CASE w \in Wait /\ ~ (w.left <= 0)
      <3> DEFINE left == w.left - 1
                 asleep == IF w.asleep > 0 THEN w.asleep - 1 ELSE 0
      <3>1. w.left \in 0..WaitDeadline /\ w.asleep \in 0..WaitDelay
        BY <2>2 DEF Wait
      <3>2. left \in 0..WaitDeadline /\ asleep \in 0..WaitDelay
        BY <2>2, <3>1, BoundAssumption
      <3> HIDE DEF left, asleep
      <3>3. [w EXCEPT !.left = left, !.asleep = asleep] \in Wait
        BY <2>2, <3>2 DEF Wait
      <3>4. QED
        BY <2>2, <3>3 DEF left, asleep
    <2>3. QED
      BY <2>1, <2>2
  <1>3. waits \in [Waits -> Wait \cup {NoWait}]
    BY <1>1, <1>2
  <1>4. ticket' = e
    BY DEF Tick
  <1> HIDE DEF waits
  <1>5. /\ e \in Shape /\ Alike(e, ticket) /\ e.node = ticket.node /\ e.moves = ticket.moves
        /\ e.status = ticket.status /\ e.visits = ticket.visits
    BY <1>1, <1>3, Stirred
  <1> HIDE DEF e
  <1>6. Placed(e)
    BY <1>1, <1>5, PlacedKept DEF Alike
  <1>7. Claimable(e)
    BY <1>1, <1>5 DEF Claimable, Over, Counted, Alike
  <1>8. e \in Sound
    BY <1>5, <1>6, <1>7 DEF Sound
  <1>9. QED
    BY <1>4, <1>8 DEF IInv

(* A command that changes neither the node nor what its claim rests on.    *)
LEMMA Untouched ==
  ASSUME IInv, NEW e \in Shape, e.node = ticket.node, e.flow = ticket.flow,
         e.stack = ticket.stack, e.off = ticket.off, e.moves = ticket.moves,
         e.visits = ticket.visits, e.status = ticket.status
  PROVE  e \in Sound
  <1>1. Claimable(ticket) /\ Placed(ticket)
    BY DEF IInv, Sound
  <1>2. Claimable(e)
    BY <1>1 DEF Claimable, Over, Counted
  <1>3. QED
    BY <1>1, <1>2, PlacedKept DEF Sound

LEMMA WorkStep ==
  ASSUME IInv, NEW r \in DOMAIN Def[ticket.node].routes, Work(r)
  PROVE  IInv'
  <1> DEFINE e == Follow(ticket, r)
             new == [e EXCEPT !.owned = TRUE]
  <1>1. ticket \in Shape /\ Placed(ticket)
    BY DEF IInv, Sound
  <1>2. e \in Sound
    BY <1>1, FollowedSound
  <1>3. ticket' = new
    BY DEF Work
  <1> HIDE DEF e
  <1>4. e \in Shape /\ Claimable(e) /\ Placed(e)
    BY <1>2 DEF Sound
  <1>5. /\ new \in Shape /\ new.node = e.node /\ new.flow = e.flow
        /\ new.stack = e.stack /\ new.off = e.off /\ new.moves = e.moves
        /\ new.visits = e.visits /\ new.status = e.status
    BY <1>4 DEF Shape
  <1> HIDE DEF new
  <1>6. Claimable(new) /\ Placed(new)
    BY <1>4, <1>5, PlacedKept DEF Claimable, Over, Counted
  <1>7. new \in Sound
    BY <1>5, <1>6 DEF Sound
  <1>8. QED
    BY <1>3, <1>7 DEF IInv

(* A new status that is not for a claim, and perhaps another owner.        *)
LEMMA LimitStops ==
  ASSUME IInv, NEW status \in Status \ {"ready", "pending"}, NEW owned \in BOOLEAN,
         ticket' = [ticket EXCEPT !.status = status, !.owned = owned]
  PROVE  IInv'
  <1> DEFINE e == [ticket EXCEPT !.status = status, !.owned = owned]
  <1>1. ticket \in Shape /\ Claimable(ticket) /\ Placed(ticket)
    BY DEF IInv, Sound
  <1>2. /\ e \in Shape /\ e.node = ticket.node /\ e.flow = ticket.flow
        /\ e.stack = ticket.stack /\ e.off = ticket.off /\ e.moves = ticket.moves
        /\ e.visits = ticket.visits /\ e.status = status
    BY <1>1 DEF Shape
  <1> HIDE DEF e
  <1>3. Claimable(e) /\ Placed(e)
    BY <1>1, <1>2, PlacedKept DEF Claimable, Over, Counted
  <1>4. e \in Sound
    BY <1>2, <1>3 DEF Sound
  <1>5. QED
    BY <1>4 DEF IInv, e

LEMMA WorkFailsStep == ASSUME IInv, WorkFails PROVE IInv'
  <1>1. PICK s \in {"failed", "blocked"} :
               ticket' = [ticket EXCEPT !.status = s, !.owned = TRUE]
    BY DEF WorkFails
  <1>2. s \in Status \ {"ready", "pending"} /\ TRUE \in BOOLEAN
    BY DEF Status
  <1>3. QED
    BY <1>1, <1>2, LimitStops, Zenon

LEMMA TerminateStep ==
  ASSUME IInv, NEW how \in {"cancelled", "failed"}, Terminate(how)
  PROVE  IInv'
  <1>1. how \in Status \ {"ready", "pending"} /\ ticket.owned \in BOOLEAN
    BY DEF Status, IInv, Sound, Shape
  <1>2. ticket' = [ticket EXCEPT !.status = how, !.owned = ticket.owned]
    BY DEF Terminate, Command, IInv, Sound, Shape
  <1>3. QED
    BY <1>1, <1>2, LimitStops, Zenon

LEMMA DecideStep ==
  ASSUME IInv, NEW r \in DOMAIN Def[ticket.node].routes, Decide(r)
  PROVE  IInv'
  <1>1. ticket \in Shape /\ Placed(ticket) /\ ticket' = Follow(ticket, r)
    BY DEF IInv, Sound, Decide, Command
  <1>2. QED
    BY <1>1, FollowedSound DEF IInv

(* A draft's visit may have been counted before: then its limit held.      *)
LEMMA ReadyStep == ASSUME IInv, Ready PROVE IInv'
  <1> DEFINE count == ticket.visits[ticket.node] = 0
             e == Enter(ticket, count)
  <1>1. /\ ticket \in Shape /\ Placed(ticket) /\ Claimable(ticket)
        /\ ticket.status = "pending" /\ ticket' = e
    BY DEF IInv, Sound, Ready, Command
  <1>2. CASE count
    <2>1. count = TRUE
      BY <1>2
    <2>2. e = Enter(ticket, TRUE)
      BY <2>1
    <2>3. QED
      BY <1>1, <2>2, EnteredSound DEF IInv
  <1>3. CASE ~ count
    <2>1. count = FALSE
      BY <1>3
    <2>2. e = Enter(ticket, FALSE)
      BY <2>1
    <2>3. Rests(e, ticket, FALSE)
      <3>1. FALSE \in BOOLEAN
        OBVIOUS
      <3>2. QED
        BY <1>1, <2>2, <3>1, Entered
    <2> HIDE DEF e
    <2>4. /\ e \in Shape /\ e.flow = ticket.flow /\ e.stack = ticket.stack
          /\ e.node = ticket.node /\ e.visits = ticket.visits
          /\ (e.node \in e.off => Over(e)) /\ e.status # "pending"
          /\ (e.status = "ready" => ~ Over(e))
      BY <1>1, <2>3 DEF Rests, Alike, Claimable
    <2>5. Claimable(e) /\ Placed(e)
      BY <1>1, <2>4, PlacedKept DEF Claimable, Counted
    <2>6. QED
      BY <1>1, <2>4, <2>5 DEF IInv, Sound
  <1>4. QED
    BY <1>2, <1>3

LEMMA ReturnToDraftStep == ASSUME IInv, ReturnToDraft PROVE IInv'
  <1> DEFINE e == [ticket EXCEPT !.status = "pending"]
  <1>1. /\ ticket \in Shape /\ Placed(ticket) /\ Claimable(ticket)
        /\ ticket.status = "ready" /\ ticket' = e
    BY DEF IInv, Sound, ReturnToDraft, Command
  <1>2. /\ e \in Shape /\ e.node = ticket.node /\ e.flow = ticket.flow
        /\ e.stack = ticket.stack /\ e.off = ticket.off /\ e.moves = ticket.moves
        /\ e.visits = ticket.visits /\ e.status = "pending"
    BY <1>1 DEF Shape, Status
  <1> HIDE DEF e
  <1>3. Claimable(e) /\ Placed(e)
    BY <1>1, <1>2, PlacedKept DEF Claimable, Over, Counted
  <1>4. QED
    BY <1>1, <1>2, <1>3 DEF IInv, Sound

(* A retry is refused at a bound, and below the ceiling there is nothing   *)
(* to pass over: the ticket comes back to the node it stopped at.          *)
LEMMA RetryStep == ASSUME IInv, Retry PROVE IInv'
  <1> DEFINE e == Enter(ticket, FALSE)
  <1>1. /\ ticket \in Shape /\ Placed(ticket) /\ Claimable(ticket)
        /\ ~ Over(ticket) /\ ~ Counted(ticket, ticket.node) /\ ticket' = e
    BY DEF IInv, Sound, Retry, Command, Bounded
  <1>2. Rests(e, ticket, FALSE)
    <2>1. FALSE \in BOOLEAN
      OBVIOUS
    <2>2. QED
      BY <1>1, <2>1, Entered
  <1> HIDE DEF e
  <1>3. /\ e \in Shape /\ e.flow = ticket.flow /\ e.stack = ticket.stack
        /\ e.node = ticket.node /\ e.visits = ticket.visits
        /\ (e.node \in e.off => Over(e)) /\ e.status # "pending"
        /\ (e.status = "ready" => ~ Over(e))
    BY <1>1, <1>2 DEF Rests, Alike, Claimable
  <1>4. Claimable(e) /\ Placed(e)
    BY <1>1, <1>3, PlacedKept DEF Claimable, Counted
  <1>5. QED
    BY <1>1, <1>3, <1>4 DEF IInv, Sound

LEMMA ReleaseStep == ASSUME IInv, ReleaseSupervisor PROVE IInv'
  <1> DEFINE revived == /\ ticket.status \in {"failed", "blocked"} /\ InPlace(ticket)
                        /\ Type(ticket.node) # "terminal" /\ ~ Bounded(ticket)
             status == IF revived THEN "ready" ELSE ticket.status
             e == [ticket EXCEPT !.owned = FALSE, !.status = status]
  <1>1. /\ ticket \in Shape /\ Placed(ticket) /\ Claimable(ticket) /\ ticket' = e
        /\ ticket.status \in Status
    BY DEF IInv, Sound, Shape, ReleaseSupervisor, Command
  <1>2. status \in Status
    BY <1>1 DEF Status
  <1> HIDE DEF status
  <1>3. /\ e \in Shape /\ e.node = ticket.node /\ e.flow = ticket.flow
        /\ e.stack = ticket.stack /\ e.off = ticket.off /\ e.moves = ticket.moves
        /\ e.visits = ticket.visits /\ e.status = status
    BY <1>1, <1>2 DEF Shape
  <1> HIDE DEF e
  <1>4. CASE revived
    <2>1. ~ Over(ticket) /\ ~ Counted(ticket, ticket.node)
      BY <1>4 DEF Bounded
    <2>2. Claimable(e) /\ Placed(e)
      BY <1>1, <1>3, <2>1, PlacedKept DEF Claimable, Over, Counted
    <2>3. QED
      BY <1>1, <1>3, <2>2 DEF IInv, Sound
  <1>5. CASE ~ revived
    <2>1. status = ticket.status
      BY <1>5 DEF status
    <2>2. e \in Sound
      BY <1>3, <2>1, Untouched
    <2>3. QED
      BY <1>1, <2>2 DEF IInv
  <1>6. QED
    BY <1>4, <1>5

LEMMA WriteMetadataStep ==
  ASSUME IInv, NEW v \in Values, WriteMetadata(v)
  PROVE  IInv'
  <1> DEFINE e == [ticket EXCEPT !.meta = v]
  <1>1. ticket' = e /\ ticket \in Shape
    BY DEF WriteMetadata, Command, IInv, Sound
  <1>2. /\ e \in Shape /\ e.node = ticket.node /\ e.flow = ticket.flow
        /\ e.stack = ticket.stack /\ e.off = ticket.off /\ e.moves = ticket.moves
        /\ e.visits = ticket.visits /\ e.status = ticket.status
    BY <1>1 DEF Shape
  <1> HIDE DEF e
  <1>3. QED
    BY <1>1, <1>2, Untouched DEF IInv

LEMMA WakeStep == ASSUME IInv, Wake PROVE IInv'
  <1> DEFINE n == ticket.node
             w == [ticket.waits[n] EXCEPT !.asleep = 0]
             waits == [ticket.waits EXCEPT ![n] = w]
             e == [ticket EXCEPT !.waits = waits]
  <1>1. /\ ticket \in Shape /\ n \in Waits /\ ticket.waits[n] \in Wait
        /\ ticket.waits \in [Waits -> Wait \cup {NoWait}]
        /\ ticket' = [ticket EXCEPT !.waits[n].asleep = 0]
    BY DEF Wake, Command, IInv, Sound, Shape, Waits, OfType
  <1>2. ticket' = e
    BY <1>1
  <1>3. w \in Wait
    <2>1. 0 \in 0..WaitDelay
      BY BoundAssumption
    <2>2. QED
      BY <1>1, <2>1 DEF Wait
  <1> HIDE DEF w
  <1>4. waits \in [Waits -> Wait \cup {NoWait}]
    BY <1>1, <1>3
  <1> HIDE DEF waits
  <1>5. /\ e \in Shape /\ Alike(e, ticket) /\ e.node = n /\ e.moves = ticket.moves
        /\ e.status = ticket.status /\ e.visits = ticket.visits
    BY <1>1, <1>4, Stirred
  <1> HIDE DEF e
  <1>6. e \in Sound
    BY <1>5, Untouched DEF Alike
  <1>7. QED
    BY <1>2, <1>6 DEF IInv

(* A migration starts over, or goes on from the pinned workflow's runtime; *)
(* of a call in progress only with the command that displaces it.          *)
LEMMA MigrateStep ==
  ASSUME IInv, NEW n \in Nodes, NEW fresh \in BOOLEAN, Migrate(n, fresh)
  PROVE  IInv'
  <1> DEFINE from == IF fresh THEN Pinned(ticket, {})
                     ELSE [ticket EXCEPT !.off = @ \ {n}]
             e == Transition(from, ticket.node, n, TRUE)
  <1>1. /\ ticket \in Shape /\ Placed(ticket) /\ ticket.node \in Nodes
        /\ Flow(n) = Root /\ (ticket.stack # <<>> => fresh \/ "migrateChild" \in Commands)
    BY DEF IInv, Sound, Shape, Migrate, Command
  <1>2. ticket' = e
    BY DEF Migrate, Command
  <1>3. from \in Shape /\ ("migrateChild" \notin Commands => from.flow = Root /\ from.stack = <<>>)
    <2>1. CASE fresh
      <3> DEFINE p == Pinned(ticket, {})
      <3>1. p \in Sound /\ p.stack = <<>> /\ p.flow = Root
        <4>1. {} \in SUBSET Conditional
          OBVIOUS
        <4>2. QED
          BY <1>1, <4>1, PinnedSound
      <3> HIDE DEF p
      <3>2. from = p
        BY <2>1 DEF p
      <3>3. QED
        BY <3>1, <3>2 DEF Sound
    <2>2. CASE ~ fresh
      <3> DEFINE f == [ticket EXCEPT !.off = @ \ {n}]
      <3>1. from = f
        BY <2>2
      <3>2. f \in Shape /\ f.flow = ticket.flow /\ f.stack = ticket.stack
        BY <1>1 DEF Shape
      <3>3. "migrateChild" \notin Commands => ticket.stack = <<>> /\ ticket.flow = Root
        <4>1. ASSUME "migrateChild" \notin Commands
              PROVE  ticket.stack = <<>> /\ ticket.flow = Root
          <5>1. ticket.stack = <<>>
            BY <1>1, <2>2, <4>1
          <5>2. Len(<<>>) = 0
            OBVIOUS
          <5>3. QED
            BY <1>1, <4>1, <5>1, <5>2 DEF Placed, Path, Caller
        <4>2. QED
          BY <4>1
      <3> HIDE DEF f
      <3>4. QED
        BY <3>1, <3>2, <3>3
    <2>3. QED
      BY <2>1, <2>2
  <1> HIDE DEF from
  <1>4. e \in Shape /\ Alike(e, from) /\ Flow(e.node) = Flow(n) /\ Claimable(e)
    <2>1. TRUE \in BOOLEAN
      OBVIOUS
    <2>2. QED
      BY <1>1, <1>3, <2>1, Transited, Zenon
  <1> HIDE DEF e
  <1>5. Placed(e)
    <2>1. ASSUME "migrateChild" \notin Commands PROVE Path(e)
      <3>1. e.flow = Root /\ e.stack = <<>> /\ Flow(e.node) = Root
        BY <1>1, <1>3, <1>4, <2>1 DEF Alike
      <3>2. Len(<<>>) = 0 /\ DOMAIN <<>> = {}
        OBVIOUS
      <3>3. QED
        BY <3>1, <3>2 DEF Path, Caller
    <2>2. QED
      BY <2>1 DEF Placed
  <1>6. e \in Sound
    BY <1>4, <1>5 DEF Sound
  <1>7. QED
    BY <1>2, <1>6 DEF IInv

LEMMA NextInvariant == IInv /\ [Next]_ticket => IInv'
  <1>1. SUFFICES ASSUME IInv, [Next]_ticket PROVE IInv'
    OBVIOUS
  <1>2. CASE UNCHANGED ticket
    BY <1>1, <1>2 DEF IInv
  <1>3. CASE \E r \in DOMAIN Def[ticket.node].routes : Work(r) \/ Decide(r)
    BY <1>1, <1>3, WorkStep, DecideStep
  <1>4. CASE \E how \in {"cancelled", "failed"} : Terminate(how)
    BY <1>1, <1>4, TerminateStep
  <1>5. CASE \E n \in Nodes, fresh \in BOOLEAN : Migrate(n, fresh)
    BY <1>1, <1>5, MigrateStep
  <1>6. CASE \E v \in Values : WriteMetadata(v)
    BY <1>1, <1>6, WriteMetadataStep
  <1>7. CASE \/ Settle \/ Tick \/ WorkFails \/ Ready \/ ReturnToDraft \/ Retry
             \/ ReleaseSupervisor \/ Wake
    BY <1>1, <1>7, SettleStep, TickStep, WorkFailsStep, ReadyStep, ReturnToDraftStep,
       RetryStep, ReleaseStep, WakeStep
  <1>8. QED
    BY <1>1, <1>2, <1>3, <1>4, <1>5, <1>6, <1>7 DEF Next

LEMMA EngineInvariant == Spec => []IInv
  BY InitInvariant, NextInvariant, PTL DEF Spec

-----------------------------------------------------------------------------
(***************************************************************************)
(* The theorems.                                                           *)
(***************************************************************************)

LEMMA WellTyped == IInv => TypeOK
  <1>1. SUFFICES ASSUME IInv PROVE TypeOK
    OBVIOUS
  <1>2. Branch \subseteq Frame
    BY DEF Branch
  <1>3. ticket \in Shape /\ ticket.frames \in Seq(Branch)
    BY <1>1 DEF IInv, Sound, Shape
  <1>4. ticket.frames \in Seq(Frame)
    BY <1>2, <1>3, SeqMonotonic
  <1>5. QED
    BY <1>3, <1>4 DEF Shape, TypeOK

(* Types, for every use an operator makes of the commands (CallsNest adds  *)
(* the path): no settlement, however long, and no command leaves them.     *)
THEOREM EngineTypeCorrect == Spec => []TypeOK
  BY EngineInvariant, WellTyped, PTL

(* The call frames are a path of calls from the pinned workflow to the     *)
(* active one, and the current node is a node of the active workflow, as   *)
(* long as no operator migrates a ticket inside a child workflow (the run  *)
(* displaced shows what that command does to it).                          *)
THEOREM CallsNested ==
  ASSUME "migrateChild" \notin Commands
  PROVE  Spec => []CallsNest
  <1>1. IInv => CallsNest
    <2>1. SUFFICES ASSUME IInv PROVE CallsNest
      OBVIOUS
    <2> DEFINE calls == ticket.stack
               len == Len(calls)
               entered == [i \in DOMAIN calls |-> Def[calls[i]].arg]
               flows == <<Root>> \o entered
    <2>2. ticket \in Shape /\ Path(ticket) /\ TypeOK
      BY <2>1, WellTyped DEF IInv, Sound, Placed
    <2>3. calls \in Seq(OfType("call")) /\ len \in Nat /\ DOMAIN calls = 1..len
      BY <2>2, LenProperties DEF Shape
    <2>4. entered \in Seq(DOMAIN StartOf) /\ Len(entered) = len
          /\ \A i \in 1..len : entered[i] = Def[calls[i]].arg
      <3>1. \A i \in 1..len : calls[i] \in OfType("call")
        BY <2>3, ElementOfSeq
      <3>2. \A i \in 1..len : Def[calls[i]].arg \in DOMAIN StartOf
        BY <3>1, Routed
      <3> HIDE DEF calls, len
      <3>3. entered = [i \in 1..len |-> Def[calls[i]].arg]
        BY <2>3
      <3>4. QED
        BY <2>3, <3>2, <3>3
    <2> HIDE DEF entered
    <2>5. /\ flows \in Seq(DOMAIN StartOf) /\ Len(flows) = len + 1
          /\ flows[1] = Root /\ \A i \in 2..(len + 1) : flows[i] = entered[i - 1]
      <3>1. <<Root>> \in Seq(DOMAIN StartOf) /\ Len(<<Root>>) = 1 /\ <<Root>>[1] = Root
        BY Defined
      <3> HIDE DEF len
      <3>2. /\ flows \in Seq(DOMAIN StartOf) /\ Len(flows) = 1 + len
            /\ \A i \in 1..(1 + len) :
                 flows[i] = IF i <= 1 THEN <<Root>>[i] ELSE entered[i - 1]
        BY <2>4, <3>1, ConcatProperties
      <3>3. QED
        BY <2>3, <3>1, <3>2
    <2> HIDE DEF calls, len, flows
    <2>6. \A i \in 1..(len + 1) : flows[i] = Caller(calls, i)
      BY <2>3, <2>4, <2>5 DEF Caller
    <2>7. Last(flows) = flows[len + 1] /\ len + 1 \in 1..(len + 1)
      BY <2>3, <2>5 DEF Last
    <2>8. /\ Flow(ticket.node) = ticket.flow
          /\ ticket.flow = Caller(calls, len + 1)
          /\ \A i \in 1..len : Flow(calls[i]) = Caller(calls, i)
      BY <2>2, <2>3 DEF Path, calls, len
    <2>9. /\ \A i \in DOMAIN calls : Flow(calls[i]) = flows[i]
          /\ ticket.flow = Last(flows)
      BY <2>3, <2>6, <2>7, <2>8
    <2>10. QED
      BY <2>2, <2>8, <2>9 DEF CallsNest, flows, entered, calls
  <1>2. QED
    BY <1>1, EngineInvariant, PTL

(* Every branch of a fan-out in progress is accounted for once, whatever   *)
(* the definition's joins and bypasses and wherever operators migrate.     *)
THEOREM BranchesAccounted == Spec => []BranchesBalanced
  <1>1. IInv => BranchesBalanced
    <2>1. SUFFICES ASSUME IInv, NEW i \in DOMAIN ticket.frames
                   PROVE  ticket.frames[i].inputs + 1 + Len(ticket.frames[i].pending)
                            = Len(Def[ticket.frames[i].fan].routes)
      BY DEF BranchesBalanced
    <2>2. ticket.frames \in Seq(Branch)
      BY <2>1 DEF IInv, Sound, Shape
    <2>3. ticket.frames[i] \in Branch
      BY <2>1, <2>2, LenProperties, ElementOfSeq
    <2>4. QED
      BY <2>3 DEF Branch
  <1>2. QED
    BY <1>1, EngineInvariant, PTL

(* What a supervisor may claim is within the limits of its node and of its *)
(* workflow and is no node the ticket passes over, whatever the bypasses   *)
(* of the definition (a cycle of them ends at the ceiling) and whatever    *)
(* settlements, drafts, retries, releases and migrations led to it.        *)
THEOREM WorkBounded == Spec => []WorkWithinBounds
  <1>1. IInv => WorkWithinBounds
    BY DEF IInv, Sound, Claimable, WorkWithinBounds, Bounded
  <1>2. QED
    BY <1>1, EngineInvariant, PTL

-----------------------------------------------------------------------------
(***************************************************************************)
(* Deadlines.  A ticket whose wait has been started keeps its deadline, or *)
(* has ended the wait and is where the tracker does not lead back to it.   *)
(***************************************************************************)

Timed(n, after, left) ==
    {t \in Shape : IF t.waits[n] = NoWait THEN t.node \in after
                   ELSE t.waits[n].left \in 0..left}

(* The nodes a wait and its poller lead to, and those after it.            *)
LEMMA Departed ==
  ASSUME NEW n \in Waits, NEW after, PolledAlone(n, after)
  PROVE  /\ n \notin after /\ after \subseteq Nodes /\ To(n, "timed_out") \in after
         /\ \A r \in DOMAIN Def[To(n, "elapsed")].routes :
              To(To(n, "elapsed"), r) \in after \cup {n}
         /\ To(n, "elapsed") \in Conditional => Def[To(n, "elapsed")].bypass \in after \cup {n}
         /\ \A m \in after \cap Conditional : Def[m].bypass \in after
  <1>1. /\ after \subseteq Nodes \ {n} /\ To(n, "timed_out") \in after
        /\ (Targets(To(n, "elapsed")) \cup {Def[To(n, "elapsed")].bypass}) \ {n, NoNode}
              \subseteq after
        /\ \A m \in after : Onward(m) \subseteq after
    BY DEF PolledAlone
  <1>2. ASSUME NEW r \in DOMAIN Def[To(n, "elapsed")].routes
        PROVE  To(To(n, "elapsed"), r) \in after \cup {n}
    <2>1. n \in Nodes /\ "elapsed" \in DOMAIN Def[n].routes
      BY Routed DEF Waits, OfType
    <2>2. To(n, "elapsed") \in Nodes
      BY <2>1, Nodal
    <2>3. To(To(n, "elapsed"), r) \in Nodes
      BY <2>2, Nodal
    <2>4. To(To(n, "elapsed"), r) # NoNode
      BY <2>3, Defined
    <2>5. To(To(n, "elapsed"), r) \in Targets(To(n, "elapsed"))
      BY DEF Targets
    <2>6. QED
      BY <1>1, <2>4, <2>5
  <1>3. ASSUME NEW m \in after \cap Conditional PROVE Def[m].bypass \in after
    <2>1. Def[m].bypass \in Onward(m)
      BY DEF Onward, Conditional
    <2>2. QED
      BY <1>1, <2>1
  <1>4. To(n, "elapsed") \in Conditional => Def[To(n, "elapsed")].bypass \in after \cup {n}
    BY <1>1 DEF Conditional
  <1>5. QED
    BY <1>1, <1>2, <1>3, <1>4

(* A move ends the wait only for a node after it.                          *)
LEMMA MoveTimed ==
  ASSUME NEW n \in Waits, NEW after, NEW left, NEW t \in Shape,
         t.waits[n] # NoWait => t.waits[n].left \in 0..left,
         NEW source \in Nodes, NEW target \in Nodes,
         t.waits[n] = NoWait => target \in after,
         source = To(n, "elapsed") => target \in after \cup {n}
  PROVE  Move(t, source, target, FALSE) \in Timed(n, after, left)
  <1> DEFINE m == Move(t, source, target, FALSE)
  <1>1. m \in Shape /\ m.node = target
    <2>1. FALSE \in BOOLEAN
      OBVIOUS
    <2>2. /\ m \in Shape /\ m.node = target
          /\ m.moves = IF t.moves < MoveCap THEN t.moves + 1 ELSE MoveCap
          /\ m.status = t.status /\ m.flow = t.flow /\ m.visits = t.visits
          /\ m.stack = t.stack /\ m.frames = t.frames /\ m.owned = t.owned
          /\ m.off = t.off /\ m.meta = t.meta
      BY <2>1, Moved, Zenon
    <2>3. QED
      BY <2>2, Zenon
  <1>2. m.waits[n] = IF Ended(n, source, target, FALSE) THEN NoWait ELSE t.waits[n]
    BY DEF Move, Shape
  <1> HIDE DEF m
  <1>3. Ended(n, source, target, FALSE) => target \in after
    BY DEF Ended
  <1>4. m \in Timed(n, after, left)
    <2>1. CASE Ended(n, source, target, FALSE)
      BY <1>1, <1>2, <1>3, <2>1 DEF Timed
    <2>2. CASE ~ Ended(n, source, target, FALSE)
      BY <1>1, <1>2, <2>2 DEF Timed
    <2>3. QED
      BY <2>1, <2>2
  <1>5. QED
    BY <1>4 DEF m

LEMMA BypassTimed ==
  ASSUME NEW n \in Waits, NEW after, PolledAlone(n, after), NEW left,
         NEW t \in Timed(n, after, left)
  PROVE  Bypass(t) \in Timed(n, after, left)
  <1>1. /\ t \in Shape /\ (t.waits[n] # NoWait => t.waits[n].left \in 0..left)
        /\ (t.waits[n] = NoWait => t.node \in after)
    BY DEF Timed
  <1>2. CASE ~ (t.node \in t.off /\ ~ Over(t))
    BY <1>2 DEF Bypass
  <1>3. CASE t.node \in t.off /\ ~ Over(t)
    <2> DEFINE target == Def[t.node].bypass
    <2>1. t.node \in Conditional /\ t.node \in Nodes
      BY <1>1, <1>3, Nodal DEF Shape
    <2>2. target \in Nodes
      BY <2>1, Nodal
    <2>3. /\ (t.waits[n] = NoWait => target \in after)
          /\ (t.node = To(n, "elapsed") => target \in after \cup {n})
      BY <1>1, <2>1, Departed
    <2>4. Bypass(t) = Move(t, t.node, target, FALSE)
      BY <1>3 DEF Bypass
    <2> HIDE DEF target
    <2>5. Move(t, t.node, target, FALSE) \in Timed(n, after, left)
      BY <1>1, <2>1, <2>2, <2>3, MoveTimed
    <2>6. QED
      BY <2>4, <2>5
  <1>4. QED
    BY <1>2, <1>3

LEMMA EnterTimed ==
  ASSUME NEW n \in Waits, NEW after, PolledAlone(n, after), NEW left,
         NEW t \in Timed(n, after, left), NEW count \in BOOLEAN
  PROVE  Enter(t, count) \in Timed(n, after, left)
  <1> DEFINE T == Timed(n, after, left)
  <1>1. T \in SUBSET Shape
    BY DEF Timed
  <1>2. \A s \in T : Bypass(s) \in T
    BY BypassTimed
  <1>3. PICK last \in T :
           Enter(t, count) = IF Over(last) THEN [last EXCEPT !.status = "blocked"]
                             ELSE Arrive(last, count)
    <2>1. t \in T
      OBVIOUS
    <2> HIDE DEF T
    <2>2. \E last \in T :
            /\ \A c : Enter(t, c) = IF Over(last) THEN [last EXCEPT !.status = "blocked"]
                                    ELSE Arrive(last, c)
            /\ Alike(last, t) /\ last.visits = t.visits
            /\ Flow(last.node) = Flow(t.node)
            /\ last.node \in last.off => Over(last)
            /\ ~ (t.node \in t.off /\ ~ Over(t)) => last = t
      BY <1>1, <1>2, <2>1, PassedOver, Zenon
    <2>3. QED
      BY <2>2, Zenon
  <1>4. last \in Shape
    BY <1>1
  <1> DEFINE v == IF count THEN Visit(last) ELSE last
  <1>5. v \in Shape /\ v.node = last.node /\ v.waits = last.waits
    BY <1>4, Visited
  <1>6. \A e \in Shape : e.node = last.node /\ e.waits = last.waits => e \in T
    BY DEF Timed
  <1>7. ASSUME NEW status \in Status PROVE [v EXCEPT !.status = status] \in T
    <2> HIDE DEF v
    <2> DEFINE e == [v EXCEPT !.status = status]
    <2>1. e \in Shape /\ e.node = v.node /\ e.waits = v.waits
      BY <1>5 DEF Shape
    <2> HIDE DEF e, T
    <2>2. e \in T
      BY <1>5, <1>6, <2>1
    <2>3. QED
      BY <2>2 DEF e
  <1>8. [last EXCEPT !.status = "blocked"] \in T
    <2> DEFINE e == [last EXCEPT !.status = "blocked"]
    <2>1. e \in Shape /\ e.node = last.node /\ e.waits = last.waits
      BY <1>4 DEF Shape, Status
    <2> HIDE DEF e, T
    <2>2. e \in T
      BY <1>6, <2>1
    <2>3. QED
      BY <2>2 DEF e
  <1>9. Arrive(last, count) \in T
    <2>1. Projection(v.node) \in Status /\ "blocked" \in Status
      <3>1. v.node \in Nodes
        BY <1>5 DEF Shape
      <3> HIDE DEF v
      <3>2. QED
        BY <3>1, Projected DEF Status
    <2>2. \/ Arrive(last, count) = [v EXCEPT !.status = "blocked"]
          \/ Arrive(last, count) = [v EXCEPT !.status = Projection(v.node)]
      BY DEF Arrive
    <2> HIDE DEF v, T
    <2>3. QED
      BY <1>7, <2>1, <2>2
  <1>10. QED
    BY <1>3, <1>8, <1>9

LEMMA TransitTimed ==
  ASSUME NEW n \in Waits, NEW after, PolledAlone(n, after), NEW left, NEW t \in Shape,
         t.waits[n] # NoWait => t.waits[n].left \in 0..left,
         NEW source \in Nodes, NEW route \in DOMAIN Def[source].routes,
         t.waits[n] = NoWait => To(source, route) \in after
  PROVE  Transition(t, source, To(source, route), FALSE) \in Timed(n, after, left)
  <1> DEFINE target == To(source, route)
  <1>1. target \in Nodes /\ (source = To(n, "elapsed") => target \in after \cup {n})
    BY Nodal, Departed
  <1> HIDE DEF target
  <1>2. Move(t, source, target, FALSE) \in Timed(n, after, left)
    BY <1>1, MoveTimed DEF target
  <1>3. TRUE \in BOOLEAN
    OBVIOUS
  <1>4. Enter(Move(t, source, target, FALSE), TRUE) \in Timed(n, after, left)
    BY <1>2, <1>3, EnterTimed, Zenon
  <1>5. QED
    BY <1>4 DEF Transition, target

LEMMA FollowTimed ==
  ASSUME NEW n \in Waits, NEW after, PolledAlone(n, after), NEW left, NEW t \in Shape,
         t.waits[n] # NoWait => t.waits[n].left \in 0..left,
         NEW route \in DOMAIN Def[t.node].routes,
         t.waits[n] = NoWait => To(t.node, route) \in after
  PROVE  Follow(t, route) \in Timed(n, after, left)
  <1>1. t.node \in Nodes
    BY DEF Shape
  <1>2. Transition(t, t.node, To(t.node, route), FALSE) \in Timed(n, after, left)
    BY <1>1, TransitTimed
  <1>3. QED
    BY <1>2 DEF Follow

(* An automatic node after the wait leads to nodes after the wait.         *)
LEMMA AutomaticOnward ==
  ASSUME NEW n \in Waits, NEW after, PolledAlone(n, after), NEW m \in after
  PROVE  /\ Type(m) \in {"wait", "read", "write", "fan_out", "fan_in"} =>
              \A r \in DOMAIN Def[m].routes : To(m, r) \in after
         /\ Type(m) = "fan_in" =>
              \A f \in OfType("fan_out") : Def[f].arg = m => Targets(f) \subseteq after
         /\ Type(m) = "call" => StartOf[Def[m].arg] \in after
         /\ Type(m) = "terminal" =>
              \A c \in OfType("call") : Def[c].arg = Flow(m) =>
                 \A r \in DOMAIN Def[c].routes : To(c, r) \in after
  <1>1. Onward(m) \subseteq after
    BY DEF PolledAlone
  <1>2. CASE Type(m) \in {"wait", "read", "write", "fan_out"}
    <2>1. Targets(m) \subseteq Onward(m)
      BY <1>2 DEF Onward
    <2>2. QED
      BY <1>1, <1>2, <2>1 DEF Targets
  <1>3. CASE Type(m) = "fan_in"
    <2>1. /\ Targets(m) \subseteq Onward(m)
          /\ \A f \in OfType("fan_out") : Def[f].arg = m => Targets(f) \subseteq Onward(m)
      BY <1>3 DEF Onward
    <2>2. \A r \in DOMAIN Def[m].routes : To(m, r) \in after
      BY <1>1, <2>1 DEF Targets
    <2>3. QED
      BY <1>1, <1>3, <2>1, <2>2
  <1>4. CASE Type(m) = "call"
    BY <1>1, <1>4 DEF Onward
  <1>5. CASE Type(m) = "terminal"
    <2>1. \A c \in OfType("call") : Def[c].arg = Flow(m) => Targets(c) \subseteq Onward(m)
      BY <1>5 DEF Onward
    <2>2. \A c \in OfType("call") : \A r \in DOMAIN Def[c].routes : To(c, r) \in Targets(c)
      BY DEF Targets
    <2>3. QED
      BY <1>1, <1>5, <2>1, <2>2
  <1>6. CASE Type(m) \notin {"wait", "read", "write", "fan_out", "fan_in", "call", "terminal"}
    BY <1>6
  <1>7. QED
    BY <1>2, <1>3, <1>4, <1>5, <1>6

LEMMA SettleWaitTimed ==
  ASSUME NEW n \in Waits, NEW after, PolledAlone(n, after), NEW left \in Nat,
         NEW t \in Timed(n, after, left), Type(t.node) = "wait"
  PROVE  SettleWait(t).ticket \in Timed(n, after, left)
  <1> DEFINE m == t.node
             w == t.waits[m]
             over == [t EXCEPT !.waits = [t.waits EXCEPT ![m] = NoWait]]
             stopped == [w EXCEPT !.running = FALSE]
             done == [t EXCEPT !.waits = [t.waits EXCEPT ![m] = stopped]]
             time == IF w = NoWait THEN WaitDeadline ELSE w.left
             wait == [running |-> TRUE, asleep |-> Smaller(time, WaitDelay), left |-> time]
             awaits == [t EXCEPT !.waits = [t.waits EXCEPT ![m] = wait],
                                 !.status = "waiting_external"]
             old == t.waits[n]
  <1>1. /\ t \in Shape /\ m \in Waits /\ m \in Nodes
        /\ t.waits \in [Waits -> Wait \cup {NoWait}]
        /\ w \in Wait \cup {NoWait} /\ old \in Wait \cup {NoWait}
        /\ "elapsed" \in DOMAIN Def[m].routes /\ "timed_out" \in DOMAIN Def[m].routes
    BY Routed DEF Timed, Shape, Waits, OfType
  <1>2. (old # NoWait => old.left \in 0..left) /\ (old = NoWait => m \in after /\ m # n)
    BY Departed DEF Timed
  <1>3. time \in 0..WaitDeadline /\ wait \in Wait
    <2>1. time \in 0..WaitDeadline /\ Smaller(time, WaitDelay) \in 0..WaitDelay
      BY <1>1, BoundAssumption DEF Wait, Smaller
    <2>2. QED
      BY <2>1 DEF Wait
  <1>4. \A x \in Wait : /\ x # NoWait /\ [x EXCEPT !.running = FALSE] \in Wait
                        /\ [x EXCEPT !.running = FALSE].left = x.left
    <2>1. \A x \in Wait : x.left # -1
      BY BoundAssumption DEF Wait
    <2>2. NoWait.left = -1
      BY DEF NoWait
    <2>3. \A x \in Wait : /\ [x EXCEPT !.running = FALSE] \in Wait
                          /\ [x EXCEPT !.running = FALSE].left = x.left
      BY DEF Wait
    <2>4. QED
      BY <2>1, <2>2, <2>3
  <1>5. w.running => w \in Wait
    <2>1. NoWait.running = FALSE
      BY DEF NoWait
    <2> HIDE DEF w
    <2>2. QED
      BY <1>1, <2>1
  <1>6. old = NoWait => To(m, "elapsed") \in after /\ To(m, "timed_out") \in after
    BY <1>1, <1>2, AutomaticOnward
  <1>7. CASE ~ w.running
    <2>1. SettleWait(t).ticket = awaits
      BY <1>7 DEF SettleWait, Rest
    <2>2. m = n => old # NoWait /\ wait.left = old.left
      BY <1>2
    <2> HIDE DEF wait
    <2>3. /\ awaits \in Shape /\ awaits.node = m
          /\ awaits.waits[n] = IF m = n THEN wait ELSE old
      BY <1>1, <1>3 DEF Shape, Status
    <2> HIDE DEF awaits
    <2>4. awaits \in Timed(n, after, left)
      <3>1. CASE m = n
        <4>1. wait # NoWait
          BY <1>3, <1>4
        <4>2. QED
          BY <1>2, <2>2, <2>3, <3>1, <4>1 DEF Timed
      <3>2. CASE m # n
        BY <1>2, <2>3, <3>2 DEF Timed
      <3>3. QED
        BY <3>1, <3>2
    <2>5. QED
      BY <2>1, <2>4
  <1>8. CASE w.running /\ w.left = 0
    <2>1. SettleWait(t).ticket = Follow(over, "timed_out")
      BY <1>8 DEF SettleWait, GoOn
    <2>2. over \in Shape /\ over.node = m /\ over.waits[n] = IF m = n THEN NoWait ELSE old
      BY <1>1 DEF Shape
    <2> HIDE DEF over
    <2>3. over.waits[n] # NoWait => over.waits[n].left \in 0..left
      BY <1>2, <2>2
    <2>4. over.waits[n] = NoWait => To(m, "timed_out") \in after
      BY <1>6, <2>2, Departed
    <2>5. Follow(over, "timed_out") \in Timed(n, after, left)
      BY <1>1, <2>2, <2>3, <2>4, FollowTimed
    <2>6. QED
      BY <2>1, <2>5
  <1>9. CASE w.running /\ w.left > 0 /\ w.asleep = 0
    <2>1. SettleWait(t).ticket = Follow(done, "elapsed")
      BY <1>9 DEF SettleWait, GoOn
    <2>2. stopped \in Wait /\ stopped # NoWait /\ stopped.left = w.left
      <3> HIDE DEF w
      <3>1. QED
        BY <1>4, <1>5, <1>9
    <2>3. done \in Shape /\ done.node = m /\ done.waits[n] = IF m = n THEN stopped ELSE old
      <3> HIDE DEF stopped
      <3>1. QED
        BY <1>1, <2>2 DEF Shape
    <2> HIDE DEF done, stopped
    <2>4. /\ (done.waits[n] # NoWait => done.waits[n].left \in 0..left)
          /\ (done.waits[n] = NoWait => To(m, "elapsed") \in after)
      BY <1>2, <1>6, <2>2, <2>3
    <2>5. Follow(done, "elapsed") \in Timed(n, after, left)
      BY <1>1, <2>3, <2>4, FollowTimed
    <2>6. QED
      BY <2>1, <2>5
  <1>10. CASE w.running /\ w.left # 0 /\ ~ (w.left > 0 /\ w.asleep = 0)
    BY <1>10 DEF SettleWait, Rest
  <1>11. QED
    BY <1>7, <1>8, <1>9, <1>10

(* A node left along a route, with the waits as they are.                  *)
LEMMA RouteTimed ==
  ASSUME NEW n \in Waits, NEW after, PolledAlone(n, after), NEW left,
         NEW t \in Timed(n, after, left),
         Type(t.node) \in {"read", "write", "fan_out", "fan_in"},
         NEW e \in Shape, e.node = t.node, e.waits = t.waits,
         NEW route \in DOMAIN Def[t.node].routes
  PROVE  GoOn(Follow(e, route)).ticket \in Timed(n, after, left)
  <1>1. /\ (e.waits[n] # NoWait => e.waits[n].left \in 0..left)
        /\ (e.waits[n] = NoWait => e.node \in after)
    BY DEF Timed
  <1>2. e.waits[n] = NoWait => To(e.node, route) \in after
    BY <1>1, AutomaticOnward
  <1>3. QED
    BY <1>1, <1>2, FollowTimed DEF GoOn

(* A ticket kept where it is, whatever becomes of its status.              *)
LEMMA KeptTimed ==
  ASSUME NEW n, NEW after, NEW left, NEW t \in Timed(n, after, left),
         NEW e \in Shape, e.node = t.node, e.waits = t.waits
  PROVE  e \in Timed(n, after, left)
  BY DEF Timed

LEMMA SettleFanInTimed ==
  ASSUME NEW n \in Waits, NEW after, PolledAlone(n, after), NEW left,
         NEW t \in Timed(n, after, left), t \in Sound, Type(t.node) = "fan_in"
  PROVE  SettleFanIn(t).ticket \in Timed(n, after, left)
  <1> DEFINE i == FrameOf(t)
  <1>1. /\ t \in Shape /\ t.frames \in Seq(Branch) /\ "next" \in DOMAIN Def[t.node].routes
        /\ (t.waits[n] # NoWait => t.waits[n].left \in 0..left)
        /\ (t.waits[n] = NoWait => t.node \in after)
    BY Routed DEF Timed, Shape, OfType
  <1>2. CASE i = 0
    <2> DEFINE e == [t EXCEPT !.status = "blocked"]
    <2>1. SettleFanIn(t).ticket = e
      BY <1>2 DEF SettleFanIn, Rest
    <2>2. e \in Shape /\ e.node = t.node /\ e.waits = t.waits
      BY <1>1 DEF Shape, Status
    <2> HIDE DEF e
    <2>3. QED
      BY <2>1, <2>2, KeptTimed
  <1>3. CASE i # 0 /\ t.frames[i].pending # <<>>
    <2>1. PICK again \in Shape, fan \in OfType("fan_out") :
            /\ SettleFanIn(t) = GoOn(Enter(again, TRUE)) /\ Placed(again)
            /\ Def[fan].arg = t.node /\ again.node \in Targets(fan)
            /\ again.waits = t.waits
      BY <1>3, BranchSent
    <2>2. t.waits[n] = NoWait => again.node \in after
      BY <1>1, <2>1, AutomaticOnward
    <2>3. again \in Timed(n, after, left)
      BY <1>1, <2>1, <2>2 DEF Timed
    <2>4. TRUE \in BOOLEAN
      OBVIOUS
    <2>5. Enter(again, TRUE) \in Timed(n, after, left)
      BY <2>3, <2>4, EnterTimed, Zenon
    <2> DEFINE e == Enter(again, TRUE)
    <2>6. SettleFanIn(t) = GoOn(e) /\ e \in Timed(n, after, left)
      BY <2>1, <2>5
    <2> HIDE DEF e
    <2>7. QED
      BY <2>6 DEF GoOn
  <1>4. CASE i # 0 /\ t.frames[i].pending = <<>>
    <2> DEFINE frames == RemoveAt(t.frames, i)
               e == [t EXCEPT !.frames = frames]
    <2>1. SettleFanIn(t) = GoOn(Follow(e, "next"))
      BY <1>4 DEF SettleFanIn
    <2>2. frames \in Seq(Branch)
      <3>1. i \in 1..Len(t.frames)
        BY <1>1, <1>4, FrameFound, LenProperties
      <3>2. QED
        BY <1>1, <3>1, Removed
    <2> HIDE DEF frames
    <2>3. e \in Shape /\ e.node = t.node /\ e.waits = t.waits
      BY <1>1, <2>2 DEF Shape
    <2> HIDE DEF e
    <2>4. QED
      BY <1>1, <2>1, <2>3, RouteTimed
  <1>5. QED
    BY <1>2, <1>3, <1>4

LEMMA SettleCallTimed ==
  ASSUME NEW n \in Waits, NEW after, PolledAlone(n, after), NEW left,
         NEW t \in Timed(n, after, left), t \in Sound, Type(t.node) = "call"
  PROVE  SettleCall(t).ticket \in Timed(n, after, left)
  <1> DEFINE m == t.node
             flow == Def[m].arg
             full == Len(t.stack) >= MaxDepth \/ t.moves >= Ceiling[t.flow]
             blocked == [t EXCEPT !.status = "blocked"]
             stack == Append(t.stack, m)
             moves == IF t.moves < MoveCap THEN t.moves + 1 ELSE t.moves
             entry == [t EXCEPT !.stack = stack, !.flow = flow, !.node = StartOf[flow],
                                !.moves = moves]
             e == Enter(entry, TRUE)
  <1>1. /\ t \in Shape /\ m \in OfType("call")
        /\ t.stack \in Seq(OfType("call")) /\ t.moves \in 0..MoveCap
        /\ (t.waits[n] # NoWait => t.waits[n].left \in 0..left)
        /\ (t.waits[n] = NoWait => m \in after)
    BY DEF Timed, Shape, OfType
  <1>2. /\ flow \in DOMAIN Ceiling /\ StartOf[flow] \in Nodes
        /\ (t.waits[n] = NoWait => StartOf[flow] \in after)
    BY <1>1, Called, AutomaticOnward
  <1>3. CASE full
    <2>1. SettleCall(t).ticket = blocked
      BY <1>3 DEF SettleCall, Rest
    <2>2. blocked \in Shape /\ blocked.node = t.node /\ blocked.waits = t.waits
      BY <1>1 DEF Shape, Status
    <2> HIDE DEF blocked
    <2>3. QED
      BY <2>1, <2>2, KeptTimed
  <1>4. CASE ~ full
    <2>1. SettleCall(t) = GoOn(e)
      BY <1>4 DEF SettleCall
    <2>2. stack \in Seq(OfType("call"))
      BY <1>1, AppendProperties
    <2>3. moves \in 0..MoveCap
      BY <1>1, Cap
    <2> HIDE DEF moves, e
    <2>4. entry \in Shape /\ entry.node = StartOf[flow] /\ entry.waits = t.waits
      <3> HIDE DEF stack, flow, m
      <3>1. QED
        BY <1>1, <1>2, <2>2, <2>3 DEF Shape
    <2> HIDE DEF entry
    <2>5. entry \in Timed(n, after, left)
      BY <1>1, <1>2, <2>4 DEF Timed
    <2>6. TRUE \in BOOLEAN
      OBVIOUS
    <2>7. e \in Timed(n, after, left)
      BY <2>5, <2>6, EnterTimed, Zenon DEF e
    <2>8. QED
      BY <2>1, <2>7 DEF GoOn
  <1>5. QED
    BY <1>3, <1>4

(* A child returns to a call of its own workflow, which is the last frame. *)
LEMMA SettleReturnTimed ==
  ASSUME NEW n \in Waits, NEW after, PolledAlone(n, after), NEW left,
         "migrateChild" \notin Commands,
         NEW t \in Timed(n, after, left), t \in Sound, Type(t.node) = "terminal"
  PROVE  SettleReturn(t).ticket \in Timed(n, after, left)
  <1> DEFINE call == Last(t.stack)
             code == IF Def[t.node].arg = "completed" THEN 0 ELSE 1
             stack == Front(t.stack)
             back == [t EXCEPT !.stack = stack, !.flow = Flow(call), !.node = call]
             e == Transition(back, call, To(call, code), FALSE)
  <1>1. /\ t \in Shape /\ Path(t) /\ t.stack \in Seq(OfType("call"))
        /\ (t.waits[n] # NoWait => t.waits[n].left \in 0..left)
        /\ (t.waits[n] = NoWait => t.node \in after)
    BY DEF Sound, Placed, Shape, Timed
  <1>2. CASE t.stack = <<>>
    BY <1>2 DEF SettleReturn, Rest
  <1>3. CASE t.stack # <<>>
    <2>1. SettleReturn(t) = GoOn(e)
      BY <1>3 DEF SettleReturn
    <2>2. /\ call \in OfType("call") /\ stack \in Seq(OfType("call"))
          /\ Def[call].arg = Flow(t.node)
      <3>1. Len(t.stack) \in Nat /\ Len(t.stack) # 0
        BY <1>1, <1>3, EmptySeq, LenProperties
      <3>2. Len(t.stack) \in 1..Len(t.stack) /\ 1 \in Int /\ Len(t.stack) - 1 \in Int
        BY <3>1
      <3>3. \A i \in 1..Len(t.stack) : t.stack[i] \in OfType("call")
        BY <1>1, ElementOfSeq
      <3>4. \A i \in 1..(Len(t.stack) - 1) : t.stack[i] \in OfType("call")
        BY <3>1, <3>3
      <3>5. call \in OfType("call") /\ stack \in Seq(OfType("call"))
        BY <3>2, <3>3, <3>4, SubSeqProperties DEF Last, Front
      <3>6. Flow(t.node) = Caller(t.stack, Len(t.stack) + 1)
        BY <1>1 DEF Path
      <3>7. Caller(t.stack, Len(t.stack) + 1) = Def[t.stack[Len(t.stack)]].arg
        BY <3>1 DEF Caller
      <3>8. QED
        BY <3>5, <3>6, <3>7 DEF Last
    <2>3. call \in Nodes /\ code \in DOMAIN Def[call].routes /\ Flow(call) \in DOMAIN Ceiling
      <3> HIDE DEF call
      <3>1. QED
        BY <2>2, Called, Nodal
    <2> HIDE DEF code
    <2>4. t.waits[n] = NoWait => To(call, code) \in after
      <3> HIDE DEF call
      <3>1. QED
        BY <1>1, <2>2, <2>3, AutomaticOnward
    <2>5. back \in Shape /\ back.waits = t.waits
      <3> HIDE DEF call, stack
      <3>1. QED
        BY <1>1, <2>2, <2>3 DEF Shape
    <2> HIDE DEF back, e, call
    <2>6. e \in Timed(n, after, left)
      <3>1. Transition(back, call, To(call, code), FALSE) \in Timed(n, after, left)
        BY <1>1, <2>3, <2>4, <2>5, TransitTimed
      <3>2. QED
        BY <3>1 DEF e
    <2>7. QED
      BY <2>1, <2>6 DEF GoOn
  <1>4. QED
    BY <1>2, <1>3

LEMMA SettleNodeTimed ==
  ASSUME NEW n \in Waits, NEW after, PolledAlone(n, after), NEW left \in Nat,
         "migrateChild" \notin Commands,
         NEW t \in Timed(n, after, left), t \in Sound
  PROVE  SettleNode(t).ticket \in Timed(n, after, left)
  <1>1. CASE Type(t.node) = "wait"
    BY <1>1, SettleWaitTimed DEF SettleNode
  <1>2. CASE Type(t.node) = "read"
    <2>1. t \in Shape /\ t.meta \in DOMAIN Def[t.node].routes
      BY <1>2, Routed DEF Timed, Shape, OfType
    <2>2. QED
      BY <1>2, <2>1, RouteTimed DEF SettleNode, SettleRead
  <1>3. CASE Type(t.node) = "write"
    <2> DEFINE e == [t EXCEPT !.meta = Def[t.node].arg]
    <2>1. t \in Shape /\ Def[t.node].arg \in Values /\ "next" \in DOMAIN Def[t.node].routes
      BY <1>3, Routed DEF Timed, Shape, OfType
    <2>2. e \in Shape /\ e.node = t.node /\ e.waits = t.waits
      BY <2>1 DEF Shape
    <2>3. SettleNode(t) = GoOn(Follow(e, "next"))
      BY <1>3 DEF SettleNode, SettleWrite
    <2> HIDE DEF e
    <2>4. QED
      BY <1>3, <2>1, <2>2, <2>3, RouteTimed
  <1>4. CASE Type(t.node) = "fan_out"
    <2> DEFINE frame == [fan |-> t.node, pending |-> Tail(Def[t.node].routes), inputs |-> 0]
               frames == Append(t.frames, frame)
               e == [t EXCEPT !.frames = frames]
    <2>1. t \in Shape /\ t.node \in OfType("fan_out") /\ t.frames \in Seq(Branch)
      BY <1>4 DEF Timed, Shape, OfType
    <2>2. frame \in Branch /\ 1 \in DOMAIN Def[t.node].routes
      BY <2>1, FannedOut
    <2>3. SettleNode(t) = GoOn(Follow(e, 1))
      BY <1>4 DEF SettleNode, SettleFanOut
    <2> HIDE DEF frame
    <2>4. frames \in Seq(Branch)
      BY <2>1, <2>2, AppendProperties
    <2> HIDE DEF frames
    <2>5. e \in Shape /\ e.node = t.node /\ e.waits = t.waits
      BY <2>1, <2>4 DEF Shape
    <2> HIDE DEF e
    <2>6. QED
      BY <1>4, <2>2, <2>3, <2>5, RouteTimed
  <1>5. CASE Type(t.node) = "fan_in"
    BY <1>5, SettleFanInTimed DEF SettleNode
  <1>6. CASE Type(t.node) = "call"
    BY <1>6, SettleCallTimed DEF SettleNode
  <1>7. CASE Type(t.node) = "terminal"
    BY <1>7, SettleReturnTimed DEF SettleNode
  <1>8. CASE Type(t.node) \notin {"wait", "read", "write", "fan_out", "fan_in", "call",
                                  "terminal"}
    BY <1>8 DEF SettleNode, Rest
  <1>9. QED
    BY <1>1, <1>2, <1>3, <1>4, <1>5, <1>6, <1>7, <1>8

LEMMA SettledTimed ==
  ASSUME NEW n \in Waits, NEW after, PolledAlone(n, after), NEW left \in Nat,
         "migrateChild" \notin Commands,
         NEW t \in Timed(n, after, left), t \in Sound
  PROVE  Settled(t) \in Timed(n, after, left)
  <1> DEFINE T == Timed(n, after, left) \cap Sound
  <1>1. ASSUME NEW s \in T PROVE SettleNode(s).ticket \in T
    <2>1. s \in Timed(n, after, left) /\ s \in Sound
      OBVIOUS
    <2>2. SettleNode(s).ticket \in Timed(n, after, left)
      BY <2>1, SettleNodeTimed
    <2>3. SettleNode(s).ticket \in Sound
      BY <2>1, SettleNodeSound DEF Outcomes
    <2>4. QED
      BY <2>2, <2>3
  <1>2. T \subseteq Sound /\ t \in T
    OBVIOUS
  <1> HIDE DEF T
  <1>3. Settled(t) \in T
    BY <1>1, <1>2, SettledWithin
  <1>4. QED
    BY <1>3 DEF T

(* The deadline of a wait is absolute wherever its poller alone leads back *)
(* to it: neither a settlement of any length nor the work that polls gives *)
(* a wait more time than it had, whatever child workflows, branches and    *)
(* bypassed stages lie between, as long as no operator migrates a ticket   *)
(* inside a child workflow.                                                *)
THEOREM DeadlinesKept ==
  ASSUME "migrateChild" \notin Commands,
         \A n \in Waits : \E after : PolledAlone(n, after)
  PROVE  Spec => DeadlineKept
  <1>1. ASSUME IInv, NEW n \in Waits, ticket.waits[n] # NoWait,
               Settle \/ (\E r \in DOMAIN Def[ticket.node].routes : Work(r)),
               ticket'.node = n
        PROVE  ticket'.waits[n].left \in 0..ticket.waits[n].left
    <2> DEFINE left == ticket.waits[n].left
    <2>1. PICK after : PolledAlone(n, after)
      OBVIOUS
    <2>2. ticket \in Shape /\ ticket \in Sound
      BY <1>1 DEF IInv, Sound
    <2>3. left \in Nat
      <3>1. ticket.waits[n] \in Wait
        BY <1>1, <2>2 DEF Shape
      <3>2. QED
        BY <3>1, BoundAssumption DEF Wait
    <2> HIDE DEF left
    <2>4. left \in 0..left
      BY <2>3
    <2>5. ticket \in Timed(n, after, left)
      BY <1>1, <2>2, <2>4 DEF Timed, left
    <2>6. ticket' \in Timed(n, after, left)
      <3>1. CASE Settle
        BY <2>1, <2>2, <2>3, <2>5, <3>1, SettledTimed DEF Settle
      <3>2. ASSUME NEW r \in DOMAIN Def[ticket.node].routes, Work(r)
            PROVE  ticket' \in Timed(n, after, left)
        <4> DEFINE e == Follow(ticket, r)
                   new == [e EXCEPT !.owned = TRUE]
        <4>1. e \in Timed(n, after, left)
          BY <1>1, <2>1, <2>2, <2>4, FollowTimed DEF left
        <4>2. ticket' = new
          BY <3>2 DEF Work
        <4> HIDE DEF e
        <4>3. e \in Shape
          BY <4>1 DEF Timed
        <4>4. new \in Shape /\ new.node = e.node /\ new.waits = e.waits
          BY <4>3 DEF Shape
        <4> HIDE DEF new
        <4>5. QED
          BY <4>1, <4>2, <4>4, KeptTimed
      <3>3. QED
        BY <1>1, <3>1, <3>2
    <2>7. n \notin after
      BY <2>1, Departed
    <2>8. QED
      BY <1>1, <2>6, <2>7 DEF Timed, left
  <1>2. IInv => [Settle \/ (\E r \in DOMAIN Def[ticket.node].routes : Work(r)) =>
                   \A n \in Waits : ticket.waits[n] # NoWait /\ ticket'.node = n =>
                       ticket'.waits[n].left \in 0..ticket.waits[n].left]_ticket
    BY <1>1
  <1>3. QED
    BY <1>2, EngineInvariant, PTL DEF DeadlineKept

-----------------------------------------------------------------------------
(***************************************************************************)
(* Definitions.  The two searches of a definition's graph find what is     *)
(* reachable, and no more, in every finite graph.  A search is at a stack  *)
(* and the nodes seen; succ leads from every node to nodes among ids.      *)
(***************************************************************************)

Searches(ids) == Seq(ids) \X SUBSET ids

Searchable(succ, ids) == /\ IsFiniteSet(ids) /\ DOMAIN succ \subseteq ids
                         /\ \A n \in DOMAIN succ : succ[n] \subseteq ids

Skipped(at) == <<Tail(at[1]), at[2]>>
Descended(succ, at) == <<Graph!Below(succ, Head(at[1])) \o Tail(at[1]),
                         at[2] \cup {Head(at[1])}>>

(* What a search will have seen: the least set that holds the stack and    *)
(* the nodes seen, and the successors of whatever else it holds.           *)
Covers(succ, ids, at) ==
    {C \in SUBSET ids : /\ at[2] \subseteq C /\ ToSet(at[1]) \subseteq C
                        /\ \A m \in (C \ at[2]) \cap DOMAIN succ : succ[m] \subseteq C}
Found(succ, ids, at) == {x \in ids : \A C \in Covers(succ, ids, at) : x \in C}

(* The successors of a node, in some order.                                *)
LEMMA Listed ==
  ASSUME NEW S, IsFiniteSet(S)
  PROVE  /\ Graph!SetToSeq(S) \in Seq(S)
         /\ ToSet(Graph!SetToSeq(S)) = S
  <1> DEFINE n == Cardinality(S)
             Lists(f) == \A a, b \in DOMAIN f : f[a] = f[b] => a = b
             list == CHOOSE f \in [1..n -> S] : Lists(f)
  <1>1. n \in Nat /\ ExistsBijection(1..n, S)
    BY FS_CardinalityType
  <1>2. Graph!SetToSeq(S) = list
    <2>1. Graph!Cardinality(S) = Cardinality(S)
      BY DEF Graph!Cardinality, Cardinality
    <2>2. QED
      BY <2>1 DEF Graph!SetToSeq, Graph!IsInjective
  <1> HIDE DEF n
  <1>3. \E f \in [1..n -> S] : Lists(f)
    BY <1>1 DEF ExistsBijection, Bijection, Injection, IsInjective
  <1>4. list \in [1..n -> S] /\ Lists(list)
    BY <1>3
  <1> HIDE DEF list
  <1>5. list \in Injection(1..n, S)
    BY <1>4 DEF Injection, IsInjective
  <1>6. list \in Surjection(1..n, S)
    <2>1. Cardinality(1..n) = n
      BY <1>1, FS_Interval
    <2>2. QED
      BY <1>5, <2>1, FS_Injection DEF n
  <1>7. list \in Seq(S) /\ DOMAIN list = 1..n
    BY <1>1, <1>4, SeqDef
  <1>8. ToSet(list) = S
    BY <1>6, <1>7 DEF ToSet, Surjection
  <1>9. QED
    BY <1>2, <1>7, <1>8

(* Where a search goes next.                                               *)
LEMMA SearchStep ==
  ASSUME NEW succ, NEW ids, Searchable(succ, ids), NEW at \in Searches(ids), at[1] # <<>>
  PROVE  /\ Head(at[1]) \in ids
         /\ Skipped(at) \in Searches(ids)
         /\ Len(Skipped(at)[1]) < Len(at[1])
         /\ ToSet(at[1]) = {Head(at[1])} \cup ToSet(Skipped(at)[1])
         /\ Descended(succ, at) \in Searches(ids)
         /\ ToSet(Descended(succ, at)[1])
              = ToSet(Skipped(at)[1])
                  \cup (IF Head(at[1]) \in DOMAIN succ THEN succ[Head(at[1])] ELSE {})
  <1> DEFINE stack == at[1]
             n == Head(stack)
             rest == Tail(stack)
             below == Graph!Below(succ, n)
             out == IF n \in DOMAIN succ THEN succ[n] ELSE {}
  <1>1. stack \in Seq(ids) /\ at[2] \in SUBSET ids /\ stack # <<>>
    BY DEF Searches
  <1>2. n \in ids /\ rest \in Seq(ids) /\ Len(rest) < Len(stack)
    BY <1>1
  <1>3. ToSet(stack) = {n} \cup ToSet(rest)
    <2>1. DOMAIN stack = 1..Len(stack) /\ DOMAIN rest = 1..(Len(stack) - 1)
      BY <1>1
    <2>2. \A i \in DOMAIN rest : i + 1 \in DOMAIN stack /\ rest[i] = stack[i + 1]
      BY <1>1
    <2>3. \A i \in DOMAIN stack : i # 1 => i - 1 \in DOMAIN rest /\ stack[i] = rest[i - 1]
      BY <1>1, <2>1, <2>2
    <2>4. 1 \in DOMAIN stack /\ n = stack[1]
      BY <1>1
    <2>5. QED
      BY <2>2, <2>3, <2>4 DEF ToSet
  <1>4. below \in Seq(ids) /\ ToSet(below) = out
    <2>1. CASE n \in DOMAIN succ
      <3>1. IsFiniteSet(succ[n]) /\ succ[n] \subseteq ids
        BY <2>1, FS_Subset DEF Searchable
      <3>2. below = Graph!SetToSeq(succ[n])
        BY <2>1 DEF Graph!Below
      <3>3. QED
        BY <2>1, <3>1, <3>2, Listed
    <2>2. CASE n \notin DOMAIN succ
      <3>1. below = <<>>
        BY <2>2 DEF Graph!Below
      <3>2. <<>> \in Seq(ids) /\ ToSet(<<>>) = {}
        BY DEF ToSet
      <3>3. out = {}
        BY <2>2
      <3> HIDE DEF below, out
      <3>4. QED
        BY <3>1, <3>2, <3>3
    <2>3. QED
      BY <2>1, <2>2
  <1> HIDE DEF below
  <1>5. below \o rest \in Seq(ids) /\ ToSet(below \o rest) = ToSet(below) \cup ToSet(rest)
    <2>1. /\ DOMAIN below = 1..Len(below) /\ DOMAIN rest = 1..Len(rest)
          /\ DOMAIN (below \o rest) = 1..(Len(below) + Len(rest))
          /\ Len(below) \in Nat /\ Len(rest) \in Nat
      BY <1>2, <1>4
    <2>2. \A i \in 1..Len(below) : (below \o rest)[i] = below[i]
      BY <1>2, <1>4
    <2>3. \A i \in 1..Len(rest) : (below \o rest)[Len(below) + i] = rest[i]
      BY <1>2, <1>4
    <2>4. \A i \in 1..(Len(below) + Len(rest)) :
            i \in 1..Len(below) \/ \E j \in 1..Len(rest) : i = Len(below) + j
      <3>1. SUFFICES ASSUME NEW i \in 1..(Len(below) + Len(rest)), i \notin 1..Len(below)
                     PROVE  \E j \in 1..Len(rest) : i = Len(below) + j
        OBVIOUS
      <3>2. i - Len(below) \in 1..Len(rest) /\ i = Len(below) + (i - Len(below))
        BY <2>1, <3>1
      <3>3. QED
        BY <3>2
    <2>5. \A i \in 1..Len(below) : i \in DOMAIN (below \o rest)
      BY <2>1
    <2>6. \A i \in 1..Len(rest) : Len(below) + i \in DOMAIN (below \o rest)
      BY <2>1
    <2>7. ToSet(below \o rest) \subseteq ToSet(below) \cup ToSet(rest)
      BY <2>1, <2>2, <2>3, <2>4 DEF ToSet
    <2>8. /\ \A i \in DOMAIN below : below[i] \in ToSet(below \o rest)
          /\ \A i \in DOMAIN rest : rest[i] \in ToSet(below \o rest)
      <3>1. \A i \in DOMAIN (below \o rest) : (below \o rest)[i] \in ToSet(below \o rest)
        BY Zenon DEF ToSet
      <3>2. \A i \in DOMAIN below : below[i] \in ToSet(below \o rest)
        BY <2>1, <2>2, <2>5, <3>1
      <3>3. \A i \in DOMAIN rest : rest[i] \in ToSet(below \o rest)
        BY <2>1, <2>3, <2>6, <3>1
      <3>4. QED
        BY <3>2, <3>3
    <2>9. below \o rest \in Seq(ids)
      BY <1>2, <1>4
    <2>10. QED
      BY <2>7, <2>8, <2>9 DEF ToSet
  <1>6. /\ Skipped(at)[1] = rest /\ Skipped(at) \in Searches(ids)
        /\ Descended(succ, at)[1] = below \o rest
        /\ Descended(succ, at) \in Searches(ids)
    BY <1>1, <1>2, <1>5 DEF Skipped, Descended, Searches, below
  <1>7. QED
    BY <1>2, <1>3, <1>4, <1>5, <1>6

(* What it will have seen, with each of its steps.                         *)
LEMMA FoundSteps ==
  ASSUME NEW succ, NEW ids, Searchable(succ, ids), NEW at \in Searches(ids)
  PROVE  /\ at[1] = <<>> => Found(succ, ids, at) = at[2]
         /\ at[1] # <<>> =>
              /\ Head(at[1]) \in Found(succ, ids, at)
              /\ Head(at[1]) \in at[2] =>
                   Found(succ, ids, at) = Found(succ, ids, Skipped(at))
              /\ Head(at[1]) \notin at[2] =>
                   Found(succ, ids, at) = Found(succ, ids, Descended(succ, at))
  <1>1. at[1] \in Seq(ids) /\ at[2] \subseteq ids
    BY DEF Searches
  <1>2. CASE at[1] = <<>>
    <2>1. ToSet(at[1]) = {}
      BY <1>2 DEF ToSet
    <2>2. at[2] \in Covers(succ, ids, at)
      BY <1>1, <2>1 DEF Covers
    <2>3. \A C \in Covers(succ, ids, at) : at[2] \subseteq C
      BY DEF Covers
    <2>4. QED
      BY <1>1, <1>2, <2>2, <2>3 DEF Found
  <1>3. CASE at[1] # <<>>
    <2> DEFINE n == Head(at[1])
    <2>1. /\ n \in ids
          /\ ToSet(at[1]) = {n} \cup ToSet(Skipped(at)[1])
          /\ ToSet(Descended(succ, at)[1])
               = ToSet(Skipped(at)[1]) \cup (IF n \in DOMAIN succ THEN succ[n] ELSE {})
      BY <1>3, SearchStep
    <2>2. Skipped(at)[2] = at[2] /\ Descended(succ, at)[2] = at[2] \cup {n}
      BY DEF Skipped, Descended
    <2> HIDE DEF n
    <2>3. n \in Found(succ, ids, at)
      BY <2>1 DEF Found, Covers
    <2>4. ASSUME n \in at[2]
          PROVE  Covers(succ, ids, at) = Covers(succ, ids, Skipped(at))
      BY <2>1, <2>2, <2>4 DEF Covers
    <2>5. ASSUME n \notin at[2]
          PROVE  Covers(succ, ids, at) = Covers(succ, ids, Descended(succ, at))
      <3>1. ASSUME NEW C \in Covers(succ, ids, at)
            PROVE  C \in Covers(succ, ids, Descended(succ, at))
        <4>1. n \in C \ at[2]
          BY <2>1, <2>5 DEF Covers
        <4>2. n \in DOMAIN succ => succ[n] \subseteq C
          BY <4>1 DEF Covers
        <4>3. QED
          BY <4>1, <4>2, <2>1, <2>2 DEF Covers
      <3>2. ASSUME NEW C \in Covers(succ, ids, Descended(succ, at))
            PROVE  C \in Covers(succ, ids, at)
        <4>1. n \in C /\ at[2] \subseteq C /\ ToSet(at[1]) \subseteq C
          BY <2>1, <2>2 DEF Covers
        <4>2. ASSUME NEW m \in (C \ at[2]) \cap DOMAIN succ
              PROVE  succ[m] \subseteq C
          BY <2>1, <2>2 DEF Covers
        <4>3. QED
          BY <4>1, <4>2 DEF Covers
      <3>3. QED
        BY <3>1, <3>2
    <2>6. QED
      BY <1>3, <2>3, <2>4, <2>5 DEF Found, n
  <1>4. QED
    BY <1>2, <1>3

(* A search ends: each step sees more, or leaves less on the stack.        *)
Follows(next, at) == \/ at[2] \subseteq next[2] /\ at[2] # next[2]
                     \/ at[2] = next[2] /\ Len(next[1]) < Len(at[1])

LEMMA SearchEnds ==
  ASSUME NEW ids, IsFiniteSet(ids), NEW Bad, Bad \subseteq Searches(ids),
         \A at \in Bad : \E next \in Bad : Follows(next, at)
  PROVE  Bad = {}
  <1> DEFINE left(at) == Cardinality(ids \ at[2])
             K == {left(at) : at \in Bad}
  <1>1. SUFFICES ASSUME Bad # {} PROVE FALSE
    OBVIOUS
  <1>2. \A at \in Bad : left(at) \in Nat /\ Len(at[1]) \in Nat /\ at[2] \subseteq ids
    <2>1. SUFFICES ASSUME NEW at \in Bad
                   PROVE  left(at) \in Nat /\ Len(at[1]) \in Nat /\ at[2] \subseteq ids
      OBVIOUS
    <2>2. at[1] \in Seq(ids) /\ at[2] \subseteq ids
      BY DEF Searches
    <2>3. IsFiniteSet(ids \ at[2])
      BY FS_Subset
    <2>4. QED
      BY <2>2, <2>3, FS_CardinalityType
  <1>3. \A at, next \in Bad : at[2] \subseteq next[2] /\ at[2] # next[2] => left(next) < left(at)
    <2>1. SUFFICES ASSUME NEW at \in Bad, NEW next \in Bad,
                          at[2] \subseteq next[2], at[2] # next[2]
                   PROVE  left(next) < left(at)
      OBVIOUS
    <2>2. /\ ids \ next[2] \in SUBSET (ids \ at[2])
          /\ ids \ next[2] # ids \ at[2]
      BY <1>2, <2>1
    <2>3. IsFiniteSet(ids \ at[2])
      BY FS_Subset
    <2>4. left(next) <= left(at) /\ left(at) # left(next)
      BY <2>2, <2>3, FS_Subset
    <2>5. QED
      BY <1>2, <2>4
  <1>4. PICK k \in K : \A j \in K : k <= j
    <2>1. K \subseteq Nat /\ K # {}
      BY <1>1, <1>2
    <2> HIDE DEF K
    <2>2. QED
      BY <2>1, Smallest
  <1> DEFINE Least == {at \in Bad : left(at) = k}
             L == {Len(at[1]) : at \in Least}
  <1>5. PICK l \in L : \A j \in L : l <= j
    <2>1. L \subseteq Nat /\ L # {}
      BY <1>2, <1>4
    <2> HIDE DEF L
    <2>2. QED
      BY <2>1, Smallest
  <1>6. PICK at \in Least : Len(at[1]) = l
    BY <1>5
  <1>7. PICK next \in Bad : Follows(next, at)
    BY <1>6
  <1>8. left(next) >= left(at)
    BY <1>2, <1>4, <1>6
  <1>9. at[2] = next[2] /\ Len(next[1]) < Len(at[1])
    <2>1. at \in Bad /\ left(at) \in Nat /\ left(next) \in Nat
      BY <1>2, <1>6
    <2>2. ~ (at[2] \subseteq next[2] /\ at[2] # next[2])
      <3>1. SUFFICES ASSUME at[2] \subseteq next[2] /\ at[2] # next[2] PROVE FALSE
        OBVIOUS
      <3>2. left(next) < left(at)
        BY <1>3, <2>1, <3>1
      <3> HIDE DEF left
      <3>3. QED
        BY <1>8, <2>1, <3>2
    <2>3. QED
      BY <1>7, <2>2 DEF Follows
  <1>10. next \in Least
    BY <1>6, <1>9
  <1>11. l <= Len(next[1]) /\ Len(next[1]) \in Nat /\ Len(at[1]) \in Nat
    BY <1>2, <1>5, <1>6, <1>10
  <1>12. QED
    BY <1>6, <1>9, <1>11

(* The recursion of visit, as an equation, and its one solution.           *)
Visits(succ, ids, v) ==
    [at \in Seq(ids) \X SUBSET ids |->
       LET stack == at[1]
           seen == at[2]
           n == Head(stack)
       IN  IF stack = <<>> THEN seen
           ELSE IF n \in seen THEN v[<<Tail(stack), seen>>]
                ELSE v[<<Graph!Below(succ, n) \o Tail(stack), seen \cup {n}>>]]

LEMMA VisitFinds ==
  ASSUME NEW succ, NEW start, Searchable(succ, Graph!Ids(succ, start))
  PROVE  Graph!Reachable(succ, start)
           = Found(succ, Graph!Ids(succ, start), << <<start>>, {} >>)
  <1> DEFINE ids == Graph!Ids(succ, start)
             f == [at \in Searches(ids) |-> Found(succ, ids, at)]
             visit == CHOOSE v : v = Visits(succ, ids, v)
  <1>1. Graph!Reachable(succ, start) = visit[<< <<start>>, {} >>]
    BY DEF Graph!Reachable, Visits
  <1>2. << <<start>>, {} >> \in Searches(ids)
    <2>1. start \in ids
      BY DEF Graph!Ids
    <2> HIDE DEF ids
    <2>2. QED
      BY <2>1 DEF Searches
  <1>3. Searchable(succ, ids) /\ IsFiniteSet(ids)
    BY DEF Searchable
  <1> HIDE DEF ids
  <1>4. \A v : \A at \in Searches(ids) :
          Visits(succ, ids, v)[at] = IF at[1] = <<>> THEN at[2]
                                     ELSE IF Head(at[1]) \in at[2] THEN v[Skipped(at)]
                                          ELSE v[Descended(succ, at)]
    BY DEF Visits, Searches, Skipped, Descended
  <1>5. f = Visits(succ, ids, f)
    <2>1. \A at \in Searches(ids) : f[at] = Visits(succ, ids, f)[at]
      <3>1. SUFFICES ASSUME NEW at \in Searches(ids)
                     PROVE  f[at] = Visits(succ, ids, f)[at]
        OBVIOUS
      <3>2. \A next \in Searches(ids) : f[next] = Found(succ, ids, next)
        OBVIOUS
      <3> HIDE DEF f
      <3>3. CASE at[1] = <<>>
        BY <3>2, <3>3, <1>3, <1>4, FoundSteps
      <3>4. CASE at[1] # <<>>
        <4>1. Skipped(at) \in Searches(ids) /\ Descended(succ, at) \in Searches(ids)
          BY <3>4, <1>3, SearchStep
        <4>2. QED
          BY <3>2, <3>4, <4>1, <1>3, <1>4, FoundSteps
      <3>5. QED
        BY <3>3, <3>4
    <2>2. /\ DOMAIN f = Searches(ids) /\ f = [at \in Searches(ids) |-> f[at]]
          /\ \A v : /\ DOMAIN Visits(succ, ids, v) = Searches(ids)
                    /\ Visits(succ, ids, v)
                         = [at \in Searches(ids) |-> Visits(succ, ids, v)[at]]
      BY DEF Visits, Searches
    <2> HIDE DEF f
    <2>3. QED
      BY <2>1, <2>2
  <1>6. visit = Visits(succ, ids, visit)
    BY <1>5
  <1> HIDE DEF visit
  <1> DEFINE Bad == {at \in Searches(ids) : visit[at] # Found(succ, ids, at)}
  <1>7. ASSUME NEW at \in Bad
        PROVE  \E next \in Bad : Follows(next, at)
    <2>1. at \in Searches(ids) /\ visit[at] # Found(succ, ids, at)
      OBVIOUS
    <2>2. visit[at] = IF at[1] = <<>> THEN at[2]
                      ELSE IF Head(at[1]) \in at[2] THEN visit[Skipped(at)]
                           ELSE visit[Descended(succ, at)]
      BY <1>4, <1>6, <2>1
    <2>3. at[1] # <<>>
      BY <1>3, <2>1, <2>2, FoundSteps
    <2>4. /\ Skipped(at) \in Searches(ids) /\ Descended(succ, at) \in Searches(ids)
          /\ Len(Skipped(at)[1]) < Len(at[1])
      BY <1>3, <2>1, <2>3, SearchStep
    <2>5. CASE Head(at[1]) \in at[2]
      <3>1. Skipped(at) \in Bad
        BY <1>3, <2>1, <2>2, <2>3, <2>4, <2>5, FoundSteps
      <3>2. Follows(Skipped(at), at)
        BY <2>4 DEF Follows, Skipped
      <3>3. QED
        BY <3>1, <3>2
    <2>6. CASE Head(at[1]) \notin at[2]
      <3>1. Descended(succ, at) \in Bad
        BY <1>3, <2>1, <2>2, <2>3, <2>4, <2>6, FoundSteps
      <3>2. Follows(Descended(succ, at), at)
        BY <2>6 DEF Follows, Descended
      <3>3. QED
        BY <3>1, <3>2
    <2>7. QED
      BY <2>5, <2>6
  <1>8. Bad = {}
    <2>1. Bad \subseteq Searches(ids)
      OBVIOUS
    <2> HIDE DEF Bad
    <2>2. QED
      BY <1>3, <1>7, <2>1, SearchEnds
  <1>9. QED
    BY <1>1, <1>2, <1>8 DEF ids

(* That of reachesJoin, which never counts the join among the nodes seen.  *)
Reaches(succ, join, ids, v) ==
    [at \in Seq(ids) \X SUBSET ids |->
       LET stack == at[1]
           seen == at[2]
           n == Head(stack)
       IN  /\ stack # <<>>
           /\ \/ n = join
              \/ n \in seen /\ v[<<Tail(stack), seen>>]
              \/ n \notin seen /\ v[<<Graph!Below(succ, n) \o Tail(stack), seen \cup {n}>>]]

(* Whether a search that has not seen the join will find it.               *)
Leads(succ, join, ids, at) == join \in Found(succ, ids, <<at[1], at[2] \ {join}>>)

LEMMA LeadsSteps ==
  ASSUME NEW succ, NEW join, NEW ids, Searchable(succ, ids), NEW at \in Searches(ids)
  PROVE  /\ at[1] = <<>> => ~ Leads(succ, join, ids, at)
         /\ at[1] # <<>> =>
              /\ Head(at[1]) = join => Leads(succ, join, ids, at)
              /\ Head(at[1]) # join /\ Head(at[1]) \in at[2] =>
                   (Leads(succ, join, ids, at) <=> Leads(succ, join, ids, Skipped(at)))
              /\ Head(at[1]) # join /\ Head(at[1]) \notin at[2] =>
                   (Leads(succ, join, ids, at) <=> Leads(succ, join, ids, Descended(succ, at)))
  <1> DEFINE less == <<at[1], at[2] \ {join}>>
  <1>1. less \in Searches(ids) /\ less[1] = at[1] /\ less[2] = at[2] \ {join}
    BY DEF Searches
  <1>2. at[1] = <<>> => join \notin Found(succ, ids, less)
    BY <1>1, FoundSteps
  <1>3. ASSUME at[1] # <<>>, Head(at[1]) = join
        PROVE  join \in Found(succ, ids, less)
    BY <1>1, <1>3, FoundSteps
  <1>4. ASSUME at[1] # <<>>, Head(at[1]) # join, Head(at[1]) \in at[2]
        PROVE  Found(succ, ids, less)
                 = Found(succ, ids, <<Skipped(at)[1], Skipped(at)[2] \ {join}>>)
    <2>1. <<Skipped(at)[1], Skipped(at)[2] \ {join}>> = Skipped(less)
      BY DEF Skipped
    <2>2. Head(less[1]) \in less[2]
      BY <1>1, <1>4
    <2> HIDE DEF less
    <2>3. Found(succ, ids, less) = Found(succ, ids, Skipped(less))
      BY <1>1, <1>4, <2>2, FoundSteps
    <2>4. QED
      BY <2>1, <2>3, Zenon
  <1>5. ASSUME at[1] # <<>>, Head(at[1]) # join, Head(at[1]) \notin at[2]
        PROVE  Found(succ, ids, less)
                 = Found(succ, ids, <<Descended(succ, at)[1], Descended(succ, at)[2] \ {join}>>)
    <2>1. (at[2] \cup {Head(at[1])}) \ {join} = (at[2] \ {join}) \cup {Head(at[1])}
      BY <1>5
    <2>2. <<Descended(succ, at)[1], Descended(succ, at)[2] \ {join}>> = Descended(succ, less)
      BY <2>1 DEF Descended
    <2>3. Head(less[1]) \notin less[2]
      BY <1>1, <1>5
    <2> HIDE DEF less
    <2>4. Found(succ, ids, less) = Found(succ, ids, Descended(succ, less))
      BY <1>1, <1>5, <2>3, FoundSteps
    <2>5. QED
      BY <2>2, <2>4, Zenon
  <1>6. QED
    BY <1>2, <1>3, <1>4, <1>5 DEF Leads

LEMMA ReachesJoinFinds ==
  ASSUME NEW succ, NEW join, NEW from, Searchable(succ, Graph!Ids(succ, from))
  PROVE  Graph!ReachesJoin(succ, join, from)
           <=> join \in Found(succ, Graph!Ids(succ, from), << <<from>>, {} >>)
  <1> DEFINE ids == Graph!Ids(succ, from)
             f == [at \in Searches(ids) |-> Leads(succ, join, ids, at)]
             search == CHOOSE v : v = Reaches(succ, join, ids, v)
  <1>1. Graph!ReachesJoin(succ, join, from) = search[<< <<from>>, {} >>]
    BY Zenon DEF Graph!ReachesJoin, Reaches
  <1>2. << <<from>>, {} >> \in Searches(ids)
    <2>1. from \in ids
      BY DEF Graph!Ids
    <2> HIDE DEF ids
    <2>2. QED
      BY <2>1 DEF Searches
  <1>3. Searchable(succ, ids) /\ IsFiniteSet(ids)
    BY DEF Searchable
  <1> HIDE DEF ids
  <1>4. \A v : \A at \in Searches(ids) :
          Reaches(succ, join, ids, v)[at]
            = (/\ at[1] # <<>>
               /\ \/ Head(at[1]) = join
                  \/ Head(at[1]) \in at[2] /\ v[Skipped(at)]
                  \/ Head(at[1]) \notin at[2] /\ v[Descended(succ, at)])
    BY Zenon DEF Reaches, Searches, Skipped, Descended
  <1>5. f = Reaches(succ, join, ids, f)
    <2>1. \A at \in Searches(ids) : f[at] = Reaches(succ, join, ids, f)[at]
      <3>1. SUFFICES ASSUME NEW at \in Searches(ids)
                     PROVE  f[at] = Reaches(succ, join, ids, f)[at]
        OBVIOUS
      <3>2. \A next \in Searches(ids) : f[next] = Leads(succ, join, ids, next)
        BY Zenon
      <3> HIDE DEF f
      <3> DEFINE goesOn == /\ at[1] # <<>>
                           /\ \/ Head(at[1]) = join
                              \/ Head(at[1]) \in at[2] /\ f[Skipped(at)]
                              \/ Head(at[1]) \notin at[2] /\ f[Descended(succ, at)]
      <3>3. Leads(succ, join, ids, at) <=> goesOn
        <4>1. CASE at[1] = <<>>
          BY <4>1, <1>3, LeadsSteps, Zenon
        <4>2. CASE at[1] # <<>>
          <5>1. Skipped(at) \in Searches(ids) /\ Descended(succ, at) \in Searches(ids)
            BY <4>2, <1>3, SearchStep
          <5>2. QED
            BY <3>2, <4>2, <5>1, <1>3, LeadsSteps, Zenon
        <4>3. QED
          BY <4>1, <4>2
      <3>4. Leads(succ, join, ids, at) \in BOOLEAN
        BY DEF Leads
      <3>5. Reaches(succ, join, ids, f)[at] = goesOn /\ goesOn \in BOOLEAN
        BY <1>4, Zenon
      <3> HIDE DEF goesOn
      <3>6. Leads(succ, join, ids, at) = goesOn
        BY <3>3, <3>4, <3>5
      <3>7. QED
        BY <3>2, <3>5, <3>6, Zenon
    <2>2. /\ DOMAIN f = Searches(ids) /\ f = [at \in Searches(ids) |-> f[at]]
          /\ \A v : /\ DOMAIN Reaches(succ, join, ids, v) = Searches(ids)
                    /\ Reaches(succ, join, ids, v)
                         = [at \in Searches(ids) |-> Reaches(succ, join, ids, v)[at]]
      BY Zenon DEF Reaches, Searches
    <2> HIDE DEF f
    <2>3. QED
      BY <2>1, <2>2
  <1>6. search = Reaches(succ, join, ids, search)
    BY <1>5
  <1> HIDE DEF search
  <1> DEFINE Bad == {at \in Searches(ids) : ~ (search[at] <=> Leads(succ, join, ids, at))}
  <1>7. ASSUME NEW at \in Bad
        PROVE  \E next \in Bad : Follows(next, at)
    <2>1. at \in Searches(ids) /\ ~ (search[at] <=> Leads(succ, join, ids, at))
      BY Zenon
    <2>2. search[at] <=> /\ at[1] # <<>>
                         /\ \/ Head(at[1]) = join
                            \/ Head(at[1]) \in at[2] /\ search[Skipped(at)]
                            \/ Head(at[1]) \notin at[2] /\ search[Descended(succ, at)]
      BY <1>4, <1>6, <2>1, Zenon
    <2>3. at[1] # <<>> /\ Head(at[1]) # join
      BY <1>3, <2>1, <2>2, LeadsSteps, Zenon
    <2>4. /\ Skipped(at) \in Searches(ids) /\ Descended(succ, at) \in Searches(ids)
          /\ Len(Skipped(at)[1]) < Len(at[1])
      BY <1>3, <2>1, <2>3, SearchStep
    <2>5. CASE Head(at[1]) \in at[2]
      <3>1. Skipped(at) \in Bad
        BY <1>3, <2>1, <2>2, <2>3, <2>4, <2>5, LeadsSteps, Zenon
      <3>2. Follows(Skipped(at), at)
        BY <2>4 DEF Follows, Skipped
      <3>3. QED
        BY <3>1, <3>2
    <2>6. CASE Head(at[1]) \notin at[2]
      <3>1. Descended(succ, at) \in Bad
        BY <1>3, <2>1, <2>2, <2>3, <2>4, <2>6, LeadsSteps, Zenon
      <3>2. Follows(Descended(succ, at), at)
        BY <2>6 DEF Follows, Descended
      <3>3. QED
        BY <3>1, <3>2
    <2>7. QED
      BY <2>5, <2>6
  <1>8. Bad = {}
    <2>1. Bad \subseteq Searches(ids)
      OBVIOUS
    <2> HIDE DEF Bad
    <2>2. QED
      BY <1>3, <1>7, <2>1, SearchEnds
  <1>9. search[<< <<from>>, {} >>] <=> Leads(succ, join, ids, << <<from>>, {} >>)
    BY <1>2, <1>8, Zenon
  <1>10. Leads(succ, join, ids, << <<from>>, {} >>)
           <=> join \in Found(succ, ids, << <<from>>, {} >>)
    <2>1. << << <<from>>, {} >>[1], << <<from>>, {} >>[2] \ {join} >> = << <<from>>, {} >>
      OBVIOUS
    <2>2. QED
      BY <2>1 DEF Leads
  <1>11. QED
    BY <1>1, <1>9, <1>10, Zenon DEF ids

(* What the searches of validateWorkflow find, in every finite graph and   *)
(* from every start: visit the least set of nodes that holds the start and *)
(* all its members lead to, whichever targets it looks at first, and       *)
(* reachesJoin a join exactly when it is in that set.                      *)
Closed(succ, C) == \A n \in C \cap DOMAIN succ : succ[n] \subseteq C

THEOREM SearchesAreExact ==
  ASSUME NEW succ, NEW start, IsFiniteSet(DOMAIN succ), \A n \in DOMAIN succ : IsFiniteSet(succ[n])
  PROVE  /\ start \in Graph!Reachable(succ, start)
         /\ Closed(succ, Graph!Reachable(succ, start))
         /\ \A C : start \in C /\ Closed(succ, C) => Graph!Reachable(succ, start) \subseteq C
         /\ \A join : Graph!ReachesJoin(succ, join, start)
                        <=> join \in Graph!Reachable(succ, start)
  <1> DEFINE ids == Graph!Ids(succ, start)
             at == << <<start>>, {} >>
             found == Found(succ, ids, at)
  <1>1. Searchable(succ, ids)
    <2> DEFINE image == {succ[n] : n \in DOMAIN succ}
    <2>1. IsFiniteSet(image)
      <3> DEFINE onto == [n \in DOMAIN succ |-> succ[n]]
      <3>1. onto \in Surjection(DOMAIN succ, image)
        BY DEF Surjection
      <3>2. QED
        BY <3>1, FS_Surjection
    <2>2. IsFiniteSet(UNION image)
      <3>1. \A T \in image : IsFiniteSet(T)
        OBVIOUS
      <3> HIDE DEF image
      <3>2. QED
        BY <2>1, <3>1, FS_UNION
    <2>3. IsFiniteSet({start})
      BY FS_Singleton
    <2>4. IsFiniteSet(({start} \cup DOMAIN succ) \cup UNION image)
      <3>1. IsFiniteSet({start} \cup DOMAIN succ)
        BY <2>3, FS_Union
      <3> HIDE DEF image
      <3>2. QED
        BY <2>2, <3>1, FS_Union
    <2>5. QED
      BY <2>4 DEF Searchable, Graph!Ids
  <1>2. start \in ids /\ DOMAIN succ \subseteq ids /\ \A n \in DOMAIN succ : succ[n] \subseteq ids
    BY <1>1 DEF Searchable, Graph!Ids
  <1>3. /\ Graph!Reachable(succ, start) = found
        /\ \A join : Graph!ReachesJoin(succ, join, start) <=> join \in found
    BY <1>1, VisitFinds, ReachesJoinFinds, Zenon
  <1> HIDE DEF ids
  <1>4. \A C : C \in Covers(succ, ids, at) <=> C \subseteq ids /\ start \in C /\ Closed(succ, C)
    <2>1. ToSet(<<start>>) = {start}
      BY DEF ToSet
    <2>2. at[1] = <<start>> /\ at[2] = {}
      OBVIOUS
    <2> HIDE DEF at
    <2>3. QED
      BY <2>1, <2>2 DEF Covers, Closed
  <1>5. start \in found
    BY <1>2, <1>4 DEF Found
  <1>6. Closed(succ, found)
    <2>1. SUFFICES ASSUME NEW n \in found \cap DOMAIN succ, NEW m \in succ[n]
                   PROVE  m \in found
      BY DEF Closed
    <2>2. m \in ids
      BY <1>2, <2>1
    <2>3. \A C \in Covers(succ, ids, at) : m \in C
      BY <1>4, <2>1 DEF Found, Closed
    <2>4. QED
      BY <2>2, <2>3 DEF Found
  <1>7. ASSUME NEW C, start \in C, Closed(succ, C)
        PROVE  found \subseteq C
    <2>1. C \cap ids \in Covers(succ, ids, at)
      BY <1>2, <1>4, <1>7 DEF Closed
    <2>2. QED
      BY <2>1 DEF Found
  <1>8. QED
    BY <1>3, <1>5, <1>6, <1>7

-----------------------------------------------------------------------------
(***************************************************************************)
(* What the library accepts can be interpreted.                            *)
(***************************************************************************)

(* What validateWorkflow has looked at, of every node.                      *)
LEMMA NodeAccepted ==
  ASSUME NEW D, Graph!Valid(D), NEW n \in DOMAIN D.nodes
  PROVE  /\ Graph!NodeValid(D, n)
         /\ D.nodes[n].type \in Graph!Types
         /\ D.nodes[n].stage \in DOMAIN D.stages
         /\ Graph!StageValid(D, D.nodes[n].stage)
         /\ D.nodes[n].limit \in 0..100
         /\ Graph!RoutesValid(D, n)
         /\ Graph!ConditionValid(D, n)
  <1>1. Graph!NodeValid(D, n) /\ \A s \in DOMAIN D.stages : Graph!StageValid(D, s)
    BY DEF Graph!Valid
  <1>2. /\ D.nodes[n].type \in Graph!Types /\ D.nodes[n].stage \in DOMAIN D.stages
        /\ D.nodes[n].limit \in 0..100
        /\ Graph!RoutesValid(D, n) /\ Graph!ConditionValid(D, n)
    BY <1>1, Zenon DEF Graph!NodeValid, Graph!Node
  <1>3. QED
    BY <1>1, <1>2

(* The targets of an accepted node are nodes.                              *)
LEMMA TargetsKnown ==
  ASSUME NEW D, Graph!Valid(D), NEW n \in DOMAIN D.nodes
  PROVE  Graph!WorkflowTargets(D, D.nodes[n]) \subseteq DOMAIN D.nodes
  <1> DEFINE node == D.nodes[n]
  <1>1. \A r \in Graph!ToSet(Graph!Routes(node)) : r.target \in DOMAIN D.nodes
    BY NodeAccepted DEF Graph!RoutesValid, Graph!Known, Graph!Node, Graph!ToSet
  <1>2. node.otherwise \in DOMAIN D.nodes \cup {""}
    BY NodeAccepted DEF Graph!ConditionValid, Graph!Known, Graph!Node
  <1>3. Graph!BypassTo(D, node) \in DOMAIN D.nodes \cup {""}
    BY NodeAccepted DEF Graph!BypassTo, Graph!StageValid, Graph!Known
  <1>4. node.watch.target \in DOMAIN D.nodes \cup {""}
    <2>1. Graph!NodeValid(D, n)
      BY NodeAccepted
    <2>2. node.type \notin {"human_gate", "terminal"} => node.watch = Graph!Blank("", "").watch
      BY <2>1 DEF Graph!NodeValid, Graph!Node
    <2>3. Graph!Blank("", "").watch.target = ""
      BY DEF Graph!Blank
    <2>4. node.type = "human_gate" => Graph!GateValid(node)
      BY <2>1 DEF Graph!NodeValid, Graph!Node
    <2>5. node.type = "terminal" => Graph!TerminalValid(D, node)
      BY <2>1 DEF Graph!NodeValid, Graph!Node
    <2>6. node.type = "human_gate" => node.watch.target = ""
      BY <2>4 DEF Graph!GateValid
    <2>7. node.type = "terminal" => node.watch.target \in DOMAIN D.nodes \cup {""}
      BY <2>5 DEF Graph!TerminalValid, Graph!Onward, Graph!Known
    <2> HIDE DEF node
    <2>8. QED
      BY <2>2, <2>3, <2>6, <2>7
  <1> HIDE DEF node
  <1>5. QED
    BY <1>1, <1>2, <1>3, <1>4 DEF Graph!WorkflowTargets, node

(* In a definition the library accepts every node can be reached from the  *)
(* start, and the join of a fan-out from each of its branches, along       *)
(* routes, conditions, bypasses and the targets of GitHub's feedback.      *)
ClosedIn(D, C) == \A n \in C \cap DOMAIN D.nodes :
                    Graph!WorkflowTargets(D, D.nodes[n]) \subseteq C

THEOREM ValidIsConnected ==
  ASSUME NEW D, IsFiniteSet(DOMAIN D.nodes), Graph!Valid(D)
  PROVE  /\ \A C : D.start \in C /\ ClosedIn(D, C) => DOMAIN D.nodes \subseteq C
         /\ \A n \in DOMAIN D.nodes : D.nodes[n].type = "fan_out" =>
              \A i \in DOMAIN D.nodes[n].routes :
                \A C : D.nodes[n].routes[i].target \in C /\ ClosedIn(D, C)
                         => D.nodes[n].join \in C
  <1> DEFINE succ == Graph!Successors(D)
  <1>1. DOMAIN succ = DOMAIN D.nodes
    BY DEF Graph!Successors
  <1>2. \A n \in DOMAIN D.nodes : succ[n] = Graph!WorkflowTargets(D, D.nodes[n])
    BY DEF Graph!Successors, Graph!Node
  <1> HIDE DEF succ
  <1>3. IsFiniteSet(DOMAIN succ) /\ \A n \in DOMAIN succ : IsFiniteSet(succ[n])
    BY <1>1, <1>2, TargetsKnown, FS_Subset
  <1>4. \A C : ClosedIn(D, C) <=> Closed(succ, C)
    BY <1>1, <1>2 DEF ClosedIn, Closed
  <1>5. \A start : /\ \A C : start \in C /\ Closed(succ, C) => Graph!Reachable(succ, start) \subseteq C
                   /\ \A join : Graph!ReachesJoin(succ, join, start)
                                  <=> join \in Graph!Reachable(succ, start)
    BY <1>3, SearchesAreExact
  <1>6. DOMAIN D.nodes \subseteq Graph!Reachable(succ, D.start)
    BY DEF Graph!Valid, succ
  <1>7. ASSUME NEW n \in DOMAIN D.nodes, D.nodes[n].type = "fan_out",
               NEW i \in DOMAIN D.nodes[n].routes
        PROVE  Graph!ReachesJoin(succ, D.nodes[n].join, D.nodes[n].routes[i].target)
    <2>1. Graph!NodeValid(D, n)
      BY NodeAccepted
    <2>2. Graph!FanOutValid(D, D.nodes[n])
      BY <1>7, <2>1 DEF Graph!NodeValid, Graph!Node
    <2>3. D.nodes[n].routes[i] \in Graph!ToSet(D.nodes[n].routes)
      BY DEF Graph!ToSet
    <2>4. QED
      BY <2>2, <2>3 DEF Graph!FanOutValid, succ
  <1>8. ASSUME NEW C, D.start \in C, ClosedIn(D, C)
        PROVE  DOMAIN D.nodes \subseteq C
    <2>1. Graph!Reachable(succ, D.start) \subseteq C
      BY <1>4, <1>5, <1>8
    <2>2. QED
      BY <1>6, <2>1
  <1>9. ASSUME NEW n \in DOMAIN D.nodes, D.nodes[n].type = "fan_out",
               NEW i \in DOMAIN D.nodes[n].routes,
               NEW C, D.nodes[n].routes[i].target \in C, ClosedIn(D, C)
        PROVE  D.nodes[n].join \in C
    <2> DEFINE target == D.nodes[n].routes[i].target
    <2>1. D.nodes[n].join \in Graph!Reachable(succ, target)
      BY <1>5, <1>7, <1>9
    <2>2. Graph!Reachable(succ, target) \subseteq C
      BY <1>4, <1>5, <1>9
    <2>3. QED
      BY <2>1, <2>2
  <1>10. QED
    BY <1>8, <1>9

(* Definitions as they are stored: their nodes have names (SAFE_ID) and    *)
(* lists of routes.                                                        *)
Ways == [id : STRING, target : STRING, codes : SUBSET (Int \cup Values),
         default : BOOLEAN]
Stored(D) == /\ "" \notin DOMAIN D.nodes /\ NoNode \notin DOMAIN D.nodes
             /\ \A n \in DOMAIN D.nodes : D.nodes[n].routes \in Seq(Ways)

(* A route taken by code or value is one of the node's.                    *)
LEMMA Answered ==
  ASSUME NEW D, Stored(D), NEW n \in DOMAIN D.nodes, Graph!OneDefault(D.nodes[n]), NEW code
  PROVE  \E i \in DOMAIN D.nodes[n].routes :
           Graph!ActivityTarget(D.nodes[n], code) = D.nodes[n].routes[i].target
  <1> DEFINE routes == D.nodes[n].routes
             exact == {i \in DOMAIN routes : code \in routes[i].codes}
             default == {i \in DOMAIN routes : routes[i].default}
             taken == IF exact # {} THEN exact ELSE default
  <1>1. Graph!ActivityTarget(D.nodes[n], code) = routes[Graph!Min(taken)].target
    BY DEF Graph!ActivityTarget
  <1>2. default # {}
    <2>1. Cardinality(default) = 1
      BY DEF Graph!OneDefault, Graph!Cardinality, Cardinality
    <2>2. QED
      BY <2>1, FS_EmptySet
  <1>3. DOMAIN routes \subseteq Nat
    <2>1. routes \in Seq(Ways)
      BY DEF Stored
    <2>2. QED
      BY <2>1
  <1>4. taken \subseteq DOMAIN routes /\ taken # {}
    BY <1>2
  <1> HIDE DEF taken
  <1>5. \E i \in taken : \A j \in taken : i <= j
    BY <1>3, <1>4, Smallest
  <1>6. Graph!Min(taken) \in taken
    BY <1>5 DEF Graph!Min
  <1>7. QED
    BY <1>1, <1>4, <1>6

LEMMA Listing ==
  ASSUME NEW a, NEW b
  PROVE  ToSet(<<a>> \o <<b>>) = {a, b}
  <1>1. <<a>> \in Seq({a, b}) /\ <<b>> \in Seq({a, b})
    OBVIOUS
  <1>2. /\ DOMAIN (<<a>> \o <<b>>) = 1..2
        /\ (<<a>> \o <<b>>)[1] = a /\ (<<a>> \o <<b>>)[2] = b
    BY <1>1
  <1>3. QED
    BY <1>2 DEF ToSet

(* The outcomes of a wait.                                                 *)
LEMMA WaitRoutes ==
  ASSUME NEW node, node.type = "wait", node.next # "", node.timeout # ""
  PROVE  {r.id : r \in ToSet(Graph!Routes(node))} = {"elapsed", "timed_out"}
  <1> DEFINE one == Graph!Route("elapsed", node.next)
             two == Graph!Route("timed_out", node.timeout)
  <1>1. Graph!Routes(node) = <<one>> \o <<two>>
    BY DEF Graph!Routes
  <1>2. one.id = "elapsed" /\ two.id = "timed_out"
    BY DEF Graph!Route
  <1> HIDE DEF one, two
  <1>3. ToSet(<<one>> \o <<two>>) = {one, two}
    BY Listing
  <1>4. QED
    BY <1>1, <1>2, <1>3

(* Where a compiled node leads.                                            *)
LEMMA RoutesLead ==
  ASSUME NEW D, Stored(D), Graph!Valid(D), NEW n \in DOMAIN D.nodes
  PROVE  \A r \in DOMAIN RoutesOf(D.nodes[n]) : RoutesOf(D.nodes[n])[r] \in DOMAIN D.nodes
  <1> DEFINE node == D.nodes[n]
  <1>1. /\ node.type \in Graph!Types
        /\ \A i \in DOMAIN Graph!Routes(node) : Graph!Routes(node)[i].target \in DOMAIN D.nodes
    BY NodeAccepted DEF Graph!RoutesValid, Graph!Known, Graph!Node
  <1>2. node.type \in {"fan_out", "workflow", "read"} => Graph!Routes(node) = node.routes
    BY DEF Graph!Routes
  <1>3. CASE node.type = "fan_out"
    <2>1. RoutesOf(node) = [i \in DOMAIN node.routes |-> node.routes[i].target]
      BY <1>3 DEF RoutesOf
    <2>2. QED
      BY <1>1, <1>2, <1>3, <2>1
  <1>4. CASE node.type \in {"workflow", "read"}
    <2>1. Graph!OneDefault(node)
      <3>1. Graph!NodeValid(D, n)
        BY NodeAccepted
      <3>2. /\ node.type = "workflow" => Graph!CallValid(D, node)
            /\ node.type = "read" => Graph!ReadValid(node)
        BY <3>1 DEF Graph!NodeValid, Graph!Node
      <3>3. QED
        BY <1>4, <3>2 DEF Graph!CallValid, Graph!ReadValid
    <2>2. \A code : Graph!ActivityTarget(node, code) \in DOMAIN D.nodes
      BY <1>1, <1>2, <1>4, <2>1, Answered
    <2>3. \/ RoutesOf(node) = [a \in {0, 1} |-> Graph!ActivityTarget(node, a)]
          \/ RoutesOf(node) = [a \in Values |-> Graph!ActivityTarget(node, a)]
      BY <1>4 DEF RoutesOf
    <2>4. QED
      BY <2>2, <2>3
  <1>5. CASE node.type \in {"write", "fan_in"}
    <2>1. RoutesOf(node) = [next |-> node.next]
      BY <1>5 DEF RoutesOf
    <2>2. Graph!Known(D, node.next)
      <3>1. Graph!NodeValid(D, n)
        BY NodeAccepted
      <3>2. node.type = "write" => Graph!Known(D, node.next)
        BY <3>1 DEF Graph!NodeValid, Graph!Node
      <3>3. node.type = "fan_in" => Graph!FanInValid(D, n)
        BY <3>1 DEF Graph!NodeValid, Graph!Node
      <3>4. QED
        BY <1>5, <3>2, <3>3, Zenon DEF Graph!FanInValid, Graph!Node
    <2>3. QED
      BY <2>1, <2>2 DEF Graph!Known
  <1>6. CASE node.type \notin {"fan_out", "workflow", "read", "write", "fan_in"}
    <2> DEFINE routes == ToSet(Graph!Routes(node))
    <2>1. RoutesOf(node) = [id \in {r.id : r \in routes} |->
                              (CHOOSE r \in routes : r.id = id).target]
      BY <1>6 DEF RoutesOf
    <2>2. \A r \in routes : r.target \in DOMAIN D.nodes
      BY <1>1 DEF ToSet
    <2> HIDE DEF routes
    <2>3. QED
      BY <2>1, <2>2
  <1>7. QED
    BY <1>3, <1>4, <1>5, <1>6

(* A node the library accepts, as the engine reads it.                     *)
LEMMA NodeCompiled ==
  ASSUME NEW D, Stored(D), Graph!Valid(D), NEW flow, NEW n \in DOMAIN D.nodes,
         NEW E, E = Compiled(D, flow, n)
  PROVE  /\ E.flow = flow /\ E.limit \in Nat
         /\ {E.routes[r] : r \in DOMAIN E.routes} \cup ({E.bypass} \ {NoNode})
              \subseteq DOMAIN D.nodes
         /\ E.type = "wait" => {"elapsed", "timed_out"} \subseteq DOMAIN E.routes
         /\ E.type = "read" => Values \subseteq DOMAIN E.routes
         /\ E.type = "write" => D.nodes[n].type = "write" /\ E.arg = D.nodes[n].value
         /\ E.type \in {"write", "fan_in"} => "next" \in DOMAIN E.routes
         /\ E.type = "call" => /\ D.nodes[n].type = "workflow" /\ E.arg = D.nodes[n].child
                               /\ {0, 1} \subseteq DOMAIN E.routes
         /\ E.type = "fan_out" => /\ E.routes \in Seq(DOMAIN D.nodes) \ {<<>>}
                                  /\ E.arg \in DOMAIN D.nodes
                                  /\ D.nodes[E.arg].type = "fan_in"
         /\ E.type = "terminal" => E.arg \in Graph!TerminalStatus
  <1> DEFINE node == D.nodes[n]
             bypass == Graph!BypassTo(D, node)
  <1>1. /\ E.flow = flow /\ E.limit = node.limit /\ E.type = Role(node.type)
        /\ E.routes = RoutesOf(node) /\ E.arg = ArgumentOf(node)
        /\ E.bypass = IF bypass = "" THEN NoNode ELSE bypass
    BY DEF Compiled
  <1>2. /\ node.type \in Graph!Types /\ node.limit \in 0..100
        /\ Graph!NodeValid(D, n) /\ Graph!StageValid(D, node.stage)
    BY NodeAccepted
  <1>3. bypass \in DOMAIN D.nodes \cup {""}
    BY <1>2 DEF Graph!BypassTo, Graph!StageValid, Graph!Known
  <1>4. \A r \in DOMAIN E.routes : E.routes[r] \in DOMAIN D.nodes
    BY <1>1, RoutesLead
  <1>5. /\ E.type \in {"wait", "read", "write", "fan_out", "fan_in", "terminal"} =>
             node.type = E.type
        /\ E.type = "call" => node.type = "workflow"
    BY <1>1, <1>2 DEF Role, Graph!Types
  <1> HIDE DEF bypass
  <1>6. ASSUME E.type = "wait"
        PROVE  {"elapsed", "timed_out"} \subseteq DOMAIN E.routes
    <2>1. node.next \in DOMAIN D.nodes /\ node.timeout \in DOMAIN D.nodes
      BY <1>2, <1>5, <1>6 DEF Graph!NodeValid, Graph!Node, Graph!WaitValid
    <2>2. node.next # "" /\ node.timeout # "" /\ node.type = "wait"
      BY <1>5, <1>6, <2>1 DEF Stored
    <2>3. DOMAIN RoutesOf(node) = {r.id : r \in ToSet(Graph!Routes(node))}
      BY <2>2 DEF RoutesOf
    <2>4. QED
      BY <1>1, <2>2, <2>3, WaitRoutes
  <1>7. /\ E.type = "read" => Values \subseteq DOMAIN E.routes
        /\ E.type \in {"write", "fan_in"} => "next" \in DOMAIN E.routes
        /\ E.type = "call" => {0, 1} \subseteq DOMAIN E.routes
    <2>1. /\ node.type = "read" =>
               RoutesOf(node) = [a \in Values |-> Graph!ActivityTarget(node, a)]
          /\ node.type \in {"write", "fan_in"} => RoutesOf(node) = [next |-> node.next]
          /\ node.type = "workflow" =>
               RoutesOf(node) = [a \in {0, 1} |-> Graph!ActivityTarget(node, a)]
      BY DEF RoutesOf
    <2>2. E.type = "read" => DOMAIN E.routes = Values
      BY <1>1, <1>5, <2>1
    <2>3. ASSUME E.type \in {"write", "fan_in"}
          PROVE  DOMAIN E.routes = {"next"}
      <3>1. node.type \in {"write", "fan_in"}
        BY <1>5, <2>3
      <3>2. E.routes = [next |-> node.next]
        BY <1>1, <2>1, <3>1, Zenon
      <3> HIDE DEF node
      <3>3. QED
        BY <3>2
    <2>4. E.type = "call" => DOMAIN E.routes = {0, 1}
      BY <1>1, <1>5, <2>1
    <2>5. QED
      BY <2>2, <2>3, <2>4
  <1>8. /\ E.type = "write" => E.arg = node.value
        /\ E.type = "call" => E.arg = node.child
        /\ E.type = "fan_out" => E.arg = node.join
        /\ E.type = "terminal" => E.arg = node.status
    BY <1>1, <1>5 DEF ArgumentOf
  <1>9. ASSUME E.type = "fan_out"
        PROVE  /\ E.routes \in Seq(DOMAIN D.nodes) \ {<<>>}
               /\ node.join \in DOMAIN D.nodes /\ D.nodes[node.join].type = "fan_in"
    <2>1. node.type = "fan_out" /\ Graph!FanOutValid(D, node)
      BY <1>2, <1>5, <1>9 DEF Graph!NodeValid, Graph!Node
    <2>2. node.routes \in Seq(Ways)
      BY DEF Stored
    <2>3. Len(node.routes) >= 2
      <3>1. Graph!Len(node.routes) = Len(node.routes)
        OBVIOUS
      <3>2. QED
        BY <2>1, <3>1 DEF Graph!FanOutValid
    <2>4. E.routes = [i \in DOMAIN node.routes |-> node.routes[i].target]
      BY <1>1, <2>1 DEF RoutesOf
    <2>5. DOMAIN node.routes = 1..Len(node.routes) /\ Len(node.routes) \in Nat
      BY <2>2
    <2>6. E.routes \in [1..Len(node.routes) -> DOMAIN D.nodes]
      BY <1>4, <2>4, <2>5
    <2>7. E.routes \in Seq(DOMAIN D.nodes) /\ E.routes # <<>>
      <3>1. E.routes \in Seq(DOMAIN D.nodes) /\ DOMAIN E.routes = 1..Len(node.routes)
        BY <2>5, <2>6, SeqDef
      <3>2. QED
        BY <2>3, <2>5, <3>1
    <2>8. QED
      BY <2>1, <2>7 DEF Graph!FanOutValid, Graph!Known, Graph!Node
  <1>10. E.type = "terminal" => node.status \in Graph!TerminalStatus
    BY <1>2, <1>5 DEF Graph!NodeValid, Graph!Node, Graph!TerminalValid
  <1>11. E.limit \in Nat
    <2>1. node.limit \in 0..100
      BY <1>2
    <2> HIDE DEF node
    <2>2. node.limit \in Nat
      BY <2>1
    <2>3. QED
      BY <1>1, <2>2
  <1>12. {E.routes[r] : r \in DOMAIN E.routes} \cup ({E.bypass} \ {NoNode})
           \subseteq DOMAIN D.nodes
    BY <1>1, <1>3, <1>4
  <1> HIDE DEF node
  <1>13. QED
    BY <1>1, <1>5, <1>6, <1>7, <1>8, <1>9, <1>10, <1>11, <1>12 DEF node

(* Every set of workflows the library accepts, linked under the names the  *)
(* tracker gives their nodes, is one the engine can interpret: whatever it *)
(* reads of a node (routes, codes, joins, starts, terminals) is there and  *)
(* leads to a node of the same workflow.  The child workflows of calls     *)
(* exist (workflowIds), and the values written are among those considered. *)
THEOREM ValidIsInterpretable ==
  ASSUME NEW flows,
         \A w \in DOMAIN flows : Stored(flows[w]) /\ Graph!Valid(flows[w]),
         \A v, w \in DOMAIN flows :
           v # w => DOMAIN flows[v].nodes \cap DOMAIN flows[w].nodes = {},
         \A w \in DOMAIN flows : \A n \in DOMAIN flows[w].nodes :
           /\ flows[w].nodes[n].type = "workflow" =>
                flows[w].nodes[n].child \in DOMAIN flows
           /\ flows[w].nodes[n].type = "write" => flows[w].nodes[n].value \in Values
  PROVE  /\ NoNode \notin DOMAIN Linked(flows)
         /\ Interpretable(Linked(flows), [w \in DOMAIN flows |-> flows[w].start],
                          [w \in DOMAIN flows |-> flows[w].ceiling])
  <1> DEFINE def == Linked(flows)
             starts == [w \in DOMAIN flows |-> flows[w].start]
             ceilings == [w \in DOMAIN flows |-> flows[w].ceiling]
             Of(w) == DOMAIN flows[w].nodes
             nodes == UNION {Of(w) : w \in DOMAIN flows}
  <1>1. DOMAIN def = nodes
    BY DEF Linked
  <1>2. ASSUME NEW w \in DOMAIN flows, NEW n \in Of(w)
        PROVE  n \in DOMAIN def /\ def[n] = Compiled(flows[w], w, n)
    <2>1. n \in nodes
      OBVIOUS
    <2>2. (CHOOSE v \in DOMAIN flows : n \in DOMAIN flows[v].nodes) = w
      OBVIOUS
    <2>3. def[n] = LET v == CHOOSE v \in DOMAIN flows : n \in DOMAIN flows[v].nodes
                   IN  Compiled(flows[v], v, n)
      BY <2>1 DEF Linked
    <2>4. QED
      BY <1>1, <2>1, <2>2, <2>3, Zenon
  <1>3. \A n \in DOMAIN def : \E w \in DOMAIN flows : n \in Of(w)
    BY <1>1
  <1> HIDE DEF def
  <1> DEFINE ways(n) == DOMAIN def[n].routes
             near(n) == {m \in DOMAIN def : def[m].flow = def[n].flow}
  <1>4. \A w \in DOMAIN flows : \A m \in Of(w) : m \in DOMAIN def /\ def[m].flow = w
    <2>1. SUFFICES ASSUME NEW w \in DOMAIN flows, NEW m \in Of(w)
                   PROVE  m \in DOMAIN def /\ def[m].flow = w
      OBVIOUS
    <2>2. def[m] = Compiled(flows[w], w, m)
      BY <1>2
    <2>3. QED
      BY <1>2, <2>2, NodeCompiled
  <1>5. ASSUME NEW n \in DOMAIN def
        PROVE  /\ def[n].flow \in DOMAIN ceilings /\ def[n].limit \in Nat
               /\ {def[n].routes[r] : r \in ways(n)} \cup ({def[n].bypass} \ {NoNode})
                    \subseteq near(n)
               /\ def[n].type = "wait" => {"elapsed", "timed_out"} \subseteq ways(n)
               /\ def[n].type = "read" => Values \subseteq ways(n)
               /\ def[n].type = "write" => def[n].arg \in Values
               /\ def[n].type \in {"write", "fan_in"} => "next" \in ways(n)
               /\ def[n].type = "call" => /\ def[n].arg \in DOMAIN starts
                                          /\ {0, 1} \subseteq ways(n)
               /\ def[n].type = "fan_out" =>
                    /\ def[n].routes \in Seq(DOMAIN def) \ {<<>>}
                    /\ def[n].arg \in near(n) /\ def[def[n].arg].type = "fan_in"
               /\ def[n].type = "terminal" => def[n].arg \in Graph!TerminalStatus
    <2>1. PICK w \in DOMAIN flows : n \in Of(w)
      BY <1>3
    <2> DEFINE D == flows[w]
    <2>2. def[n] = Compiled(D, w, n)
      BY <1>2, <2>1
    <2>3. Stored(D) /\ Graph!Valid(D)
      OBVIOUS
    <2>4. /\ D.nodes[n].type = "workflow" => D.nodes[n].child \in DOMAIN flows
          /\ D.nodes[n].type = "write" => D.nodes[n].value \in Values
      BY <2>1
    <2>5. Of(w) \subseteq near(n)
      BY <1>4, <2>1
    <2> DEFINE E == def[n]
    <2>6. /\ E.flow = w /\ E.limit \in Nat
          /\ {E.routes[r] : r \in DOMAIN E.routes} \cup ({E.bypass} \ {NoNode}) \subseteq Of(w)
          /\ E.type = "wait" => {"elapsed", "timed_out"} \subseteq DOMAIN E.routes
          /\ E.type = "read" => Values \subseteq DOMAIN E.routes
          /\ E.type = "write" => D.nodes[n].type = "write" /\ E.arg = D.nodes[n].value
          /\ E.type \in {"write", "fan_in"} => "next" \in DOMAIN E.routes
          /\ E.type = "call" => /\ D.nodes[n].type = "workflow" /\ E.arg = D.nodes[n].child
                                /\ {0, 1} \subseteq DOMAIN E.routes
          /\ E.type = "fan_out" => /\ E.routes \in Seq(Of(w)) \ {<<>>}
                                   /\ E.arg \in Of(w)
                                   /\ D.nodes[E.arg].type = "fan_in"
          /\ E.type = "terminal" => E.arg \in Graph!TerminalStatus
      BY <2>1, <2>2, <2>3, NodeCompiled
    <2>7. ASSUME E.type = "fan_out"
          PROVE  /\ E.routes \in Seq(DOMAIN def) \ {<<>>}
                 /\ E.arg \in near(n) /\ def[E.arg].type = "fan_in"
      <3>1. E.routes \in Seq(Of(w)) \ {<<>>} /\ E.arg \in Of(w) /\ D.nodes[E.arg].type = "fan_in"
        BY <2>6, <2>7
      <3>2. Of(w) \subseteq DOMAIN def
        BY <1>4
      <3>3. E.routes \in Seq(DOMAIN def) \ {<<>>}
        <4> HIDE DEF E, Of
        <4>1. QED
          BY <3>1, <3>2
      <3>4. def[E.arg] = Compiled(D, w, E.arg)
        BY <1>2, <3>1
      <3>5. def[E.arg].type = Role("fan_in")
        <4>1. Compiled(D, w, E.arg).type = Role(D.nodes[E.arg].type)
          BY DEF Compiled
        <4> HIDE DEF D, E
        <4>2. QED
          BY <3>1, <3>4, <4>1, Zenon
      <3>6. QED
        BY <2>5, <3>1, <3>3, <3>5 DEF Role
    <2>8. w \in DOMAIN ceilings /\ DOMAIN starts = DOMAIN flows
      OBVIOUS
    <2>9. {E.routes[r] : r \in ways(n)} \cup ({E.bypass} \ {NoNode}) \subseteq near(n)
      BY <2>5, <2>6
    <2> HIDE DEF D, starts, ceilings, near
    <2>10. QED
      BY <2>4, <2>6, <2>7, <2>8, <2>9
  <1>6. \A w \in DOMAIN starts : starts[w] \in DOMAIN def /\ def[starts[w]].flow = w
    <2>1. \A w \in DOMAIN flows : flows[w].start \in Of(w)
      BY DEF Graph!Valid, Graph!Known
    <2>2. QED
      BY <1>4, <2>1
  <1>7. NoNode \notin DOMAIN def
    BY <1>3 DEF Stored
  <1> HIDE DEF starts, ceilings
  <1>8. Interpretable(def, starts, ceilings)
    BY <1>5, <1>6, Zenon DEF Interpretable
  <1>9. QED
    BY <1>7, <1>8 DEF def, starts, ceilings

-----------------------------------------------------------------------------
(***************************************************************************)
(* Renaming a node in the dashboard's editor.                              *)
(***************************************************************************)
Editor == INSTANCE WorkflowEditor

Written == [type : STRING, stage : STRING, routes : Seq(Ways), next : STRING,
            timeout : STRING, value : STRING, join : STRING, child : STRING,
            when : STRING, equals : STRING, otherwise : STRING, limit : Int,
            status : STRING, watch : [outcome : STRING, target : STRING]]

Drawn(D) ==
    /\ D \in [id : STRING, start : STRING, ceiling : Int, inputs : {D.inputs},
              stages : [DOMAIN D.stages -> [skippable : BOOLEAN, bypass : STRING]],
              nodes : [DOMAIN D.nodes -> Written]]
    /\ IsFiniteSet(DOMAIN D.nodes) /\ DOMAIN D.nodes \subseteq STRING \ {""}

(* The names a node, or a definition, mentions.                            *)
Mentions(node) == {node.next, node.timeout, node.join, node.otherwise, node.watch.target}
                    \cup {node.routes[i].target : i \in DOMAIN node.routes}

Named(D) == {"", D.start} \cup DOMAIN D.nodes
              \cup {D.stages[s].bypass : s \in DOMAIN D.stages}
              \cup UNION {Mentions(D.nodes[n]) : n \in DOMAIN D.nodes}

As(n, to, x) == IF x = n THEN to ELSE x

(* What a renaming does to the routes of a node, and to the node.          *)
Led(old, new, n, to) ==
    /\ DOMAIN new = DOMAIN old
    /\ \A i \in DOMAIN old :
         /\ new[i].id = old[i].id /\ new[i].codes = old[i].codes
         /\ new[i].default = old[i].default
         /\ new[i].target = As(n, to, old[i].target)

Retargeted(old, new, n, to) ==
    /\ new.type = old.type /\ new.stage = old.stage /\ new.value = old.value
    /\ new.child = old.child /\ new.when = old.when /\ new.equals = old.equals
    /\ new.limit = old.limit /\ new.status = old.status
    /\ new.next = As(n, to, old.next) /\ new.timeout = As(n, to, old.timeout)
    /\ new.join = As(n, to, old.join) /\ new.otherwise = As(n, to, old.otherwise)
    /\ new.watch.outcome = old.watch.outcome
    /\ new.watch.target = As(n, to, old.watch.target)
    /\ Led(old.routes, new.routes, n, to)

LEMMA Readdressed ==
  ASSUME NEW node \in Written, NEW n \in STRING, NEW to \in STRING,
         NEW new, new = Editor!Redirected(node, n, to)
  PROVE  new \in Written /\ Retargeted(node, new, n, to)
  <1> DEFINE routes == [i \in DOMAIN node.routes |->
                          [node.routes[i] EXCEPT !.target = As(n, to, node.routes[i].target)]]
             watch == [node.watch EXCEPT !.target = As(n, to, node.watch.target)]
  <1>1. new = [node EXCEPT !.routes = routes, !.watch = watch, !.next = As(n, to, node.next),
                 !.timeout = As(n, to, node.timeout), !.join = As(n, to, node.join),
                 !.otherwise = As(n, to, node.otherwise)]
    BY Zenon DEF Editor!Redirected, As
  <1>2. node.routes \in Seq(Ways) /\ node.watch \in [outcome : STRING, target : STRING]
    BY DEF Written
  <1>3. \A x \in STRING : As(n, to, x) \in STRING
    BY DEF As
  <1>4. \A i \in DOMAIN node.routes : node.routes[i] \in Ways
    BY <1>2, ElementOfSeq, LenProperties
  <1>5. \A i \in DOMAIN node.routes :
          /\ routes[i] \in Ways
          /\ routes[i].id = node.routes[i].id /\ routes[i].codes = node.routes[i].codes
          /\ routes[i].default = node.routes[i].default
          /\ routes[i].target = As(n, to, node.routes[i].target)
    BY <1>3, <1>4 DEF Ways
  <1>6. routes \in Seq(Ways) /\ DOMAIN routes = DOMAIN node.routes
    <2>1. DOMAIN node.routes = 1..Len(node.routes) /\ Len(node.routes) \in Nat
      BY <1>2, LenProperties
    <2>2. \A i \in 1..Len(node.routes) : routes[i] \in Ways
      BY <1>5, <2>1
    <2>3. routes = [i \in 1..Len(node.routes) |-> routes[i]]
      BY <2>1
    <2> HIDE DEF routes
    <2>4. routes \in [1..Len(node.routes) -> Ways]
      BY <2>2, <2>3
    <2>5. QED
      BY <2>1, <2>4, IsASeq
  <1>7. /\ watch \in [outcome : STRING, target : STRING]
        /\ watch.outcome = node.watch.outcome
        /\ watch.target = As(n, to, node.watch.target)
    BY <1>2, <1>3
  <1> HIDE DEF routes, watch
  <1>8. /\ new.routes = routes /\ new.watch = watch
        /\ new.next = As(n, to, node.next) /\ new.timeout = As(n, to, node.timeout)
        /\ new.join = As(n, to, node.join) /\ new.otherwise = As(n, to, node.otherwise)
    BY <1>1 DEF Written
  <1>9. /\ new.type = node.type /\ new.stage = node.stage /\ new.value = node.value
        /\ new.child = node.child /\ new.when = node.when /\ new.equals = node.equals
        /\ new.limit = node.limit /\ new.status = node.status
    BY <1>1 DEF Written
  <1>10. new \in Written
    <2> DEFINE next == As(n, to, node.next)
               timeout == As(n, to, node.timeout)
               join == As(n, to, node.join)
               otherwise == As(n, to, node.otherwise)
    <2>1. next \in STRING /\ timeout \in STRING /\ join \in STRING /\ otherwise \in STRING
      BY <1>3 DEF Written
    <2>2. new = [node EXCEPT !.routes = routes, !.watch = watch, !.next = next,
                   !.timeout = timeout, !.join = join, !.otherwise = otherwise]
      BY <1>1
    <2> HIDE DEF next, timeout, join, otherwise
    <2> DEFINE a == [node EXCEPT !.routes = routes]
               b == [a EXCEPT !.watch = watch]
               c == [b EXCEPT !.next = next]
               d == [c EXCEPT !.timeout = timeout]
               e == [d EXCEPT !.join = join]
               f == [e EXCEPT !.otherwise = otherwise]
    <2>3. a \in Written
      BY <1>6 DEF Written
    <2> HIDE DEF a
    <2>4. b \in Written
      BY <1>7, <2>3 DEF Written
    <2> HIDE DEF b
    <2>5. c \in Written
      BY <2>1, <2>4 DEF Written
    <2> HIDE DEF c
    <2>6. d \in Written
      BY <2>1, <2>5 DEF Written
    <2> HIDE DEF d
    <2>7. e \in Written
      BY <2>1, <2>6 DEF Written
    <2> HIDE DEF e
    <2>8. f \in Written
      BY <2>1, <2>7 DEF Written
    <2>9. new = f
      BY <2>2 DEF a, b, c, d, e
    <2>10. QED
      BY <2>8, <2>9
  <1>11. QED
    BY <1>5, <1>6, <1>7, <1>8, <1>9, <1>10 DEF Retargeted, Led

(* Lists of at most two.                                                   *)
LEMMA Short ==
  ASSUME NEW a, NEW b
  PROVE  /\ <<>> \o <<>> = <<>> /\ <<a>> \o <<>> = <<a>> /\ <<>> \o <<a>> = <<a>>
         /\ DOMAIN <<>> = {} /\ DOMAIN <<a>> = {1} /\ <<a>>[1] = a
         /\ DOMAIN (<<a>> \o <<b>>) = {1, 2}
         /\ (<<a>> \o <<b>>)[1] = a /\ (<<a>> \o <<b>>)[2] = b
  <1>1. <<a>> \in Seq({a, b}) /\ <<b>> \in Seq({a, b}) /\ <<>> \in Seq({a, b})
    OBVIOUS
  <1>2. <<>> \o <<>> = <<>> /\ <<a>> \o <<>> = <<a>> /\ <<>> \o <<a>> = <<a>>
    BY <1>1
  <1>3. DOMAIN <<>> = {}
    <2>1. Len(<<>>) = 0
      OBVIOUS
    <2>2. QED
      BY <1>1, <2>1, LenProperties
  <1>4. DOMAIN <<a>> = {1} /\ <<a>>[1] = a
    OBVIOUS
  <1>5. /\ DOMAIN (<<a>> \o <<b>>) = {1, 2}
        /\ (<<a>> \o <<b>>)[1] = a /\ (<<a>> \o <<b>>)[2] = b
    BY <1>1
  <1>6. QED
    BY <1>2, <1>3, <1>4, <1>5

(* The outcomes of a renamed node lead where they did.                     *)
LEMMA OutcomesLed ==
  ASSUME NEW old \in Written, NEW new, NEW n, NEW to, n # "", to # "",
         Retargeted(old, new, n, to)
  PROVE  Led(Graph!Routes(old), Graph!Routes(new), n, to)
  <1> DEFINE Out(id, x) == IF x = "" THEN <<>> ELSE <<Graph!Route(id, x)>>
             Both(x, y) == Out("elapsed", x) \o Out("timed_out", y)
             Towards(id, x) == Graph!Route(id, As(n, to, x))
  <1>1. \A x : (As(n, to, x) = "") <=> (x = "")
    BY DEF As
  <1>2. \A id, x : /\ Towards(id, x).id = Graph!Route(id, x).id
                   /\ Towards(id, x).codes = Graph!Route(id, x).codes
                   /\ Towards(id, x).default = Graph!Route(id, x).default
                   /\ Towards(id, x).target = As(n, to, Graph!Route(id, x).target)
    BY DEF Graph!Route
  <1>7. Led(<<>>, <<>>, n, to)
    BY Short DEF Led
  <1>3. \A id, x : Led(Out(id, x), Out(id, As(n, to, x)), n, to)
    <2>1. SUFFICES ASSUME NEW id, NEW x
                   PROVE  Led(Out(id, x), Out(id, As(n, to, x)), n, to)
      OBVIOUS
    <2>2. CASE x = ""
      <3>1. Out(id, x) = <<>> /\ Out(id, As(n, to, x)) = <<>>
        BY <1>1, <2>2
      <3> HIDE DEF Out
      <3>2. QED
        BY <1>7, <3>1
    <2>3. CASE x # ""
      <3> DEFINE a == Graph!Route(id, x)
                 b == Towards(id, x)
      <3>1. Out(id, x) = <<a>> /\ Out(id, As(n, to, x)) = <<b>>
        BY <1>1, <2>3
      <3>2. b.id = a.id /\ b.codes = a.codes /\ b.default = a.default
            /\ b.target = As(n, to, a.target)
        BY <1>2
      <3> HIDE DEF a, b
      <3> DEFINE one == <<a>>
                 led == <<b>>
      <3>3. /\ DOMAIN one = {1} /\ DOMAIN led = {1} /\ one[1] = a /\ led[1] = b
        BY Short
      <3> HIDE DEF one, led
      <3>4. Led(one, led, n, to)
        BY <3>2, <3>3 DEF Led
      <3>5. QED
        BY <3>1, <3>4 DEF one, led
    <2>4. QED
      BY <2>2, <2>3
  <1>4. \A x, y : Led(Both(x, y), Both(As(n, to, x), As(n, to, y)), n, to)
    <2>1. SUFFICES ASSUME NEW x, NEW y
                   PROVE  Led(Both(x, y), Both(As(n, to, x), As(n, to, y)), n, to)
      OBVIOUS
    <2>2. CASE x = ""
      <3>1. \A z : Out("timed_out", z) \in {<<>>, <<Graph!Route("timed_out", z)>>}
        OBVIOUS
      <3>2. \A z : <<>> \o Out("timed_out", z) = Out("timed_out", z)
        BY <3>1, Short
      <3>3. Out("elapsed", x) = <<>> /\ Out("elapsed", As(n, to, x)) = <<>>
        BY <1>1, <2>2
      <3> HIDE DEF Out
      <3>4. QED
        BY <1>3, <3>2, <3>3
    <2>3. CASE y = ""
      <3>1. \A z : Out("elapsed", z) \in {<<>>, <<Graph!Route("elapsed", z)>>}
        OBVIOUS
      <3>2. \A z : Out("elapsed", z) \o <<>> = Out("elapsed", z)
        BY <3>1, Short
      <3>3. Out("timed_out", y) = <<>> /\ Out("timed_out", As(n, to, y)) = <<>>
        BY <1>1, <2>3
      <3> HIDE DEF Out
      <3>4. QED
        BY <1>3, <3>2, <3>3
    <2>4. CASE x # "" /\ y # ""
      <3> DEFINE a == Graph!Route("elapsed", x)
                 b == Graph!Route("timed_out", y)
                 c == Towards("elapsed", x)
                 d == Towards("timed_out", y)
      <3>1. /\ Out("elapsed", x) = <<a>> /\ Out("timed_out", y) = <<b>>
            /\ Out("elapsed", As(n, to, x)) = <<c>> /\ Out("timed_out", As(n, to, y)) = <<d>>
        BY <1>1, <2>4
      <3>2. /\ c.id = a.id /\ c.codes = a.codes /\ c.default = a.default
            /\ c.target = As(n, to, a.target)
            /\ d.id = b.id /\ d.codes = b.codes /\ d.default = b.default
            /\ d.target = As(n, to, b.target)
        BY <1>2
      <3> HIDE DEF a, b, c, d, Out
      <3> DEFINE two == <<a>> \o <<b>>
                 led == <<c>> \o <<d>>
      <3>3. Both(x, y) = two /\ Both(As(n, to, x), As(n, to, y)) = led
        BY <3>1
      <3>4. /\ DOMAIN two = {1, 2} /\ two[1] = a /\ two[2] = b
            /\ DOMAIN led = {1, 2} /\ led[1] = c /\ led[2] = d
        BY Short, Zenon
      <3> HIDE DEF two, led, Both
      <3>5. Led(two, led, n, to)
        BY <3>2, <3>4 DEF Led
      <3>6. QED
        BY <3>3, <3>5
    <2>5. QED
      BY <2>2, <2>3, <2>4
  <1>5. \A node : Graph!Routes(node)
                    = IF node.type = "wait" THEN Both(node.next, node.timeout)
                      ELSE IF node.type \in {"write", "fan_in"} THEN Out("completed", node.next)
                      ELSE IF node.type = "terminal" THEN <<>> ELSE node.routes
    BY DEF Graph!Routes
  <1>6. /\ new.type = old.type /\ Led(old.routes, new.routes, n, to)
        /\ new.next = As(n, to, old.next) /\ new.timeout = As(n, to, old.timeout)
    BY DEF Retargeted
  <1> HIDE DEF Both, Out
  <1>8. QED
    BY <1>3, <1>4, <1>5, <1>6, <1>7

(* E is D with its node n called to.                                       *)
Renamed(D, E, n, to) ==
    /\ E.id = D.id /\ E.ceiling = D.ceiling /\ E.inputs = D.inputs
    /\ E.start = As(n, to, D.start)
    /\ DOMAIN E.stages = DOMAIN D.stages
    /\ \A s \in DOMAIN D.stages :
         /\ E.stages[s].skippable = D.stages[s].skippable
         /\ E.stages[s].bypass = As(n, to, D.stages[s].bypass)
    /\ DOMAIN E.nodes = {As(n, to, m) : m \in DOMAIN D.nodes}
    /\ \A m \in DOMAIN D.nodes : Retargeted(D.nodes[m], E.nodes[As(n, to, m)], n, to)

(* The new name is none of the old.                                        *)
LEMMA Apart ==
  ASSUME NEW D, Drawn(D), NEW n \in DOMAIN D.nodes, NEW to \in STRING \ Named(D)
  PROVE  /\ n \in STRING /\ n # "" /\ to # "" /\ to # n /\ to \notin DOMAIN D.nodes
  <1>1. n \in STRING /\ n # ""
    BY DEF Drawn
  <1>2. "" \in Named(D) /\ DOMAIN D.nodes \subseteq Named(D)
    BY DEF Named
  <1>3. to # "" /\ to \notin DOMAIN D.nodes /\ to # n
    BY <1>2
  <1>4. QED
    BY <1>1, <1>3

(* What a definition mentions is among its names.                          *)
LEMMA Mentioned ==
  ASSUME NEW D
  PROVE  /\ D.start \in Named(D) /\ "" \in Named(D) /\ DOMAIN D.nodes \subseteq Named(D)
         /\ \A s \in DOMAIN D.stages : D.stages[s].bypass \in Named(D)
         /\ \A m \in DOMAIN D.nodes :
              /\ {D.nodes[m].next, D.nodes[m].timeout, D.nodes[m].join,
                  D.nodes[m].otherwise, D.nodes[m].watch.target} \subseteq Named(D)
              /\ \A i \in DOMAIN D.nodes[m].routes : D.nodes[m].routes[i].target \in Named(D)
  <1>1. \A m \in DOMAIN D.nodes : Mentions(D.nodes[m]) \subseteq Named(D)
    BY DEF Named
  <1>2. /\ D.start \in Named(D) /\ "" \in Named(D) /\ DOMAIN D.nodes \subseteq Named(D)
        /\ \A s \in DOMAIN D.stages : D.stages[s].bypass \in Named(D)
    BY DEF Named
  <1>3. QED
    BY <1>1, <1>2 DEF Mentions

LEMMA RenameRenames ==
  ASSUME NEW D, Drawn(D), NEW n \in DOMAIN D.nodes, NEW to \in STRING \ Named(D),
         NEW E, E = Editor!RenameNode(D, n, to)
  PROVE  Drawn(E) /\ Renamed(D, E, n, to)
  <1> DEFINE ids == {As(n, to, m) : m \in DOMAIN D.nodes}
             nodes == [m \in (DOMAIN D.nodes \ {n}) \cup {to} |->
                         Editor!Redirected(D.nodes[IF m = to THEN n ELSE m], n, to)]
             stages == Editor!BypassRedirected(D, n, to)
             start == As(n, to, D.start)
  <1>1. E = [D EXCEPT !.nodes = nodes, !.stages = stages, !.start = start]
    BY Zenon DEF Editor!RenameNode, As
  <1>2. /\ D \in [id : STRING, start : STRING, ceiling : Int, inputs : {D.inputs},
                  stages : [DOMAIN D.stages -> [skippable : BOOLEAN, bypass : STRING]],
                  nodes : [DOMAIN D.nodes -> Written]]
        /\ IsFiniteSet(DOMAIN D.nodes) /\ DOMAIN D.nodes \subseteq STRING \ {""}
        /\ n \in STRING /\ n # "" /\ to # "" /\ to # n /\ to \notin DOMAIN D.nodes
    BY Apart DEF Drawn
  <1>3. (DOMAIN D.nodes \ {n}) \cup {to} = ids
    <2>1. As(n, to, n) = to /\ \A m \in DOMAIN D.nodes \ {n} : As(n, to, m) = m
      BY DEF As
    <2>2. \A m \in DOMAIN D.nodes : As(n, to, m) \in (DOMAIN D.nodes \ {n}) \cup {to}
      BY <2>1
    <2>3. QED
      BY <2>1, <2>2
  <1>4. ASSUME NEW m \in DOMAIN D.nodes
        PROVE  /\ nodes[As(n, to, m)] \in Written
               /\ Retargeted(D.nodes[m], nodes[As(n, to, m)], n, to)
    <2>1. As(n, to, m) \in (DOMAIN D.nodes \ {n}) \cup {to}
      BY <1>3
    <2>2. (IF As(n, to, m) = to THEN n ELSE As(n, to, m)) = m
      BY <1>2 DEF As
    <2>3. nodes[As(n, to, m)] = Editor!Redirected(D.nodes[m], n, to)
      BY <2>1, <2>2
    <2>4. D.nodes[m] \in Written
      BY <1>2
    <2> HIDE DEF nodes
    <2>5. QED
      BY <1>2, <2>3, <2>4, Readdressed
  <1>5. nodes \in [ids -> Written]
    <2>1. DOMAIN nodes = ids /\ nodes = [m \in ids |-> nodes[m]]
      BY <1>3
    <2> HIDE DEF nodes
    <2>2. \A m \in ids : nodes[m] \in Written
      BY <1>4
    <2>3. QED
      BY <2>1, <2>2
  <1>6. /\ stages \in [DOMAIN D.stages -> [skippable : BOOLEAN, bypass : STRING]]
        /\ \A s \in DOMAIN D.stages : /\ stages[s].skippable = D.stages[s].skippable
                                      /\ stages[s].bypass = As(n, to, D.stages[s].bypass)
    <2>1. stages = [s \in DOMAIN D.stages |->
                      [D.stages[s] EXCEPT !.bypass = As(n, to, D.stages[s].bypass)]]
      BY Zenon DEF Editor!BypassRedirected, As
    <2>2. \A x \in STRING : As(n, to, x) \in STRING
      BY DEF As
    <2>3. \A s \in DOMAIN D.stages : D.stages[s] \in [skippable : BOOLEAN, bypass : STRING]
      BY <1>2
    <2> HIDE DEF stages
    <2>4. QED
      BY <2>1, <2>2, <2>3
  <1>7. start \in STRING
    BY <1>2 DEF As
  <1>8. IsFiniteSet(ids) /\ ids \subseteq STRING \ {""}
    <2>1. ids \subseteq DOMAIN D.nodes \cup {to}
      BY <1>3
    <2>2. IsFiniteSet(DOMAIN D.nodes \cup {to})
      BY <1>2, FS_AddElement
    <2>3. QED
      BY <1>2, <2>1, <2>2, FS_Subset
  <1> HIDE DEF nodes, stages, start, ids
  <1>9. /\ E.id = D.id /\ E.ceiling = D.ceiling /\ E.inputs = D.inputs
        /\ E.start = start /\ E.stages = stages /\ E.nodes = nodes
        /\ E \in [id : STRING, start : STRING, ceiling : Int, inputs : {D.inputs},
                  stages : [DOMAIN D.stages -> [skippable : BOOLEAN, bypass : STRING]],
                  nodes : [ids -> Written]]
    <2>1. D \in [id : STRING, start : STRING, ceiling : Int, inputs : {D.inputs},
                 stages : [DOMAIN D.stages -> [skippable : BOOLEAN, bypass : STRING]],
                 nodes : [DOMAIN D.nodes -> Written]]
      BY <1>2
    <2>2. QED
      BY <1>1, <1>5, <1>6, <1>7, <2>1
  <1>10. DOMAIN E.nodes = ids /\ DOMAIN E.stages = DOMAIN D.stages
    BY <1>5, <1>6, <1>9
  <1>11. Drawn(E)
    BY <1>8, <1>9, <1>10 DEF Drawn
  <1>12. Renamed(D, E, n, to)
    BY <1>4, <1>6, <1>9, <1>10 DEF Renamed, start, ids
  <1>13. QED
    BY <1>11, <1>12

(* What a node leads to by itself, beside the bypass of its stage.         *)
Ends(node) == {r.target : r \in Graph!ToSet(Graph!Routes(node))}
Own(node) == Ends(node) \cup {node.otherwise, node.watch.target}

LEMMA OwnTargets ==
  ASSUME NEW D, NEW node
  PROVE  Graph!WorkflowTargets(D, node) = (Own(node) \cup {Graph!BypassTo(D, node)}) \ {""}
  BY DEF Own, Ends, Graph!WorkflowTargets

LEMMA OwnLed ==
  ASSUME NEW old, NEW new, NEW n, NEW to, Retargeted(old, new, n, to),
         Led(Graph!Routes(old), Graph!Routes(new), n, to)
  PROVE  Own(new) = {As(n, to, x) : x \in Own(old)}
  <1> DEFINE one == Graph!Routes(old)
             two == Graph!Routes(new)
  <1>1. DOMAIN two = DOMAIN one /\ \A i \in DOMAIN one : two[i].target = As(n, to, one[i].target)
    BY DEF Led
  <1>2. /\ Ends(old) = {one[i].target : i \in DOMAIN one}
        /\ Ends(new) = {two[i].target : i \in DOMAIN two}
    BY DEF Ends, Graph!ToSet
  <1> HIDE DEF one, two
  <1>3. Ends(new) = {As(n, to, x) : x \in Ends(old)}
    BY <1>1, <1>2
  <1>4. /\ new.otherwise = As(n, to, old.otherwise)
        /\ new.watch.target = As(n, to, old.watch.target)
    BY DEF Retargeted
  <1>5. QED
    BY <1>3, <1>4 DEF Own

(* The targets of a renamed definition are the old ones, renamed.          *)
LEMMA TargetsLed ==
  ASSUME NEW D, Drawn(D), NEW n \in DOMAIN D.nodes, NEW to \in STRING \ Named(D),
         NEW E, Renamed(D, E, n, to), NEW m \in DOMAIN D.nodes
  PROVE  Graph!WorkflowTargets(E, E.nodes[As(n, to, m)])
           = {As(n, to, x) : x \in Graph!WorkflowTargets(D, D.nodes[m])}
  <1> DEFINE old == D.nodes[m]
             new == E.nodes[As(n, to, m)]
             before == Own(old) \cup {Graph!BypassTo(D, old)}
             after == Own(new) \cup {Graph!BypassTo(E, new)}
  <1>1. \A x : As(n, to, x) = "" <=> x = ""
    BY Apart DEF As
  <1>2. Retargeted(old, new, n, to) /\ old \in Written
    BY DEF Renamed, Drawn
  <1>3. Graph!BypassTo(E, new) = As(n, to, Graph!BypassTo(D, old))
    <2>1. /\ new.stage = old.stage /\ DOMAIN E.stages = DOMAIN D.stages
          /\ \A s \in DOMAIN D.stages :
               /\ E.stages[s].skippable = D.stages[s].skippable
               /\ E.stages[s].bypass = As(n, to, D.stages[s].bypass)
      BY <1>2 DEF Retargeted, Renamed
    <2> HIDE DEF old, new
    <2>2. QED
      BY <1>1, <2>1 DEF Graph!BypassTo
  <1> HIDE DEF old, new
  <1>4. Own(new) = {As(n, to, x) : x \in Own(old)}
    <2>1. n # "" /\ to # ""
      BY Apart
    <2>2. Led(Graph!Routes(old), Graph!Routes(new), n, to)
      BY <1>2, <2>1, OutcomesLed
    <2>3. QED
      BY <1>2, <2>2, OwnLed
  <1>5. after = {As(n, to, x) : x \in before}
    BY <1>3, <1>4
  <1>6. /\ Graph!WorkflowTargets(D, old) = before \ {""}
        /\ Graph!WorkflowTargets(E, new) = after \ {""}
    BY OwnTargets
  <1> HIDE DEF before, after
  <1>7. after \ {""} = {As(n, to, x) : x \in before \ {""}}
    BY <1>1, <1>5
  <1>8. QED
    BY <1>6, <1>7 DEF old, new

(* What the searches found before a renaming, they find after it.          *)
LEMMA ConnectedStill ==
  ASSUME NEW D, Drawn(D), Graph!Valid(D),
         NEW n \in DOMAIN D.nodes, NEW to \in STRING \ Named(D),
         NEW E, Drawn(E), Renamed(D, E, n, to)
  PROVE  /\ DOMAIN E.nodes \subseteq Graph!Reachable(Graph!Successors(E), E.start)
         /\ \A m \in DOMAIN D.nodes : D.nodes[m].type = "fan_out" =>
              \A i \in DOMAIN D.nodes[m].routes :
                Graph!ReachesJoin(Graph!Successors(E), As(n, to, D.nodes[m].join),
                                  As(n, to, D.nodes[m].routes[i].target))
  <1> DEFINE succ == Graph!Successors(E)
             Back(C) == {m \in DOMAIN D.nodes : As(n, to, m) \in C}
  <1>1. DOMAIN E.nodes = {As(n, to, m) : m \in DOMAIN D.nodes} /\ E.start = As(n, to, D.start)
    BY DEF Renamed
  <1>2. /\ DOMAIN succ = DOMAIN E.nodes
        /\ \A m \in DOMAIN D.nodes :
             succ[As(n, to, m)] = {As(n, to, x) : x \in Graph!WorkflowTargets(D, D.nodes[m])}
    <2>1. DOMAIN succ = DOMAIN E.nodes
          /\ \A e \in DOMAIN E.nodes : succ[e] = Graph!WorkflowTargets(E, E.nodes[e])
      BY DEF Graph!Successors, Graph!Node
    <2> HIDE DEF succ
    <2>2. ASSUME NEW m \in DOMAIN D.nodes
          PROVE  succ[As(n, to, m)] = {As(n, to, x) : x \in Graph!WorkflowTargets(D, D.nodes[m])}
      <3>1. As(n, to, m) \in DOMAIN E.nodes
        BY <1>1
      <3>2. succ[As(n, to, m)] = Graph!WorkflowTargets(E, E.nodes[As(n, to, m)])
        BY <2>1, <3>1
      <3>3. QED
        BY <3>2, TargetsLed
    <2>3. QED
      BY <2>1, <2>2
  <1>3. \A m \in DOMAIN D.nodes : Graph!WorkflowTargets(D, D.nodes[m]) \subseteq DOMAIN D.nodes
    BY TargetsKnown
  <1> HIDE DEF succ
  <1>4. IsFiniteSet(DOMAIN succ) /\ \A e \in DOMAIN succ : IsFiniteSet(succ[e])
    <2>1. IsFiniteSet(DOMAIN succ)
      BY <1>2 DEF Drawn
    <2>2. \A e \in DOMAIN succ : succ[e] \subseteq DOMAIN succ
      BY <1>1, <1>2, <1>3
    <2>3. QED
      BY <2>1, <2>2, FS_Subset
  <1>5. ASSUME NEW start
        PROVE  /\ start \in Graph!Reachable(succ, start)
               /\ Closed(succ, Graph!Reachable(succ, start))
               /\ \A join : Graph!ReachesJoin(succ, join, start)
                              <=> join \in Graph!Reachable(succ, start)
    BY <1>4, SearchesAreExact
  <1>6. ASSUME NEW C, Closed(succ, C)
        PROVE  ClosedIn(D, Back(C))
    <2>1. SUFFICES ASSUME NEW m \in DOMAIN D.nodes, As(n, to, m) \in C,
                          NEW x \in Graph!WorkflowTargets(D, D.nodes[m])
                   PROVE  x \in DOMAIN D.nodes /\ As(n, to, x) \in C
      BY DEF ClosedIn
    <2>2. As(n, to, m) \in C \cap DOMAIN succ /\ As(n, to, x) \in succ[As(n, to, m)]
      BY <1>1, <1>2, <2>1
    <2>3. QED
      BY <1>3, <1>6, <2>2 DEF Closed
  <1>7. IsFiniteSet(DOMAIN D.nodes)
    BY DEF Drawn
  <1>8. /\ \A C : D.start \in C /\ ClosedIn(D, C) => DOMAIN D.nodes \subseteq C
        /\ \A m \in DOMAIN D.nodes : D.nodes[m].type = "fan_out" =>
             \A i \in DOMAIN D.nodes[m].routes :
               \A C : D.nodes[m].routes[i].target \in C /\ ClosedIn(D, C)
                        => D.nodes[m].join \in C
    BY <1>7, ValidIsConnected
  <1>9. DOMAIN E.nodes \subseteq Graph!Reachable(succ, E.start)
    <2> DEFINE C == Graph!Reachable(succ, E.start)
    <2>1. E.start \in C /\ ClosedIn(D, Back(C))
      BY <1>5, <1>6
    <2>2. D.start \in DOMAIN D.nodes
      BY DEF Graph!Valid, Graph!Known
    <2> HIDE DEF C
    <2>3. D.start \in Back(C)
      BY <1>1, <2>1, <2>2
    <2>4. DOMAIN D.nodes \subseteq Back(C)
      BY <1>8, <2>1, <2>3
    <2>5. QED
      BY <1>1, <2>4 DEF C
  <1>10. ASSUME NEW m \in DOMAIN D.nodes, D.nodes[m].type = "fan_out",
                NEW i \in DOMAIN D.nodes[m].routes
         PROVE  Graph!ReachesJoin(succ, As(n, to, D.nodes[m].join),
                                  As(n, to, D.nodes[m].routes[i].target))
    <2> DEFINE target == D.nodes[m].routes[i].target
               C == Graph!Reachable(succ, As(n, to, target))
    <2>1. As(n, to, target) \in C /\ ClosedIn(D, Back(C))
      BY <1>5, <1>6
    <2>2. target \in DOMAIN D.nodes
      <3>1. Graph!RoutesValid(D, m)
        BY NodeAccepted
      <3>2. Graph!Routes(D.nodes[m]) = D.nodes[m].routes
        BY <1>10 DEF Graph!Routes
      <3>3. QED
        BY <3>1, <3>2 DEF Graph!RoutesValid, Graph!Known, Graph!Node
    <2>3. target \in Back(C)
      BY <2>1, <2>2
    <2>4. D.nodes[m].join \in Back(C)
      <3> HIDE DEF C
      <3>1. QED
        BY <1>8, <1>10, <2>1, <2>3
    <2>5. As(n, to, D.nodes[m].join) \in C
      BY <2>4
    <2>6. QED
      BY <1>5, <2>5
  <1>11. QED
    BY <1>9, <1>10 DEF succ

(* What validateWorkflow asks of a node's routes holds of the renamed ones.*)
LEMMA RoutesKept ==
  ASSUME NEW old \in Written, NEW new \in Written, NEW n, NEW to, Retargeted(old, new, n, to)
  PROVE  /\ Graph!OneDefault(new) <=> Graph!OneDefault(old)
         /\ Graph!DefaultIsBare(new) <=> Graph!DefaultIsBare(old)
         /\ Graph!CodesDistinct(new) <=> Graph!CodesDistinct(old)
         /\ Graph!HasSuccessRoute(new) <=> Graph!HasSuccessRoute(old)
         /\ UNION {r.codes : r \in Graph!ToSet(new.routes)}
              = UNION {r.codes : r \in Graph!ToSet(old.routes)}
         /\ \A id : (\E r \in Graph!ToSet(new.routes) : r.id = id)
                      <=> (\E r \in Graph!ToSet(old.routes) : r.id = id)
         /\ new.routes = <<>> <=> old.routes = <<>>
         /\ Graph!Len(new.routes) = Graph!Len(old.routes)
  <1> DEFINE a == old.routes
             b == new.routes
  <1>1. /\ DOMAIN b = DOMAIN a
        /\ \A i \in DOMAIN a : /\ b[i].id = a[i].id /\ b[i].codes = a[i].codes
                               /\ b[i].default = a[i].default
    BY DEF Retargeted, Led
  <1>2. a \in Seq(Ways) /\ b \in Seq(Ways)
    BY DEF Written
  <1> HIDE DEF a, b
  <1>3. \A s : Graph!ToSet(s) = {s[i] : i \in DOMAIN s}
    BY DEF Graph!ToSet
  <1>4. Graph!OneDefault(new) <=> Graph!OneDefault(old)
    <2>1. {i \in DOMAIN b : b[i].default} = {i \in DOMAIN a : a[i].default}
      BY <1>1
    <2>2. QED
      BY <2>1, Zenon DEF Graph!OneDefault, a, b
  <1>5. Graph!DefaultIsBare(new) <=> Graph!DefaultIsBare(old)
    BY <1>1, <1>3 DEF Graph!DefaultIsBare, a, b
  <1>6. Graph!CodesDistinct(new) <=> Graph!CodesDistinct(old)
    BY <1>1 DEF Graph!CodesDistinct, a, b
  <1>7. Graph!HasSuccessRoute(new) <=> Graph!HasSuccessRoute(old)
    BY <1>1, <1>3 DEF Graph!HasSuccessRoute, a, b
  <1>8. /\ UNION {r.codes : r \in Graph!ToSet(b)} = UNION {r.codes : r \in Graph!ToSet(a)}
        /\ \A id : (\E r \in Graph!ToSet(b) : r.id = id) <=> (\E r \in Graph!ToSet(a) : r.id = id)
    BY <1>1, <1>3
  <1>9. Len(b) = Len(a) /\ (b = <<>> <=> a = <<>>)
    <2>1. /\ Len(a) \in Nat /\ DOMAIN a = 1..Len(a) /\ Len(b) \in Nat /\ DOMAIN b = 1..Len(b)
      BY <1>2, LenProperties
    <2>2. Len(b) = Len(a)
      BY <1>1, <2>1
    <2>3. QED
      BY <1>2, <2>2, EmptySeq
  <1>10. Graph!Len(b) = Graph!Len(a)
    <2>1. Graph!Len(b) = Len(b) /\ Graph!Len(a) = Len(a)
      OBVIOUS
    <2>2. QED
      BY <1>9, <2>1
  <1>11. QED
    BY <1>4, <1>5, <1>6, <1>7, <1>8, <1>9, <1>10 DEF a, b

(* Renaming tells apart what was told apart.                               *)
LEMMA RenamedApart ==
  ASSUME NEW D, Drawn(D), NEW n \in DOMAIN D.nodes, NEW to \in STRING \ Named(D),
         NEW E, Renamed(D, E, n, to)
  PROVE  /\ \A x, y \in Named(D) : As(n, to, x) = As(n, to, y) <=> x = y
         /\ \A x : As(n, to, x) = "" <=> x = ""
         /\ \A x \in Named(D) : As(n, to, x) \in DOMAIN E.nodes <=> x \in DOMAIN D.nodes
  <1>1. \A x \in Named(D), y \in Named(D) : As(n, to, x) = As(n, to, y) <=> x = y
    BY DEF As
  <1>2. \A x : As(n, to, x) = "" <=> x = ""
    BY Apart DEF As
  <1>3. DOMAIN E.nodes = {As(n, to, z) : z \in DOMAIN D.nodes}
    BY DEF Renamed
  <1>4. \A x \in Named(D) : As(n, to, x) \in DOMAIN E.nodes <=> x \in DOMAIN D.nodes
    <2>1. SUFFICES ASSUME NEW x \in Named(D)
                   PROVE  As(n, to, x) \in DOMAIN E.nodes <=> x \in DOMAIN D.nodes
      OBVIOUS
    <2>2. x \in DOMAIN D.nodes => As(n, to, x) \in DOMAIN E.nodes
      BY <1>3
    <2>3. ASSUME As(n, to, x) \in DOMAIN E.nodes
          PROVE  x \in DOMAIN D.nodes
      <3>1. PICK z \in DOMAIN D.nodes : As(n, to, x) = As(n, to, z)
        BY <1>3, <2>3
      <3>2. z \in Named(D)
        BY Mentioned
      <3>3. QED
        BY <1>1, <3>1, <3>2
    <2>4. QED
      BY <2>2, <2>3
  <1>5. QED
    BY <1>1, <1>2, <1>4

(* A node accepted before a renaming is accepted after it.                 *)
LEMMA NodeStillValid ==
  ASSUME NEW D, Drawn(D), Graph!Valid(D),
         NEW n \in DOMAIN D.nodes, NEW to \in STRING \ Named(D),
         NEW E, Drawn(E), Renamed(D, E, n, to), NEW m \in DOMAIN D.nodes
  PROVE  Graph!NodeValid(E, As(n, to, m))
  <1> DEFINE Name(x) == As(n, to, x)
             old == D.nodes[m]
             at == Name(m)
             new == E.nodes[at]
  <1>1. /\ Retargeted(old, new, n, to) /\ old \in Written /\ new \in Written /\ at \in DOMAIN E.nodes
        /\ n # "" /\ to # ""
    <2>1. at \in DOMAIN E.nodes /\ Retargeted(old, new, n, to)
      BY DEF Renamed
    <2>2. old \in Written
      BY DEF Drawn
    <2>3. new \in Written
      <3> HIDE DEF at
      <3>1. QED
        BY <2>1 DEF Drawn
    <2>4. QED
      BY <2>1, <2>2, <2>3, Apart
  <1>2. /\ DOMAIN E.stages = DOMAIN D.stages /\ E.inputs = D.inputs /\ E.id = D.id
        /\ DOMAIN E.nodes = {Name(x) : x \in DOMAIN D.nodes}
    BY DEF Renamed
  <1>3. /\ \A x, y \in Named(D) : Name(x) = Name(y) <=> x = y
        /\ \A x : Name(x) = "" <=> x = ""
        /\ \A x \in Named(D) : Name(x) \in DOMAIN E.nodes <=> x \in DOMAIN D.nodes
    BY RenamedApart
  <1>4. \A x \in DOMAIN D.nodes : /\ E.nodes[Name(x)].type = D.nodes[x].type
                                  /\ E.nodes[Name(x)].join = Name(D.nodes[x].join)
    BY DEF Renamed, Retargeted
  <1>5. /\ {old.next, old.timeout, old.join, old.otherwise, old.watch.target} \subseteq Named(D)
        /\ m \in Named(D) /\ \A x \in DOMAIN D.nodes : D.nodes[x].join \in Named(D)
    BY Mentioned
  <1>6. Graph!NodeValid(D, m) /\ Graph!RoutesValid(D, m) /\ Graph!ConditionValid(D, m)
    BY NodeAccepted
  <1>7. /\ new.type = old.type /\ new.stage = old.stage /\ new.value = old.value
        /\ new.child = old.child /\ new.when = old.when /\ new.equals = old.equals
        /\ new.limit = old.limit /\ new.status = old.status
        /\ new.next = Name(old.next) /\ new.timeout = Name(old.timeout)
        /\ new.join = Name(old.join) /\ new.otherwise = Name(old.otherwise)
        /\ new.watch.outcome = old.watch.outcome
        /\ new.watch.target = Name(old.watch.target)
    BY <1>1 DEF Retargeted
  <1>8. /\ Graph!OneDefault(new) <=> Graph!OneDefault(old)
        /\ Graph!DefaultIsBare(new) <=> Graph!DefaultIsBare(old)
        /\ Graph!CodesDistinct(new) <=> Graph!CodesDistinct(old)
        /\ Graph!HasSuccessRoute(new) <=> Graph!HasSuccessRoute(old)
        /\ UNION {r.codes : r \in Graph!ToSet(new.routes)}
             = UNION {r.codes : r \in Graph!ToSet(old.routes)}
        /\ \A id : (\E r \in Graph!ToSet(new.routes) : r.id = id)
                     <=> (\E r \in Graph!ToSet(old.routes) : r.id = id)
        /\ new.routes = <<>> <=> old.routes = <<>>
        /\ Graph!Len(new.routes) = Graph!Len(old.routes)
    <2> HIDE DEF old, new
    <2>1. QED
      BY <1>1, RoutesKept
  <1>9. /\ DOMAIN new.routes = DOMAIN old.routes
        /\ \A i \in DOMAIN old.routes : new.routes[i].target = Name(old.routes[i].target)
    BY <1>1 DEF Retargeted, Led
  <1>10. Graph!ConditionValid(E, at)
    <2>1. /\ old.when # "" => /\ old.when \in DOMAIN D.inputs
                              /\ old.otherwise \notin {"", m}
                              /\ old.equals \in D.inputs[old.when]
          /\ old.otherwise # "" => old.otherwise \in DOMAIN D.nodes
      BY <1>6 DEF Graph!ConditionValid, Graph!Known, Graph!Node
    <2>2. /\ new.when # "" => /\ new.when \in DOMAIN E.inputs
                              /\ new.otherwise \notin {"", at}
                              /\ new.equals \in E.inputs[new.when]
          /\ new.otherwise # "" => new.otherwise \in DOMAIN E.nodes
      <3>1. new.when = old.when /\ new.equals = old.equals /\ new.otherwise = Name(old.otherwise)
        BY <1>7
      <3>2. /\ Name(old.otherwise) = "" <=> old.otherwise = ""
            /\ Name(old.otherwise) = at <=> old.otherwise = m
            /\ Name(old.otherwise) \in DOMAIN E.nodes <=> old.otherwise \in DOMAIN D.nodes
        BY <1>3, <1>5
      <3> HIDE DEF old, new, Name, at
      <3>3. QED
        BY <1>2, <2>1, <3>1, <3>2
    <2>3. QED
      BY <2>2 DEF Graph!ConditionValid, Graph!Known, Graph!Node
  <1>11. Graph!RoutesValid(E, at)
    <2> DEFINE a == Graph!Routes(old)
               b == Graph!Routes(new)
    <2>1. Led(a, b, n, to)
      <3> HIDE DEF old, new
      <3>1. QED
        BY <1>1, OutcomesLed
    <2>2. /\ \A i, j \in DOMAIN a : a[i].id = a[j].id => i = j
          /\ \A i \in DOMAIN a : a[i].target \in DOMAIN D.nodes
      BY <1>6 DEF Graph!RoutesValid, Graph!Known, Graph!Node
    <2>3. /\ \A i, j \in DOMAIN b : b[i].id = b[j].id => i = j
          /\ \A i \in DOMAIN b : b[i].target \in DOMAIN E.nodes
      <3> HIDE DEF a, b
      <3>1. QED
        BY <1>2, <2>1, <2>2 DEF Led
    <2>4. QED
      BY <2>3 DEF Graph!RoutesValid, Graph!Known, Graph!Node
  <1>12. (new.watch = Graph!Blank("", "").watch) <=> (old.watch = Graph!Blank("", "").watch)
    <2>1. /\ Graph!Blank("", "").watch = [outcome |-> "", target |-> ""]
          /\ old.watch \in [outcome : STRING, target : STRING]
          /\ new.watch \in [outcome : STRING, target : STRING]
      BY <1>1 DEF Graph!Blank, Written
    <2>2. \A w \in [outcome : STRING, target : STRING] :
            w = [outcome |-> "", target |-> ""] <=> w.outcome = "" /\ w.target = ""
      <3>1. \A w \in [outcome : STRING, target : STRING] :
              w = [outcome |-> w.outcome, target |-> w.target]
        OBVIOUS
      <3>2. /\ [outcome |-> "", target |-> ""].outcome = ""
            /\ [outcome |-> "", target |-> ""].target = ""
        OBVIOUS
      <3>3. QED
        BY <3>1, <3>2, Zenon
    <2>3. new.watch.outcome = old.watch.outcome /\ (new.watch.target = "" <=> old.watch.target = "")
      BY <1>3, <1>7
    <2> HIDE DEF old, new, Name
    <2>4. QED
      BY <2>1, <2>2, <2>3, Zenon
  <1>13. /\ old.type \in Graph!Types /\ old.stage \in DOMAIN D.stages /\ old.limit \in 0..100
         /\ old.type \notin {"human_gate", "terminal"} => old.watch = Graph!Blank("", "").watch
         /\ old.type = "agent" => old.routes # <<>>
         /\ old.type = "script" => Graph!ScriptValid(old)
         /\ old.type \in {"checkpoint", "restore_checkpoint"} => Graph!CheckpointValid(old)
         /\ old.type = "wait" => Graph!WaitValid(D, m)
         /\ old.type = "read" => Graph!ReadValid(old)
         /\ old.type = "write" => Graph!Known(D, old.next) /\ old.value # ""
         /\ old.type = "workflow" => Graph!CallValid(D, old)
         /\ old.type = "fan_out" => Graph!FanOutValid(D, old)
         /\ old.type = "fan_in" => Graph!FanInValid(D, m)
         /\ old.type = "human_gate" => Graph!GateValid(old)
         /\ old.type = "terminal" => Graph!TerminalValid(D, old)
    BY <1>6 DEF Graph!NodeValid, Graph!Node
  <1>14. /\ old.type = "script" => Graph!ScriptValid(new)
         /\ old.type \in {"checkpoint", "restore_checkpoint"} => Graph!CheckpointValid(new)
         /\ old.type = "read" => Graph!ReadValid(new)
    BY <1>8, <1>13, Zenon DEF Graph!ScriptValid, Graph!CheckpointValid, Graph!ReadValid
  <1>15. old.type = "wait" => Graph!WaitValid(E, at)
    <2>1. SUFFICES ASSUME old.type = "wait"
                   PROVE  Graph!WaitValid(E, at)
      OBVIOUS
    <2>2. /\ {old.next, old.timeout} \subseteq DOMAIN D.nodes /\ m \notin {old.next, old.timeout}
      BY <1>13, <2>1 DEF Graph!WaitValid, Graph!Node
    <2>3. /\ Name(old.next) \in DOMAIN E.nodes /\ Name(old.timeout) \in DOMAIN E.nodes
          /\ Name(old.next) # at /\ Name(old.timeout) # at
      BY <1>3, <1>5, <2>2
    <2>4. {new.next, new.timeout} \subseteq DOMAIN E.nodes /\ at \notin {new.next, new.timeout}
      BY <1>7, <2>3
    <2>5. QED
      BY <2>4 DEF Graph!WaitValid, Graph!Node
  <1>16. old.type = "write" => Graph!Known(E, new.next) /\ new.value # ""
    BY <1>3, <1>5, <1>7, <1>13 DEF Graph!Known
  <1>17. old.type = "workflow" => Graph!CallValid(E, new)
    <2> HIDE DEF old, new, Name
    <2>1. QED
      BY <1>2, <1>7, <1>8, <1>13, Zenon DEF Graph!CallValid
  <1>18. old.type = "fan_out" => Graph!FanOutValid(E, new)
    <2>1. SUFFICES ASSUME old.type = "fan_out"
                   PROVE  Graph!FanOutValid(E, new)
      OBVIOUS
    <2>2. /\ Graph!Len(old.routes) >= 2 /\ old.join \in DOMAIN D.nodes
          /\ D.nodes[old.join].type = "fan_in"
      BY <1>13, <2>1 DEF Graph!FanOutValid, Graph!Known, Graph!Node
    <2>3. /\ Graph!Len(new.routes) >= 2 /\ new.join \in DOMAIN E.nodes
          /\ E.nodes[new.join].type = "fan_in"
      <3>1. new.join = Name(old.join) /\ Name(old.join) \in DOMAIN E.nodes
        BY <1>2, <1>7, <2>2
      <3>2. E.nodes[Name(old.join)].type = "fan_in"
        BY <1>4, <2>2
      <3>3. Graph!Len(new.routes) >= 2
        <4> HIDE DEF old, new
        <4>1. QED
          BY <1>8, <2>2
      <3>4. QED
        BY <3>1, <3>2, <3>3
    <2>4. \A r \in Graph!ToSet(new.routes) :
            Graph!ReachesJoin(Graph!Successors(E), new.join, r.target)
      <3>1. SUFFICES ASSUME NEW i \in DOMAIN old.routes
                     PROVE  Graph!ReachesJoin(Graph!Successors(E), new.join, new.routes[i].target)
        BY <1>9 DEF Graph!ToSet
      <3>2. Graph!ReachesJoin(Graph!Successors(E), Name(old.join), Name(old.routes[i].target))
        BY <2>1, ConnectedStill
      <3>3. QED
        BY <1>7, <1>9, <3>2
    <2>5. QED
      BY <2>3, <2>4 DEF Graph!FanOutValid, Graph!Known, Graph!Node
  <1>19. old.type = "fan_in" => Graph!FanInValid(E, at)
    <2>1. SUFFICES ASSUME old.type = "fan_in"
                   PROVE  Graph!FanInValid(E, at)
      OBVIOUS
    <2>2. PICK x \in DOMAIN D.nodes : D.nodes[x].type = "fan_out" /\ D.nodes[x].join = m
      BY <1>13, <2>1 DEF Graph!FanInValid, Graph!Node
    <2>3. old.next \in DOMAIN D.nodes
      BY <1>13, <2>1 DEF Graph!FanInValid, Graph!Node, Graph!Known
    <2>4. /\ Name(x) \in DOMAIN E.nodes /\ E.nodes[Name(x)].type = "fan_out"
          /\ E.nodes[Name(x)].join = at
      BY <1>2, <1>4, <2>2
    <2>5. new.next \in DOMAIN E.nodes
      BY <1>2, <1>7, <2>3
    <2>6. QED
      BY <2>4, <2>5 DEF Graph!FanInValid, Graph!Node, Graph!Known
  <1>20. old.type = "human_gate" => Graph!GateValid(new)
    <2> HIDE DEF old, new, Name
    <2>1. QED
      BY <1>3, <1>7, <1>8, <1>13 DEF Graph!GateValid
  <1>21. old.type = "terminal" => Graph!TerminalValid(E, new)
    <2>1. \A x \in DOMAIN D.nodes : Graph!Onward(D, x) => Graph!Onward(E, Name(x))
      BY <1>2, <1>4 DEF Graph!Onward, Graph!Known, Graph!Node
    <2>2. \A x : Graph!Onward(D, x) => x \in DOMAIN D.nodes
      BY DEF Graph!Onward, Graph!Known
    <2>3. /\ new.status = old.status /\ new.watch.outcome = old.watch.outcome
          /\ new.otherwise = "" <=> old.otherwise = ""
          /\ new.watch.target = "" <=> old.watch.target = ""
          /\ new.watch.target = Name(old.watch.target)
          /\ new.routes = <<>> <=> old.routes = <<>>
      BY <1>3, <1>7, <1>8
    <2>4. Graph!Onward(D, old.watch.target) => Graph!Onward(E, new.watch.target)
      BY <2>1, <2>2, <2>3
    <2> HIDE DEF old, new, Name
    <2>5. QED
      BY <1>13, <2>3, <2>4, Zenon DEF Graph!TerminalValid
  <1> HIDE DEF old, new, Name, at
  <1>22. QED
    <2>1. Graph!Node(E, at) = new
      BY DEF Graph!Node, new
    <2>2. /\ new.type \in Graph!Types /\ new.stage \in DOMAIN E.stages /\ new.limit \in 0..100
          /\ new.type \notin {"human_gate", "terminal"} => new.watch = Graph!Blank("", "").watch
          /\ new.type = "agent" => new.routes # <<>>
      BY <1>2, <1>7, <1>8, <1>12, <1>13
    <2>3. /\ new.type = "script" => Graph!ScriptValid(new)
          /\ new.type \in {"checkpoint", "restore_checkpoint"} => Graph!CheckpointValid(new)
          /\ new.type = "wait" => Graph!WaitValid(E, at)
          /\ new.type = "read" => Graph!ReadValid(new)
          /\ new.type = "write" => Graph!Known(E, new.next) /\ new.value # ""
          /\ new.type = "workflow" => Graph!CallValid(E, new)
          /\ new.type = "fan_out" => Graph!FanOutValid(E, new)
          /\ new.type = "fan_in" => Graph!FanInValid(E, at)
          /\ new.type = "human_gate" => Graph!GateValid(new)
          /\ new.type = "terminal" => Graph!TerminalValid(E, new)
      BY <1>7, <1>14, <1>15, <1>16, <1>17, <1>18, <1>19, <1>20, <1>21
    <2>4. Graph!NodeValid(E, at)
      <3>1. CASE new.type \in {"agent", "script", "checkpoint", "restore_checkpoint", "wait"}
        BY <1>10, <1>11, <2>1, <2>2, <2>3, <3>1 DEF Graph!NodeValid
      <3>2. CASE new.type \in {"read", "write", "workflow", "fan_out"}
        BY <1>10, <1>11, <2>1, <2>2, <2>3, <3>2 DEF Graph!NodeValid
      <3>3. CASE new.type \in {"fan_in", "human_gate", "terminal"}
        BY <1>10, <1>11, <2>1, <2>2, <2>3, <3>3 DEF Graph!NodeValid
      <3>4. QED
        BY <2>2, <3>1, <3>2, <3>3 DEF Graph!Types
    <2>5. QED
      BY <2>4 DEF at, Name

(* Renamed and renamed back, a node is what it was.                        *)
LEMMA NodeRestored ==
  ASSUME NEW a \in Written, NEW b, NEW c \in Written, NEW n, NEW to, to \notin Mentions(a),
         Retargeted(a, b, n, to), Retargeted(b, c, to, n)
  PROVE  c = a
  <1> DEFINE Twice(x) == As(to, n, As(n, to, x))
  <1>1. \A x : x # to => Twice(x) = x
    BY DEF As
  <1>2. /\ {a.next, a.timeout, a.join, a.otherwise, a.watch.target} \subseteq Mentions(a)
        /\ \A i \in DOMAIN a.routes : a.routes[i].target # to
    BY DEF Mentions
  <1>3. /\ c.type = a.type /\ c.stage = a.stage /\ c.value = a.value /\ c.child = a.child
        /\ c.when = a.when /\ c.equals = a.equals /\ c.limit = a.limit /\ c.status = a.status
        /\ c.next = Twice(a.next) /\ c.timeout = Twice(a.timeout) /\ c.join = Twice(a.join)
        /\ c.otherwise = Twice(a.otherwise)
        /\ c.watch.outcome = a.watch.outcome /\ c.watch.target = Twice(a.watch.target)
    BY DEF Retargeted
  <1>4. /\ DOMAIN c.routes = DOMAIN a.routes
        /\ \A i \in DOMAIN a.routes : /\ c.routes[i].id = a.routes[i].id
                                      /\ c.routes[i].codes = a.routes[i].codes
                                      /\ c.routes[i].default = a.routes[i].default
                                      /\ c.routes[i].target = Twice(a.routes[i].target)
    BY DEF Retargeted, Led
  <1> HIDE DEF Twice
  <1>5. c.routes = a.routes
    <2>1. a.routes \in Seq(Ways) /\ c.routes \in Seq(Ways)
      BY DEF Written
    <2>2. \A i \in DOMAIN a.routes : a.routes[i] \in Ways /\ c.routes[i] \in Ways
      BY <1>4, <2>1, ElementOfSeq, LenProperties
    <2>3. \A v, w \in Ways : v.id = w.id /\ v.codes = w.codes /\ v.default = w.default
                               /\ v.target = w.target => v = w
      <3>1. \A v \in Ways : v = [id |-> v.id, target |-> v.target, codes |-> v.codes,
                                 default |-> v.default]
        BY DEF Ways
      <3>2. QED
        BY <3>1, Zenon
    <2>4. \A i \in DOMAIN a.routes : c.routes[i] = a.routes[i]
      BY <1>1, <1>2, <1>4, <2>2, <2>3
    <2>5. Len(c.routes) = Len(a.routes)
      BY <1>4, <2>1, LenProperties
    <2>6. QED
      BY <1>4, <2>1, <2>4, <2>5, SeqEqual, LenProperties
  <1>6. c.watch = a.watch
    <2>1. /\ a.watch \in [outcome : STRING, target : STRING]
          /\ c.watch \in [outcome : STRING, target : STRING]
      BY DEF Written
    <2>2. \A w \in [outcome : STRING, target : STRING] :
            w = [outcome |-> w.outcome, target |-> w.target]
      OBVIOUS
    <2>3. c.watch.target = a.watch.target
      BY <1>1, <1>2, <1>3
    <2>4. QED
      BY <1>3, <2>1, <2>2, <2>3
  <1>7. \A w \in Written :
          w = [type |-> w.type, stage |-> w.stage, routes |-> w.routes, next |-> w.next,
               timeout |-> w.timeout, value |-> w.value, join |-> w.join, child |-> w.child,
               when |-> w.when, equals |-> w.equals, otherwise |-> w.otherwise,
               limit |-> w.limit, status |-> w.status, watch |-> w.watch]
    BY DEF Written
  <1>8. /\ c.next = a.next /\ c.timeout = a.timeout /\ c.join = a.join
        /\ c.otherwise = a.otherwise
    BY <1>1, <1>2, <1>3
  <1>9. QED
    BY <1>3, <1>5, <1>6, <1>7, <1>8

(* Renaming back is a renaming to an unused name, and restores.            *)
LEMMA RenamedBack ==
  ASSUME NEW D, Drawn(D), NEW n \in DOMAIN D.nodes, NEW to \in STRING \ Named(D),
         NEW E, Drawn(E), Renamed(D, E, n, to)
  PROVE  /\ to \in DOMAIN E.nodes /\ n \in STRING \ Named(E)
         /\ Editor!RenameNode(E, to, n) = D
  <1>1. n \in STRING /\ n # "" /\ to # "" /\ to # n /\ to \notin DOMAIN D.nodes
    BY Apart
  <1>2. /\ DOMAIN E.nodes = {As(n, to, m) : m \in DOMAIN D.nodes}
        /\ DOMAIN E.stages = DOMAIN D.stages
        /\ \A s \in DOMAIN D.stages :
             /\ E.stages[s].skippable = D.stages[s].skippable
             /\ E.stages[s].bypass = As(n, to, D.stages[s].bypass)
        /\ \A m \in DOMAIN D.nodes : Retargeted(D.nodes[m], E.nodes[As(n, to, m)], n, to)
        /\ E.id = D.id /\ E.ceiling = D.ceiling /\ E.inputs = D.inputs
        /\ E.start = As(n, to, D.start)
    BY DEF Renamed
  <1>3. As(n, to, n) = to /\ \A x : As(n, to, x) # n
    BY <1>1 DEF As
  <1>4. to \in DOMAIN E.nodes
    BY <1>2, <1>3
  <1>5. n \notin Named(E)
    <2>1. /\ n \notin DOMAIN E.nodes /\ n # E.start
          /\ n \notin {E.stages[s].bypass : s \in DOMAIN E.stages}
      BY <1>2, <1>3
    <2>2. ASSUME NEW m \in DOMAIN D.nodes
          PROVE  n \notin Mentions(E.nodes[As(n, to, m)])
      <3> DEFINE old == D.nodes[m]
                 new == E.nodes[As(n, to, m)]
      <3>1. Retargeted(old, new, n, to)
        BY <1>2
      <3> HIDE DEF old, new
      <3>2. /\ new.next # n /\ new.timeout # n /\ new.join # n /\ new.otherwise # n
            /\ new.watch.target # n
        BY <1>3, <3>1 DEF Retargeted
      <3>3. \A i \in DOMAIN new.routes : new.routes[i].target # n
        BY <1>3, <3>1 DEF Retargeted, Led
      <3>4. n \notin Mentions(new)
        BY <3>2, <3>3 DEF Mentions
      <3>5. QED
        BY <3>4 DEF new
    <2>3. \A e \in DOMAIN E.nodes : n \notin Mentions(E.nodes[e])
      BY <1>2, <2>2
    <2>4. QED
      BY <1>1, <2>1, <2>3 DEF Named
  <1> DEFINE F == Editor!RenameNode(E, to, n)
  <1>6. Drawn(F) /\ Renamed(E, F, to, n)
    BY <1>1, <1>4, <1>5, RenameRenames
  <1> HIDE DEF F
  <1>7. /\ DOMAIN F.nodes = {As(to, n, e) : e \in DOMAIN E.nodes}
        /\ DOMAIN F.stages = DOMAIN E.stages
        /\ \A s \in DOMAIN E.stages :
             /\ F.stages[s].skippable = E.stages[s].skippable
             /\ F.stages[s].bypass = As(to, n, E.stages[s].bypass)
        /\ \A e \in DOMAIN E.nodes : Retargeted(E.nodes[e], F.nodes[As(to, n, e)], to, n)
        /\ F.id = E.id /\ F.ceiling = E.ceiling /\ F.inputs = E.inputs
        /\ F.start = As(to, n, E.start)
    BY <1>6 DEF Renamed
  <1>8. \A x : x # to => As(to, n, As(n, to, x)) = x
    BY DEF As
  <1>9. DOMAIN F.nodes = DOMAIN D.nodes
    <2>1. \A m \in DOMAIN D.nodes : As(to, n, As(n, to, m)) = m
      BY <1>1, <1>8
    <2>2. QED
      BY <1>2, <1>7, <2>1
  <1>10. /\ D.start # to /\ \A s \in DOMAIN D.stages : D.stages[s].bypass # to
         /\ \A m \in DOMAIN D.nodes : to \notin Mentions(D.nodes[m])
    BY DEF Named
  <1>11. ASSUME NEW m \in DOMAIN D.nodes
         PROVE  F.nodes[m] = D.nodes[m]
    <2>1. As(n, to, m) \in DOMAIN E.nodes /\ As(to, n, As(n, to, m)) = m
      BY <1>1, <1>2, <1>8
    <2>2. /\ Retargeted(D.nodes[m], E.nodes[As(n, to, m)], n, to)
          /\ Retargeted(E.nodes[As(n, to, m)], F.nodes[m], to, n)
      BY <1>2, <1>7, <2>1
    <2>3. D.nodes[m] \in Written /\ F.nodes[m] \in Written
      BY <1>6, <1>9 DEF Drawn
    <2>4. QED
      BY <1>10, <2>2, <2>3, NodeRestored
  <1>12. /\ D \in [id : STRING, start : STRING, ceiling : Int, inputs : {D.inputs},
                   stages : [DOMAIN D.stages -> [skippable : BOOLEAN, bypass : STRING]],
                   nodes : [DOMAIN D.nodes -> Written]]
         /\ F \in [id : STRING, start : STRING, ceiling : Int, inputs : {F.inputs},
                   stages : [DOMAIN F.stages -> [skippable : BOOLEAN, bypass : STRING]],
                   nodes : [DOMAIN F.nodes -> Written]]
    BY <1>6 DEF Drawn
  <1>13. F.nodes = D.nodes
    BY <1>9, <1>11, <1>12
  <1>14. F.stages = D.stages
    <2>1. /\ D.stages \in [DOMAIN D.stages -> [skippable : BOOLEAN, bypass : STRING]]
          /\ F.stages \in [DOMAIN D.stages -> [skippable : BOOLEAN, bypass : STRING]]
      BY <1>2, <1>7, <1>12
    <2>2. \A w \in [skippable : BOOLEAN, bypass : STRING] :
            w = [skippable |-> w.skippable, bypass |-> w.bypass]
      OBVIOUS
    <2>3. \A s \in DOMAIN D.stages : /\ F.stages[s].skippable = D.stages[s].skippable
                                     /\ F.stages[s].bypass = D.stages[s].bypass
      BY <1>2, <1>7, <1>8, <1>10
    <2>4. \A s \in DOMAIN D.stages : F.stages[s] = D.stages[s]
      BY <2>1, <2>2, <2>3
    <2>5. QED
      BY <2>1, <2>4
  <1>15. /\ F.id = D.id /\ F.start = D.start /\ F.ceiling = D.ceiling /\ F.inputs = D.inputs
    BY <1>2, <1>7, <1>8, <1>10
  <1>16. F = D
    <2>1. /\ D = [id |-> D.id, start |-> D.start, ceiling |-> D.ceiling, inputs |-> D.inputs,
                  stages |-> D.stages, nodes |-> D.nodes]
          /\ F = [id |-> F.id, start |-> F.start, ceiling |-> F.ceiling, inputs |-> F.inputs,
                  stages |-> F.stages, nodes |-> F.nodes]
      BY <1>12
    <2>2. QED
      BY <1>13, <1>14, <1>15, <2>1
  <1>17. QED
    BY <1>1, <1>4, <1>5, <1>16 DEF F

(* A definition accepted before a renaming is accepted after it.           *)
LEMMA ValidStill ==
  ASSUME NEW D, Drawn(D), Graph!Valid(D),
         NEW n \in DOMAIN D.nodes, NEW to \in STRING \ Named(D)
  PROVE  Graph!Valid(Editor!RenameNode(D, n, to))
  <1> DEFINE E == Editor!RenameNode(D, n, to)
  <1>1. Drawn(E) /\ Renamed(D, E, n, to)
    BY RenameRenames
  <1> HIDE DEF E
  <1>2. /\ DOMAIN E.nodes = {As(n, to, m) : m \in DOMAIN D.nodes} /\ E.ceiling = D.ceiling
        /\ E.start = As(n, to, D.start) /\ DOMAIN E.stages = DOMAIN D.stages
        /\ \A s \in DOMAIN D.stages :
             /\ E.stages[s].skippable = D.stages[s].skippable
             /\ E.stages[s].bypass = As(n, to, D.stages[s].bypass)
    BY <1>1 DEF Renamed
  <1>3. E.ceiling \in 1..1000 /\ Graph!Known(E, E.start)
    BY <1>2 DEF Graph!Valid, Graph!Known
  <1>4. ASSUME NEW s \in DOMAIN E.stages
        PROVE  Graph!StageValid(E, s)
    <2>1. Graph!StageValid(D, s)
      BY <1>2 DEF Graph!Valid
    <2> DEFINE by == D.stages[s].bypass
    <2>2. /\ ~D.stages[s].skippable => by = ""
          /\ D.stages[s].skippable => by \in DOMAIN D.nodes /\ D.nodes[by].stage # s
      BY <2>1 DEF Graph!StageValid, Graph!Known, Graph!Node
    <2>3. E.stages[s].skippable = D.stages[s].skippable /\ E.stages[s].bypass = As(n, to, by)
      BY <1>2
    <2>4. (As(n, to, by) = "") <=> by = ""
      BY Apart DEF As
    <2>5. by \in DOMAIN D.nodes => /\ As(n, to, by) \in DOMAIN E.nodes
                                   /\ E.nodes[As(n, to, by)].stage = D.nodes[by].stage
      BY <1>1, <1>2 DEF Renamed, Retargeted
    <2> HIDE DEF by
    <2>6. QED
      BY <2>2, <2>3, <2>4, <2>5 DEF Graph!StageValid, Graph!Known, Graph!Node
  <1>5. ASSUME NEW e \in DOMAIN E.nodes
        PROVE  Graph!NodeValid(E, e)
    <2>1. PICK m \in DOMAIN D.nodes : e = As(n, to, m)
      BY <1>2
    <2>2. Graph!NodeValid(E, As(n, to, m))
      BY <1>1, NodeStillValid
    <2>3. QED
      BY <2>1, <2>2
  <1>6. DOMAIN E.nodes \subseteq Graph!Reachable(Graph!Successors(E), E.start)
    BY <1>1, ConnectedStill
  <1>7. Graph!Valid(E)
    BY <1>3, <1>4, <1>5, <1>6 DEF Graph!Valid
  <1>8. QED
    BY <1>7 DEF E

(* Renaming a node in the editor (renameNode, replaceNodeTargets) to a     *)
(* name the definition does not use follows every mention of it: whatever  *)
(* the graph, the library accepts it exactly when it accepted it before,   *)
(* and renaming the node back gives the very definition there was.         *)
THEOREM RenamingKeepsValidity ==
  ASSUME NEW D, Drawn(D), NEW n \in DOMAIN D.nodes, NEW to \in STRING \ Named(D)
  PROVE  /\ Graph!Valid(Editor!RenameNode(D, n, to)) <=> Graph!Valid(D)
         /\ Editor!RenameNode(Editor!RenameNode(D, n, to), to, n) = D
  <1> DEFINE E == Editor!RenameNode(D, n, to)
  <1>1. Drawn(E) /\ Renamed(D, E, n, to)
    BY RenameRenames
  <1> HIDE DEF E
  <1>2. to \in DOMAIN E.nodes /\ n \in STRING \ Named(E) /\ Editor!RenameNode(E, to, n) = D
    BY <1>1, RenamedBack
  <1>3. Graph!Valid(D) => Graph!Valid(E)
    BY ValidStill DEF E
  <1>4. Graph!Valid(E) => Graph!Valid(D)
    BY <1>1, <1>2, ValidStill
  <1>5. QED
    BY <1>2, <1>3, <1>4 DEF E

(* The editor finds what the library finds.                                *)
LEMMA SameSearch ==
  ASSUME NEW succ, NEW start
  PROVE  Editor!Reachable(succ, start) = Graph!Reachable(succ, start)
  BY Zenon DEF Editor!Reachable, Graph!Reachable, Editor!Ids, Graph!Ids, Editor!Below,
     Graph!Below, Editor!SetToSeq, Graph!SetToSeq, Editor!Cardinality, Graph!Cardinality,
     Editor!IsInjective, Graph!IsInjective

LEMMA SameChecks ==
  ASSUME NEW D, NEW node
  PROVE  /\ Editor!OneDefault(node) <=> Graph!OneDefault(node)
         /\ Editor!HasSuccessRoute(node) <=> Graph!HasSuccessRoute(node)
         /\ Editor!Routes(node) = Graph!Routes(node)
         /\ Editor!BypassTo(D, node) = Graph!BypassTo(D, node)
         /\ Editor!Blank("", "").watch = Graph!Blank("", "").watch
         /\ Editor!Len(node.routes) = Graph!Len(node.routes)
         /\ \A s : Editor!ToSet(s) = Graph!ToSet(s)
         /\ \A n : Editor!Onward(D, n) <=> Graph!Onward(D, n)
  <1>1. Editor!OneDefault(node) <=> Graph!OneDefault(node)
    BY Zenon DEF Editor!OneDefault, Graph!OneDefault, Editor!Cardinality, Graph!Cardinality
  <1>2. Editor!Routes(node) = Graph!Routes(node)
    BY Zenon DEF Editor!Routes, Graph!Routes, Editor!Route, Graph!Route
  <1>3. Editor!BypassTo(D, node) = Graph!BypassTo(D, node)
    BY Zenon DEF Editor!BypassTo, Graph!BypassTo
  <1>4. Editor!Blank("", "").watch = Graph!Blank("", "").watch
    BY Zenon DEF Editor!Blank, Graph!Blank
  <1>5. \A n : Editor!Onward(D, n) <=> Graph!Onward(D, n)
    BY Zenon DEF Editor!Onward, Graph!Onward, Editor!Known, Graph!Known, Editor!Node, Graph!Node
  <1>6. \A s : Editor!ToSet(s) = Graph!ToSet(s)
    BY Zenon DEF Editor!ToSet, Graph!ToSet
  <1>7. Editor!HasSuccessRoute(node) <=> Graph!HasSuccessRoute(node)
    BY <1>6, Zenon DEF Editor!HasSuccessRoute, Graph!HasSuccessRoute, Editor!ToSet, Graph!ToSet
  <1>8. Editor!Len(node.routes) = Graph!Len(node.routes)
    OBVIOUS
  <1>9. QED
    BY <1>1, <1>2, <1>3, <1>4, <1>5, <1>6, <1>7, <1>8

(* What the editor knows of an accepted node.                              *)
LEMMA EditorRoutesKnown ==
  ASSUME NEW D, Drawn(D), Graph!Valid(D), NEW n \in DOMAIN D.nodes
  PROVE  /\ Editor!EditorRoutes(D.nodes[n]) = Graph!Routes(D.nodes[n])
         /\ Editor!EditorTargets(D, D.nodes[n]) = Graph!WorkflowTargets(D, D.nodes[n])
  <1> DEFINE node == D.nodes[n]
  <1>1. node.type = "wait" => node.next # "" /\ node.timeout # ""
    <2>1. node.type = "wait" => Graph!WaitValid(D, n)
      BY NodeAccepted DEF Graph!NodeValid, Graph!Node
    <2>2. "" \notin DOMAIN D.nodes
      BY DEF Drawn
    <2>3. QED
      BY <2>1, <2>2 DEF Graph!WaitValid, Graph!Node
  <1> HIDE DEF node
  <1>2. Editor!EditorRoutes(node) = Graph!Routes(node)
    BY <1>1, SameChecks DEF Editor!EditorRoutes
  <1>3. /\ \A s : Editor!ToSet(s) = Graph!ToSet(s)
        /\ Editor!BypassTo(D, node) = Graph!BypassTo(D, node)
    BY SameChecks
  <1>4. Editor!EditorTargets(D, node) = Graph!WorkflowTargets(D, node)
    BY <1>2, <1>3, Zenon DEF Editor!EditorTargets, Graph!WorkflowTargets
  <1>5. QED
    BY <1>2, <1>4 DEF node

LEMMA NodeLetThrough ==
  ASSUME NEW D, Drawn(D), Graph!Valid(D), NEW n \in DOMAIN D.nodes
  PROVE  Editor!NodeClean(D, n)
  <1> DEFINE node == D.nodes[n]
             blank == Graph!Blank("", "").watch
             routes == Graph!Routes(node)
  <1>1. /\ node.stage \in DOMAIN D.stages /\ node.limit \in 0..100
        /\ Graph!NodeValid(D, n) /\ Graph!RoutesValid(D, n) /\ Graph!ConditionValid(D, n)
    BY NodeAccepted
  <1>2. /\ node.type \in Graph!Types
        /\ node.type \notin {"human_gate", "terminal"} => node.watch = blank
        /\ node.type = "agent" => node.routes # <<>>
        /\ node.type = "script" => Graph!ScriptValid(node)
        /\ node.type = "read" => Graph!ReadValid(node)
        /\ node.type = "write" => Graph!Known(D, node.next) /\ node.value # ""
        /\ node.type = "workflow" => Graph!CallValid(D, node)
        /\ node.type = "fan_out" => Graph!FanOutValid(D, node)
        /\ node.type = "fan_in" => Graph!FanInValid(D, n)
        /\ node.type = "human_gate" => Graph!GateValid(node)
        /\ node.type = "terminal" => Graph!TerminalValid(D, node)
    BY <1>1 DEF Graph!NodeValid, Graph!Node
  <1>3. "" \notin DOMAIN D.nodes /\ node \in Written
    BY DEF Drawn
  <1>4. Editor!EditorRoutes(node) = routes
    BY EditorRoutesKnown
  <1>5. /\ Editor!OneDefault(node) <=> Graph!OneDefault(node)
        /\ Editor!HasSuccessRoute(node) <=> Graph!HasSuccessRoute(node)
        /\ Editor!Blank("", "").watch = blank
        /\ Editor!Len(node.routes) = Graph!Len(node.routes)
        /\ \A s : Editor!ToSet(s) = Graph!ToSet(s)
        /\ \A m : Editor!Onward(D, m) <=> Graph!Onward(D, m)
    BY SameChecks
  <1>6. /\ \A i \in DOMAIN routes : routes[i].target \in DOMAIN D.nodes
        /\ node.when # "" => node.when \in DOMAIN D.inputs /\ node.otherwise \notin {"", n}
        /\ node.otherwise # "" => node.otherwise \in DOMAIN D.nodes
    BY <1>1 DEF Graph!RoutesValid, Graph!ConditionValid, Graph!Known, Graph!Node
  <1>7. {r.target : r \in Editor!ToSet(routes)} \cup {node.otherwise}
          \subseteq DOMAIN D.nodes \cup {""}
    <2>1. \A r \in Graph!ToSet(routes) : r.target \in DOMAIN D.nodes
      BY <1>6 DEF Graph!ToSet
    <2> HIDE DEF routes, node
    <2>2. QED
      BY <1>5, <1>6, <2>1
  <1>8. node.type = "terminal" => routes = <<>>
    BY DEF Graph!Routes
  <1>9. /\ node.type = "write" => "" \notin {node.next, node.value}
        /\ node.type = "fan_out" => Graph!Len(node.routes) >= 2 /\ node.join # ""
        /\ node.type = "fan_in" => node.next # ""
        /\ node.type = "workflow" => node.child # "" /\ Graph!OneDefault(node)
        /\ node.type = "script" => Graph!HasSuccessRoute(node) /\ Graph!OneDefault(node)
        /\ node.type = "read" => Graph!OneDefault(node)
        /\ node.type = "human_gate" => node.routes # <<>>
        /\ node.type = "terminal" => node.status # ""
    BY <1>2, <1>3 DEF Graph!Known, Graph!FanOutValid, Graph!FanInValid, Graph!CallValid,
       Graph!ScriptValid, Graph!ReadValid, Graph!GateValid, Graph!TerminalValid,
       Graph!TerminalStatus, Graph!Node
  <1>10. Editor!TypeClean(node)
    <2> HIDE DEF node, routes, blank
    <2>1. QED
      BY <1>2, <1>4, <1>5, <1>8, <1>9 DEF Editor!TypeClean
  <1>11. Editor!WatchClean(D, node)
    <2>1. \A w \in [outcome : STRING, target : STRING] :
            w.outcome = "" /\ w.target = "" => w = [outcome |-> "", target |-> ""]
      <3>1. \A w \in [outcome : STRING, target : STRING] :
              w = [outcome |-> w.outcome, target |-> w.target]
        OBVIOUS
      <3>2. QED
        BY <3>1, Zenon
    <2>2. blank = [outcome |-> "", target |-> ""]
      BY DEF Graph!Blank
    <2>3. node.watch \in [outcome : STRING, target : STRING]
      BY <1>3 DEF Written
    <2>4. node.watch.outcome = "" /\ node.watch.target = "" => node.watch = blank
      BY <2>1, <2>2, <2>3
    <2>5. /\ node.type = "human_gate" =>
               \/ node.watch = blank
               \/ \E r \in Graph!ToSet(node.routes) : r.id = node.watch.outcome
          /\ node.type = "terminal" =>
               \/ node.watch = blank
               \/ node.status = "completed" /\ Graph!Onward(D, node.watch.target)
      BY <1>2, <2>4 DEF Graph!GateValid, Graph!TerminalValid
    <2> HIDE DEF node, blank
    <2>6. QED
      BY <1>2, <1>5, <2>5 DEF Editor!WatchClean
  <1> HIDE DEF node, routes
  <1>12. Editor!Node(D, n) = node
    BY DEF Editor!Node, node
  <1>13. QED
    BY <1>1, <1>4, <1>6, <1>7, <1>10, <1>11, <1>12 DEF Editor!NodeClean

(* The dashboard's own checks (workflowErrors), which hold its buttons to   *)
(* publish back, let every definition through that the library accepts.    *)
THEOREM EditorAdmitsValid ==
  ASSUME NEW D, Drawn(D), Graph!Valid(D)
  PROVE  Editor!Clean(D)
  <1>1. D.ceiling \in 1..1000 /\ Editor!Known(D, D.start)
    BY DEF Graph!Valid, Graph!Known, Editor!Known
  <1>2. ASSUME NEW s \in DOMAIN D.stages
        PROVE  Editor!StageClean(D, s)
    <2>1. Graph!StageValid(D, s)
      BY DEF Graph!Valid
    <2>2. QED
      BY <2>1 DEF Graph!StageValid, Graph!Known, Graph!Node, Editor!StageClean, Editor!Known,
         Editor!Node
  <1>3. \A n \in DOMAIN D.nodes : Editor!NodeClean(D, n)
    BY NodeLetThrough
  <1>4. [n \in DOMAIN D.nodes |-> Editor!EditorTargets(D, Editor!Node(D, n))]
          = Graph!Successors(D)
    BY EditorRoutesKnown DEF Editor!Node, Graph!Node, Graph!Successors
  <1>5. DOMAIN D.nodes \subseteq Editor!Reachable(Graph!Successors(D), D.start)
    BY SameSearch DEF Graph!Valid
  <1>6. QED
    BY <1>1, <1>2, <1>3, <1>4, <1>5 DEF Editor!Clean

(* What a node with at most two ways on leads to.                          *)
LEMMA OneEnd ==
  ASSUME NEW node, node.type \notin {"wait", "write", "fan_in", "terminal"},
         NEW a, node.routes = <<a>>
  PROVE  Ends(node) = {a.target}
  <1>1. DOMAIN <<a>> = {1} /\ <<a>>[1] = a
    BY Short
  <1>2. Graph!Routes(node) = <<a>>
    BY DEF Graph!Routes
  <1>3. QED
    BY <1>1, <1>2 DEF Ends, Graph!ToSet

LEMMA Pair ==
  ASSUME NEW a, NEW b
  PROVE  DOMAIN <<a, b>> = {1, 2} /\ <<a, b>>[1] = a /\ <<a, b>>[2] = b
  OBVIOUS

LEMMA TwoEnds ==
  ASSUME NEW node, node.type \notin {"wait", "write", "fan_in", "terminal"},
         DOMAIN node.routes = {1, 2}
  PROVE  Ends(node) = {node.routes[1].target, node.routes[2].target}
  <1>1. Graph!Routes(node) = node.routes
    BY DEF Graph!Routes
  <1>2. Graph!ToSet(node.routes) = {node.routes[1], node.routes[2]}
    BY DEF Graph!ToSet
  <1>3. QED
    BY <1>1, <1>2 DEF Ends

LEMMA NextEnds ==
  ASSUME NEW node, node.next # ""
  PROVE  /\ node.type \in {"write", "fan_in"} => Ends(node) = {node.next}
         /\ node.type = "wait" /\ node.timeout # "" => Ends(node) = {node.next, node.timeout}
  <1>1. \A id, x : Graph!Route(id, x).target = x
    BY DEF Graph!Route
  <1>2. ASSUME node.type \in {"write", "fan_in"}
        PROVE  Ends(node) = {node.next}
    <2> DEFINE one == Graph!Route("completed", node.next)
    <2>1. Graph!Routes(node) = <<one>>
      BY <1>2 DEF Graph!Routes
    <2>2. DOMAIN <<one>> = {1} /\ <<one>>[1] = one
      BY Short
    <2>3. one.target = node.next
      BY <1>1
    <2> HIDE DEF one
    <2>4. QED
      BY <2>1, <2>2, <2>3 DEF Ends, Graph!ToSet
  <1>3. ASSUME node.type = "wait", node.timeout # ""
        PROVE  Ends(node) = {node.next, node.timeout}
    <2> DEFINE one == Graph!Route("elapsed", node.next)
               two == Graph!Route("timed_out", node.timeout)
    <2>1. Graph!Routes(node) = <<one>> \o <<two>>
      BY <1>3 DEF Graph!Routes
    <2>2. Graph!ToSet(<<one>> \o <<two>>) = {one, two}
      BY Listing DEF ToSet, Graph!ToSet
    <2>3. one.target = node.next /\ two.target = node.timeout
      BY <1>1
    <2> HIDE DEF one, two
    <2>4. QED
      BY <2>1, <2>2, <2>3 DEF Ends
  <1>4. QED
    BY <1>2, <1>3

(* A name a node may have.                                                 *)
Proper(x) == x \in STRING \ {""}

(* A fresh node leads to its target, and else to itself.                   *)
LeadsTo(new, stage, self, target) ==
    new.stage = stage /\ target \in Own(new) /\ Own(new) \subseteq {target, self, ""}

LEMMA FreshLeads ==
  ASSUME NEW D, NEW type \in Graph!Types \ {"terminal"}, NEW stage,
         NEW self, NEW target, Proper(target),
         NEW new, new = Editor!Fresh(D, type, stage, self, target)
  PROVE  LeadsTo(new, stage, self, target)
  <1> DEFINE node == [Editor!Blank(type, stage) EXCEPT !.limit = 10]
             done == Editor!Route("completed", target)
             approved == Editor!Route("approved", target)
             one == Editor!Route("a", target)
             two == Editor!Route("b", target)
             back == Editor!Route("changes", self)
             ok == [Editor!Route("success", target) EXCEPT !.codes = {0}]
             other == [Editor!Route("failure", self) EXCEPT !.default = TRUE]
  <1>1. /\ done.target = target /\ approved.target = target /\ one.target = target
        /\ two.target = target /\ back.target = self /\ ok.target = target /\ other.target = self
    BY DEF Editor!Route
  <1>2. /\ node.type = type /\ node.stage = stage /\ node.otherwise = "" /\ node.watch.target = ""
        /\ DOMAIN node = {"type", "stage", "routes", "next", "timeout", "value", "join", "child",
                          "when", "equals", "otherwise", "limit", "status", "watch"}
    BY DEF Editor!Blank
  <1> HIDE DEF done, approved, one, two, back, ok, other, node
  <1>3. CASE type = "agent"
    <2>1. new = [node EXCEPT !.routes = <<done>>]
      BY <1>3, Zenon DEF Editor!Fresh, node, done
    <2>2. /\ new.type = type /\ new.stage = stage /\ new.otherwise = "" /\ new.watch.target = ""
          /\ new.routes = <<done>>
      BY <1>2, <2>1
    <2>3. new.type \notin {"wait", "write", "fan_in", "terminal"}
      BY <1>3, <2>2
    <2>4. Ends(new) = {done.target}
      BY <2>2, <2>3, OneEnd, Zenon
    <2>5. QED
      BY <1>1, <2>2, <2>4 DEF Own, LeadsTo
  <1>4. CASE type = "human_gate"
    <2>1. new = [node EXCEPT !.routes = <<approved, back>>]
      BY <1>4, Zenon DEF Editor!Fresh, node, approved, back
    <2>2. /\ new.type = type /\ new.stage = stage /\ new.otherwise = "" /\ new.watch.target = ""
          /\ new.routes = <<approved, back>>
      BY <1>2, <2>1
    <2>3. new.type \notin {"wait", "write", "fan_in", "terminal"}
      BY <1>4, <2>2
    <2>4. Ends(new) = {approved.target, back.target}
      <3>1. /\ DOMAIN <<approved, back>> = {1, 2}
            /\ <<approved, back>>[1] = approved /\ <<approved, back>>[2] = back
        BY Pair, Zenon
      <3>2. DOMAIN new.routes = {1, 2} /\ new.routes[1] = approved /\ new.routes[2] = back
        BY <2>2, <3>1, Zenon
      <3>3. QED
        BY <2>3, <3>2, TwoEnds
    <2>5. QED
      BY <1>1, <2>2, <2>4 DEF Own, LeadsTo
  <1>5. CASE type \in {"script", "checkpoint", "restore_checkpoint", "read"}
    <2>1. new = [node EXCEPT !.routes = <<ok, other>>]
      BY <1>5, Zenon DEF Editor!Fresh, node, ok, other
    <2>2. /\ new.type = type /\ new.stage = stage /\ new.otherwise = "" /\ new.watch.target = ""
          /\ new.routes = <<ok, other>>
      BY <1>2, <2>1
    <2>3. new.type \notin {"wait", "write", "fan_in", "terminal"}
      BY <1>5, <2>2
    <2>4. Ends(new) = {ok.target, other.target}
      <3>1. /\ DOMAIN <<ok, other>> = {1, 2}
            /\ <<ok, other>>[1] = ok /\ <<ok, other>>[2] = other
        BY Pair, Zenon
      <3>2. DOMAIN new.routes = {1, 2} /\ new.routes[1] = ok /\ new.routes[2] = other
        BY <2>2, <3>1, Zenon
      <3>3. QED
        BY <2>3, <3>2, TwoEnds
    <2>5. QED
      BY <1>1, <2>2, <2>4 DEF Own, LeadsTo
  <1>6. CASE type = "workflow"
    <2>1. new = [node EXCEPT !.routes = <<ok, other>>, !.child = "another"]
      BY <1>6, Zenon DEF Editor!Fresh, node, ok, other
    <2>2. /\ new.type = type /\ new.stage = stage /\ new.otherwise = "" /\ new.watch.target = ""
          /\ new.routes = <<ok, other>>
      BY <1>2, <2>1
    <2>3. new.type \notin {"wait", "write", "fan_in", "terminal"}
      BY <1>6, <2>2
    <2>4. Ends(new) = {ok.target, other.target}
      <3>1. /\ DOMAIN <<ok, other>> = {1, 2}
            /\ <<ok, other>>[1] = ok /\ <<ok, other>>[2] = other
        BY Pair, Zenon
      <3>2. DOMAIN new.routes = {1, 2} /\ new.routes[1] = ok /\ new.routes[2] = other
        BY <2>2, <3>1, Zenon
      <3>3. QED
        BY <2>3, <3>2, TwoEnds
    <2>5. QED
      BY <1>1, <2>2, <2>4 DEF Own, LeadsTo
  <1>7. CASE type = "wait"
    <2>1. new = [node EXCEPT !.next = target, !.timeout = target]
      BY <1>7, Zenon DEF Editor!Fresh, node
    <2>2. /\ new.type = type /\ new.stage = stage /\ new.otherwise = "" /\ new.watch.target = ""
          /\ new.next = target /\ new.timeout = target
      BY <1>2, <2>1
    <2>3. Ends(new) = {target}
      BY <1>7, <2>2, NextEnds DEF Proper
    <2>4. QED
      BY <2>2, <2>3 DEF Own, LeadsTo
  <1>8. CASE type = "write"
    <2>1. new = [node EXCEPT !.next = target, !.value = "true"]
      BY <1>8, Zenon DEF Editor!Fresh, node
    <2>2. /\ new.type = type /\ new.stage = stage /\ new.otherwise = "" /\ new.watch.target = ""
          /\ new.next = target
      BY <1>2, <2>1
    <2>3. Ends(new) = {target}
      BY <1>8, <2>2, NextEnds DEF Proper
    <2>4. QED
      BY <2>2, <2>3 DEF Own, LeadsTo
  <1>9. CASE type = "fan_in"
    <2>1. new = [node EXCEPT !.next = target]
      BY <1>9, Zenon DEF Editor!Fresh, node
    <2>2. /\ new.type = type /\ new.stage = stage /\ new.otherwise = "" /\ new.watch.target = ""
          /\ new.next = target
      BY <1>2, <2>1
    <2>3. Ends(new) = {target}
      BY <1>9, <2>2, NextEnds DEF Proper
    <2>4. QED
      BY <2>2, <2>3 DEF Own, LeadsTo
  <1>10. CASE type = "fan_out"
    <2>1. PICK join : new = [node EXCEPT !.routes = <<one, two>>, !.join = join]
      BY <1>10, Zenon DEF Editor!Fresh, node, one, two
    <2>2. /\ new.type = type /\ new.stage = stage /\ new.otherwise = "" /\ new.watch.target = ""
          /\ new.routes = <<one, two>>
      BY <1>2, <2>1
    <2>3. new.type \notin {"wait", "write", "fan_in", "terminal"}
      BY <1>10, <2>2
    <2>4. Ends(new) = {one.target, two.target}
      <3>1. /\ DOMAIN <<one, two>> = {1, 2}
            /\ <<one, two>>[1] = one /\ <<one, two>>[2] = two
        BY Pair, Zenon
      <3>2. DOMAIN new.routes = {1, 2} /\ new.routes[1] = one /\ new.routes[2] = two
        BY <2>2, <3>1, Zenon
      <3>3. QED
        BY <2>3, <3>2, TwoEnds
    <2>5. QED
      BY <1>1, <2>2, <2>4 DEF Own, LeadsTo
  <1>11. QED
    BY <1>3, <1>4, <1>5, <1>6, <1>7, <1>8, <1>9, <1>10 DEF Graph!Types

LEMMA FirstOf ==
  ASSUME NEW S, NEW s \in Seq(S), s # <<>>
  PROVE  1 \in DOMAIN s /\ Head(s) = s[1]
  <1>1. Len(s) \in Nat /\ Len(s) # 0 /\ DOMAIN s = 1..Len(s)
    BY EmptySeq, LenProperties
  <1>2. 1 \in DOMAIN s
    BY <1>1
  <1>3. Head(s) = s[1]
    BY <1>1
  <1>4. QED
    BY <1>2, <1>3

(* An accepted node that ends nothing leads on.                            *)
LEMMA LeadsOn ==
  ASSUME NEW D, Drawn(D), Graph!Valid(D), NEW n \in DOMAIN D.nodes,
         D.nodes[n].type # "terminal"
  PROVE  LET routes == Graph!Routes(D.nodes[n])
         IN  /\ routes # <<>> /\ Head(routes).target \in Own(D.nodes[n])
             /\ Head(routes).target \in DOMAIN D.nodes
  <1> DEFINE node == D.nodes[n]
             routes == Graph!Routes(node)
  <1>1. Graph!NodeValid(D, n) /\ node.type \in Graph!Types /\ Graph!RoutesValid(D, n)
    BY NodeAccepted
  <1>2. node.routes \in Seq(Ways) /\ "" \notin DOMAIN D.nodes
    BY DEF Drawn, Written
  <1>3. Graph!OneDefault(node) => node.routes # <<>>
    <2> DEFINE default == {i \in DOMAIN node.routes : node.routes[i].default}
    <2>1. Graph!OneDefault(node) => Cardinality(default) = 1
      BY DEF Graph!OneDefault, Graph!Cardinality, Cardinality
    <2>2. Graph!OneDefault(node) => default # {}
      BY <2>1, FS_EmptySet
    <2>3. node.routes = <<>> => DOMAIN node.routes = {}
      BY Short
    <2>4. QED
      BY <2>2, <2>3
  <1>4. /\ node.type = "agent" => node.routes # <<>>
        /\ node.type = "script" => Graph!ScriptValid(node)
        /\ node.type \in {"checkpoint", "restore_checkpoint"} => Graph!CheckpointValid(node)
        /\ node.type = "wait" => Graph!WaitValid(D, n)
        /\ node.type = "read" => Graph!ReadValid(node)
        /\ node.type = "write" => Graph!Known(D, node.next)
        /\ node.type = "workflow" => Graph!CallValid(D, node)
        /\ node.type = "fan_out" => Graph!FanOutValid(D, node)
        /\ node.type = "fan_in" => Graph!FanInValid(D, n)
        /\ node.type = "human_gate" => Graph!GateValid(node)
    BY <1>1 DEF Graph!NodeValid, Graph!Node
  <1>5. \A i \in DOMAIN routes :
          routes[i].target \in DOMAIN D.nodes /\ routes[i].target \in Own(node)
    BY <1>1 DEF Graph!RoutesValid, Graph!Known, Graph!Node, Own, Ends, Graph!ToSet
  <1>6. SUFFICES routes # <<>> /\ 1 \in DOMAIN routes /\ Head(routes) = routes[1]
    BY <1>5
  <1>7. CASE node.type \notin {"wait", "write", "fan_in"}
    <2>1. routes = node.routes
      BY <1>7 DEF Graph!Routes
    <2>2. node.routes # <<>>
      <3>1. node.type = "fan_out" => node.routes # <<>>
        <4>1. Graph!Len(node.routes) = Len(node.routes) /\ Len(<<>>) = 0
          OBVIOUS
        <4>2. QED
          BY <1>4, <4>1 DEF Graph!FanOutValid
      <3>2. node.type \in {"script", "checkpoint", "restore_checkpoint", "read", "workflow"}
              => Graph!OneDefault(node)
        BY <1>4 DEF Graph!ScriptValid, Graph!CheckpointValid, Graph!ReadValid, Graph!CallValid
      <3>3. node.type = "human_gate" => node.routes # <<>>
        BY <1>4 DEF Graph!GateValid
      <3>4. QED
        BY <1>1, <1>3, <1>4, <1>7, <3>1, <3>2, <3>3 DEF Graph!Types
    <2> HIDE DEF node, routes
    <2>3. QED
      BY <1>2, <2>1, <2>2, FirstOf
  <1>8. CASE node.type \in {"write", "fan_in"}
    <2>1. node.next # ""
      BY <1>2, <1>4, <1>8 DEF Graph!Known, Graph!FanInValid, Graph!Node
    <2>2. routes = <<Graph!Route("completed", node.next)>>
      BY <1>8, <2>1 DEF Graph!Routes
    <2>3. QED
      BY <2>2
  <1>9. CASE node.type = "wait"
    <2> DEFINE one == Graph!Route("elapsed", node.next)
               two == Graph!Route("timed_out", node.timeout)
    <2>1. node.next # "" /\ node.timeout # ""
      BY <1>2, <1>4, <1>9 DEF Graph!WaitValid, Graph!Node
    <2>2. routes = <<one>> \o <<two>>
      BY <1>9, <2>1 DEF Graph!Routes
    <2> HIDE DEF one, two
    <2>3. <<one>> \in Seq({one, two}) /\ <<two>> \in Seq({one, two})
      OBVIOUS
    <2>4. routes \in Seq({one, two}) /\ Len(routes) = 2
      BY <2>2, <2>3
    <2> HIDE DEF routes
    <2>5. QED
      BY <2>4
  <1>10. QED
    BY <1>7, <1>8, <1>9

(* What becomes of the targets of a node one of whose targets is replaced. *)
With(own, by, none, all) == \A x : x \in all <=> x # none /\ (x \in own \/ x = by)

Replacing(own, led, none, from, to, all) ==
    \A x : x \in all <=> x # none /\ (x = led \/ \E y \in own : x = As(from, to, y))

LEMMA Replaced ==
  ASSUME NEW own, NEW by, NEW none, NEW from, from # none, NEW to, to # none,
         NEW led, led = by \/ led = As(from, to, by),
         NEW before, With(own, by, none, before),
         NEW after, Replacing(own, led, none, from, to, after)
  PROVE  /\ \A x \in after : x \in before \/ x = to
         /\ \A x \in before : x \in after \/ (x = from /\ to \in after)
         /\ from \in own => to \in after
         /\ led = As(from, to, by) => (from \in before => to \in after)
  <1>1. As(from, to, from) = to /\ \A x : x # from => As(from, to, x) = x
    BY DEF As
  <1>2. \A x \in after : x \in before \/ x = to
    BY <1>1 DEF With, Replacing
  <1>3. \A x \in before : x \in after \/ (x = from /\ to \in after)
    BY <1>1 DEF With, Replacing
  <1>4. from \in own => to \in after
    BY <1>1 DEF Replacing
  <1>5. led = As(from, to, by) => (from \in before => to \in after)
    BY <1>1 DEF With, Replacing
  <1>6. QED
    BY <1>2, <1>3, <1>4, <1>5

Turns(D, E, old, new, from, to) ==
    LET before == Graph!WorkflowTargets(D, old)
        after == Graph!WorkflowTargets(E, new)
    IN  /\ \A x \in after : x \in before \/ x = to
        /\ \A x \in before : x \in after \/ (x = from /\ to \in after)
        /\ from \in Own(old) => to \in after
        /\ Graph!BypassTo(E, new) = As(from, to, Graph!BypassTo(D, old))
             => (from \in before => to \in after)

LEMMA Rerouted ==
  ASSUME NEW D, NEW E, NEW old \in Written, NEW from, Proper(from),
         NEW to, Proper(to), NEW new, new = Editor!Redirected(old, from, to),
         \/ Graph!BypassTo(E, new) = Graph!BypassTo(D, old)
         \/ Graph!BypassTo(E, new) = As(from, to, Graph!BypassTo(D, old))
  PROVE  Turns(D, E, old, new, from, to)
  <1>1. Retargeted(old, new, from, to)
    BY Readdressed DEF Proper
  <1>2. Led(Graph!Routes(old), Graph!Routes(new), from, to)
    BY <1>1, OutcomesLed DEF Proper
  <1>3. Own(new) = {As(from, to, x) : x \in Own(old)}
    BY <1>1, <1>2, OwnLed
  <1>4. /\ Graph!WorkflowTargets(D, old) = (Own(old) \cup {Graph!BypassTo(D, old)}) \ {""}
        /\ Graph!WorkflowTargets(E, new) = (Own(new) \cup {Graph!BypassTo(E, new)}) \ {""}
    BY OwnTargets, Zenon
  <1> DEFINE own == Own(old)
             by == Graph!BypassTo(D, old)
             led == Graph!BypassTo(E, new)
             none == ""
             before == Graph!WorkflowTargets(D, old)
             after == Graph!WorkflowTargets(E, new)
  <1>5. With(own, by, none, before) /\ Replacing(own, led, none, from, to, after)
    BY <1>3, <1>4, Zenon DEF With, Replacing
  <1>6. from # none /\ to # none /\ (led = by \/ led = As(from, to, by))
    BY DEF Proper
  <1> HIDE DEF own, by, led, none, before, after
  <1>7. /\ \A x \in after : x \in before \/ x = to
        /\ \A x \in before : x \in after \/ (x = from /\ to \in after)
        /\ from \in own => to \in after
        /\ led = As(from, to, by) => (from \in before => to \in after)
    BY <1>5, <1>6, Replaced
  <1>8. QED
    BY <1>7, Zenon DEF own, by, led, before, after, Turns

(* A node set into the ways to another is reached, as is all there was.    *)
Inserted(D, E, id, from) ==
    LET T(m) == Graph!WorkflowTargets(D, D.nodes[m])
        U(m) == Graph!WorkflowTargets(E, E.nodes[m])
    IN  /\ E.start = D.start /\ DOMAIN E.nodes = DOMAIN D.nodes \cup {id}
        /\ \A m \in DOMAIN D.nodes :
             /\ \A x \in U(m) : x \in T(m) \/ x = id
             /\ \A x \in T(m) : x \in U(m) \/ (x = from /\ id \in U(m))
        /\ from \in U(id) /\ U(id) \subseteq DOMAIN D.nodes \cup {id}
        /\ \E m \in DOMAIN D.nodes : id \in U(m)

LEMMA InsertedConnects ==
  ASSUME NEW D, Drawn(D), Graph!Valid(D), NEW E, NEW id, NEW from, Inserted(D, E, id, from)
  PROVE  /\ DOMAIN E.nodes \subseteq Graph!Reachable(Graph!Successors(E), E.start)
         /\ \A m \in DOMAIN E.nodes : Graph!WorkflowTargets(E, E.nodes[m]) \subseteq DOMAIN E.nodes
  <1> DEFINE T(m) == Graph!WorkflowTargets(D, D.nodes[m])
             U(m) == Graph!WorkflowTargets(E, E.nodes[m])
             succ == Graph!Successors(E)
             C == Graph!Reachable(succ, E.start)
  <1>1. /\ E.start = D.start /\ DOMAIN E.nodes = DOMAIN D.nodes \cup {id}
        /\ \A m \in DOMAIN D.nodes :
             /\ \A x \in U(m) : x \in T(m) \/ x = id
             /\ \A x \in T(m) : x \in U(m) \/ (x = from /\ id \in U(m))
        /\ from \in U(id) /\ U(id) \subseteq DOMAIN D.nodes \cup {id}
        /\ \E m \in DOMAIN D.nodes : id \in U(m)
    BY Zenon DEF Inserted
  <1>2. \A m \in DOMAIN D.nodes : T(m) \subseteq DOMAIN D.nodes
    BY TargetsKnown
  <1>3. DOMAIN succ = DOMAIN E.nodes /\ \A m \in DOMAIN E.nodes : succ[m] = U(m)
    BY DEF Graph!Successors, Graph!Node
  <1>4. \A C1 : D.start \in C1 /\ ClosedIn(D, C1) => DOMAIN D.nodes \subseteq C1
    <2>1. IsFiniteSet(DOMAIN D.nodes)
      BY DEF Drawn
    <2>2. QED
      BY <2>1, ValidIsConnected
  <1>5. \A C1 : (\A m \in C1 \cap DOMAIN D.nodes : T(m) \subseteq C1) => ClosedIn(D, C1)
    BY DEF ClosedIn
  <1> HIDE DEF T, U, succ
  <1>6. \A m \in DOMAIN E.nodes : U(m) \subseteq DOMAIN E.nodes
    <2>1. ASSUME NEW m \in DOMAIN D.nodes
          PROVE  U(m) \subseteq DOMAIN E.nodes
      BY <1>1, <1>2
    <2>2. QED
      BY <1>1, <2>1
  <1>7. IsFiniteSet(DOMAIN succ) /\ \A m \in DOMAIN succ : IsFiniteSet(succ[m])
    <2>1. IsFiniteSet(DOMAIN E.nodes)
      <3>1. IsFiniteSet(DOMAIN D.nodes)
        BY DEF Drawn
      <3>2. IsFiniteSet(DOMAIN D.nodes \cup {id})
        BY <3>1, FS_AddElement
      <3>3. QED
        BY <1>1, <3>2, Zenon
    <2>2. QED
      BY <1>3, <1>6, <2>1, FS_Subset
  <1>8. E.start \in C /\ \A m \in C \cap DOMAIN E.nodes : U(m) \subseteq C
    <2>1. E.start \in C /\ Closed(succ, C)
      BY <1>7, SearchesAreExact
    <2> HIDE DEF C
    <2>2. QED
      BY <1>3, <2>1 DEF Closed
  <1> HIDE DEF C
  <1>9. ASSUME NEW m \in C \cap DOMAIN D.nodes
        PROVE  T(m) \subseteq C
    <2>1. U(m) \subseteq C
      BY <1>1, <1>8
    <2>2. id \in U(m) => from \in C
      BY <1>1, <1>8, <2>1
    <2>3. QED
      BY <1>1, <2>1, <2>2
  <1>10. DOMAIN D.nodes \subseteq C
    BY <1>1, <1>4, <1>5, <1>8, <1>9
  <1>11. id \in C
    BY <1>1, <1>8, <1>10
  <1>12. QED
    BY <1>1, <1>6, <1>10, <1>11 DEF C, U, succ

(* Some way leads to every node but the start.                             *)
LEMMA LedTo ==
  ASSUME NEW D, Drawn(D), Graph!Valid(D), NEW n \in DOMAIN D.nodes, n # D.start
  PROVE  \E m \in DOMAIN D.nodes : n \in Graph!WorkflowTargets(D, D.nodes[m])
  <1>1. SUFFICES ASSUME \A m \in DOMAIN D.nodes : n \notin Graph!WorkflowTargets(D, D.nodes[m])
                 PROVE  FALSE
    OBVIOUS
  <1> DEFINE C == DOMAIN D.nodes \ {n}
  <1>2. D.start \in C
    BY DEF Graph!Valid, Graph!Known
  <1>3. \A m \in DOMAIN D.nodes : Graph!WorkflowTargets(D, D.nodes[m]) \subseteq DOMAIN D.nodes
    BY TargetsKnown
  <1>4. ClosedIn(D, C)
    BY <1>1, <1>3 DEF ClosedIn
  <1>5. DOMAIN D.nodes \subseteq C
    <2>1. IsFiniteSet(DOMAIN D.nodes)
      BY DEF Drawn
    <2> HIDE DEF C
    <2>2. QED
      BY <1>2, <1>4, <2>1, ValidIsConnected
  <1>6. QED
    BY <1>5

(* The edits of addNode: before a terminal node, and behind any other.     *)
LEMMA AddedBefore ==
  ASSUME NEW D, Drawn(D), Graph!Valid(D), NEW id \in STRING \ Named(D),
         NEW type \in Graph!Types \ {"terminal"}, NEW selected \in DOMAIN D.nodes,
         D.nodes[selected].type = "terminal", NEW E, E = Editor!AddNode(D, id, type, selected)
  PROVE  /\ E.start = D.start /\ DOMAIN E.nodes = DOMAIN D.nodes \cup {id}
         /\ E.nodes[id] = Editor!Fresh(D, type, D.nodes[selected].stage, id, selected)
         /\ \A m \in DOMAIN D.nodes : E.nodes[m] = Editor!Redirected(D.nodes[m], selected, id)
         /\ DOMAIN E.stages = DOMAIN D.stages
         /\ \A s \in DOMAIN D.stages :
              /\ E.stages[s].skippable = D.stages[s].skippable
              /\ E.stages[s].bypass = As(selected, id, D.stages[s].bypass)
  <1> DEFINE source == D.nodes[selected]
             node(m) == IF m = id THEN Editor!Fresh(D, type, source.stage, id, selected)
                                  ELSE Editor!Redirected(D.nodes[m], selected, id)
             nodes == [m \in DOMAIN D.nodes \cup {id} |-> node(m)]
             stages == Editor!BypassRedirected(D, selected, id)
  <1>1. Editor!EditorRoutes(source) = <<>>
    <2>1. Editor!EditorRoutes(source) = Graph!Routes(source)
      BY EditorRoutesKnown
    <2>2. Graph!Routes(source) = <<>>
      BY DEF Graph!Routes
    <2>3. QED
      BY <2>1, <2>2
  <1>2. E = [D EXCEPT !.nodes = nodes, !.stages = stages]
    BY <1>1, Zenon DEF Editor!AddNode, Editor!Node
  <1>3. DOMAIN D = {"id", "start", "ceiling", "inputs", "stages", "nodes"}
    BY DEF Drawn
  <1>4. id \notin DOMAIN D.nodes
    BY DEF Named
  <1>5. /\ DOMAIN stages = DOMAIN D.stages
        /\ \A s \in DOMAIN D.stages :
             /\ stages[s].skippable = D.stages[s].skippable
             /\ stages[s].bypass = As(selected, id, D.stages[s].bypass)
    <2>1. D.stages \in [DOMAIN D.stages -> [skippable : BOOLEAN, bypass : STRING]]
      BY DEF Drawn
    <2>2. QED
      BY <2>1 DEF Editor!BypassRedirected, As
  <1>6. /\ DOMAIN nodes = DOMAIN D.nodes \cup {id}
        /\ \A m \in DOMAIN nodes : nodes[m] = node(m)
    OBVIOUS
  <1> HIDE DEF stages, nodes
  <1>7. E.start = D.start /\ E.nodes = nodes /\ E.stages = stages
    BY <1>2, <1>3
  <1>8. E.nodes[id] = node(id) /\ \A m \in DOMAIN D.nodes : E.nodes[m] = node(m)
    BY <1>6, <1>7
  <1>9. /\ node(id) = Editor!Fresh(D, type, source.stage, id, selected)
        /\ \A m \in DOMAIN D.nodes : node(m) = Editor!Redirected(D.nodes[m], selected, id)
    BY <1>4
  <1> HIDE DEF node
  <1>10. QED
    BY <1>5, <1>6, <1>7, <1>8, <1>9

LEMMA AddedBehind ==
  ASSUME NEW D, Drawn(D), Graph!Valid(D), NEW id \in STRING \ Named(D),
         NEW type \in Graph!Types \ {"terminal"}, NEW selected \in DOMAIN D.nodes,
         D.nodes[selected].type # "terminal", NEW E, E = Editor!AddNode(D, id, type, selected)
  PROVE  \E target \in Own(D.nodes[selected]) \cap DOMAIN D.nodes :
           /\ E.start = D.start /\ DOMAIN E.nodes = DOMAIN D.nodes \cup {id}
           /\ E.nodes[id] = Editor!Fresh(D, type, D.nodes[selected].stage, id, target)
           /\ E.nodes[selected] = Editor!Redirected(D.nodes[selected], target, id)
           /\ \A m \in DOMAIN D.nodes \ {selected} : E.nodes[m] = D.nodes[m]
           /\ E.stages = D.stages
  <1> DEFINE source == D.nodes[selected]
             target == Head(Graph!Routes(source)).target
             node(m) == IF m = id THEN Editor!Fresh(D, type, source.stage, id, target)
                        ELSE IF m = selected THEN Editor!Redirected(D.nodes[m], target, id)
                                             ELSE D.nodes[m]
             nodes == [m \in DOMAIN D.nodes \cup {id} |-> node(m)]
  <1>1. Graph!Routes(source) # <<>> /\ target \in Own(source) \cap DOMAIN D.nodes
    BY LeadsOn
  <1>2. Editor!EditorRoutes(source) = Graph!Routes(source)
    BY EditorRoutesKnown
  <1>3. E = [D EXCEPT !.nodes = nodes]
    <2>1. D = [D EXCEPT !.stages = D.stages]
      BY DEF Drawn
    <2>2. E = [D EXCEPT !.nodes = nodes, !.stages = D.stages]
      BY <1>1, <1>2, Zenon DEF Editor!AddNode, Editor!Node
    <2> HIDE DEF nodes
    <2>3. QED
      BY <2>1, <2>2
  <1>4. DOMAIN D = {"id", "start", "ceiling", "inputs", "stages", "nodes"}
    BY DEF Drawn
  <1>5. id \notin DOMAIN D.nodes
    BY DEF Named
  <1>6. /\ DOMAIN nodes = DOMAIN D.nodes \cup {id}
        /\ \A m \in DOMAIN nodes : nodes[m] = node(m)
    OBVIOUS
  <1> HIDE DEF nodes
  <1>7. E.start = D.start /\ E.nodes = nodes /\ E.stages = D.stages
    BY <1>3, <1>4
  <1>8. E.nodes[id] = node(id) /\ \A m \in DOMAIN D.nodes : E.nodes[m] = node(m)
    BY <1>6, <1>7
  <1>9. /\ node(id) = Editor!Fresh(D, type, source.stage, id, target)
        /\ node(selected) = Editor!Redirected(source, target, id)
        /\ \A m \in DOMAIN D.nodes \ {selected} : node(m) = D.nodes[m]
    BY <1>5
  <1> HIDE DEF node, target
  <1>10. QED
    BY <1>1, <1>6, <1>7, <1>8, <1>9

LEMMA StageKept ==
  ASSUME NEW old \in Written, NEW from, Proper(from), NEW to, Proper(to),
         NEW new, new = Editor!Redirected(old, from, to)
  PROVE  new.stage = old.stage
  <1>1. Retargeted(old, new, from, to)
    BY Readdressed DEF Proper
  <1>2. QED
    BY <1>1 DEF Retargeted

(* Adding a node in the editor (addNode) sets it into the ways there are:  *)
(* whatever the graph, the new node is reached and so is every node that   *)
(* was, and nothing leads to a node there is none of; unless it is added   *)
(* before a terminal node at which the workflow starts.                    *)
THEOREM AddedNodeConnects ==
  ASSUME NEW D, Drawn(D), Graph!Valid(D), NEW id \in STRING \ Named(D),
         NEW type \in Graph!Types \ {"terminal"}, NEW selected \in DOMAIN D.nodes,
         D.nodes[selected].type = "terminal" => selected # D.start
  PROVE  LET E == Editor!AddNode(D, id, type, selected)
         IN  /\ DOMAIN E.nodes = DOMAIN D.nodes \cup {id}
             /\ DOMAIN E.nodes \subseteq Graph!Reachable(Graph!Successors(E), E.start)
             /\ \A m \in DOMAIN E.nodes :
                  Graph!WorkflowTargets(E, E.nodes[m]) \subseteq DOMAIN E.nodes
  <1> DEFINE E == Editor!AddNode(D, id, type, selected)
             source == D.nodes[selected]
             T(m) == Graph!WorkflowTargets(D, D.nodes[m])
             U(m) == Graph!WorkflowTargets(E, E.nodes[m])
  <1>1. \A m \in DOMAIN D.nodes : T(m) \subseteq DOMAIN D.nodes /\ D.nodes[m] \in Written
    BY TargetsKnown DEF Drawn
  <1>2. /\ Proper(id) /\ \A m \in DOMAIN D.nodes : Proper(m)
        /\ "" \notin DOMAIN D.nodes
    BY DEF Named, Drawn, Proper
  <1>3. Graph!BypassTo(D, source) \in DOMAIN D.nodes \cup {""}
    BY <1>1 DEF Graph!WorkflowTargets
  <1>4. CASE source.type = "terminal"
    <2>1. /\ E.start = D.start /\ DOMAIN E.nodes = DOMAIN D.nodes \cup {id}
          /\ E.nodes[id] = Editor!Fresh(D, type, source.stage, id, selected)
          /\ \A m \in DOMAIN D.nodes : E.nodes[m] = Editor!Redirected(D.nodes[m], selected, id)
          /\ DOMAIN E.stages = DOMAIN D.stages
          /\ \A s \in DOMAIN D.stages :
               /\ E.stages[s].skippable = D.stages[s].skippable
               /\ E.stages[s].bypass = As(selected, id, D.stages[s].bypass)
      BY <1>4, AddedBefore
    <2> HIDE DEF E
    <2>2. \A node, old : node.stage = old.stage
            => Graph!BypassTo(E, node) = As(selected, id, Graph!BypassTo(D, old))
      <3>1. As(selected, id, "") = ""
        BY <1>2 DEF As
      <3>2. QED
        BY <2>1, <3>1 DEF Graph!BypassTo
    <2>3. ASSUME NEW m \in DOMAIN D.nodes
          PROVE  /\ \A x \in U(m) : x \in T(m) \/ x = id
                 /\ \A x \in T(m) : x \in U(m) \/ (x = selected /\ id \in U(m))
                 /\ selected \in T(m) => id \in U(m)
      <3> DEFINE old == D.nodes[m]
                 new == E.nodes[m]
      <3>1. old \in Written /\ new = Editor!Redirected(old, selected, id)
        BY <1>1, <2>1
      <3>2. Proper(selected) /\ Proper(id)
        BY <1>2
      <3> HIDE DEF old, new
      <3>3. new.stage = old.stage
        BY <3>1, <3>2, StageKept
      <3>4. Graph!BypassTo(E, new) = As(selected, id, Graph!BypassTo(D, old))
        BY <2>2, <3>3
      <3>5. Turns(D, E, old, new, selected, id)
        BY <3>1, <3>2, <3>4, Rerouted
      <3>6. QED
        <4>1. /\ \A x \in Graph!WorkflowTargets(E, new) :
                   x \in Graph!WorkflowTargets(D, old) \/ x = id
              /\ \A x \in Graph!WorkflowTargets(D, old) :
                   \/ x \in Graph!WorkflowTargets(E, new)
                   \/ (x = selected /\ id \in Graph!WorkflowTargets(E, new))
              /\ selected \in Graph!WorkflowTargets(D, old)
                   => id \in Graph!WorkflowTargets(E, new)
          BY <3>4, <3>5, Zenon DEF Turns
        <4>2. QED
          BY <4>1 DEF old, new
    <2>4. selected \in U(id) /\ U(id) \subseteq DOMAIN D.nodes \cup {id}
      <3> DEFINE new == E.nodes[id]
      <3>1. /\ new.stage = source.stage /\ selected \in Own(new)
            /\ Own(new) \subseteq {selected, id, ""}
        <4>1. Proper(selected) /\ new = Editor!Fresh(D, type, source.stage, id, selected)
          BY <1>2, <2>1
        <4> HIDE DEF new
        <4>2. LeadsTo(new, source.stage, id, selected)
          BY <4>1, FreshLeads
        <4>3. QED
          BY <4>2 DEF LeadsTo
      <3> HIDE DEF new
      <3>2. Graph!BypassTo(E, new) = As(selected, id, Graph!BypassTo(D, source))
        BY <2>2, <3>1
      <3>3. Graph!BypassTo(E, new) \in DOMAIN D.nodes \cup {id, ""}
        BY <1>3, <3>2 DEF As
      <3>4. Graph!WorkflowTargets(E, new) = (Own(new) \cup {Graph!BypassTo(E, new)}) \ {""}
        BY OwnTargets, Zenon
      <3>5. QED
        BY <1>2, <3>1, <3>3, <3>4 DEF new
    <2>5. \E m \in DOMAIN D.nodes : id \in U(m)
      <3>1. PICK m \in DOMAIN D.nodes : selected \in T(m)
        BY <1>4, LedTo
      <3>2. QED
        BY <2>3, <3>1
    <2> HIDE DEF T, U
    <2>6. Inserted(D, E, id, selected)
      BY <2>1, <2>3, <2>4, <2>5 DEF Inserted, T, U
    <2>7. QED
      BY <2>1, <2>6, InsertedConnects DEF E
  <1>5. CASE source.type # "terminal"
    <2>1. PICK target \in Own(source) \cap DOMAIN D.nodes :
           /\ E.start = D.start /\ DOMAIN E.nodes = DOMAIN D.nodes \cup {id}
           /\ E.nodes[id] = Editor!Fresh(D, type, source.stage, id, target)
           /\ E.nodes[selected] = Editor!Redirected(source, target, id)
           /\ \A m \in DOMAIN D.nodes \ {selected} : E.nodes[m] = D.nodes[m]
           /\ E.stages = D.stages
      BY <1>5, AddedBehind
    <2> HIDE DEF E
    <2>2. \A node, old : node.stage = old.stage => Graph!BypassTo(E, node) = Graph!BypassTo(D, old)
      BY <2>1 DEF Graph!BypassTo
    <2>3. /\ \A x \in U(selected) : x \in T(selected) \/ x = id
          /\ \A x \in T(selected) : x \in U(selected) \/ (x = target /\ id \in U(selected))
          /\ id \in U(selected)
      <3> DEFINE new == E.nodes[selected]
      <3>1. source \in Written /\ new = Editor!Redirected(source, target, id)
        BY <1>1, <2>1
      <3>2. Proper(target) /\ Proper(id)
        BY <1>2, <2>1
      <3> HIDE DEF new, source
      <3>3. new.stage = source.stage
        BY <3>1, <3>2, StageKept
      <3>4. Graph!BypassTo(E, new) = Graph!BypassTo(D, source)
        BY <2>2, <3>3
      <3>5. Turns(D, E, source, new, target, id)
        BY <3>1, <3>2, <3>4, Rerouted
      <3>6. QED
        BY <2>1, <3>5 DEF new, source, Turns
    <2>4. ASSUME NEW m \in DOMAIN D.nodes \ {selected}
          PROVE  U(m) = T(m)
      <3>1. E.nodes[m] = D.nodes[m]
        BY <2>1
      <3>2. Graph!BypassTo(E, D.nodes[m]) = Graph!BypassTo(D, D.nodes[m])
        BY <2>2
      <3>3. QED
        BY <3>1, <3>2, OwnTargets
    <2>5. target \in U(id) /\ U(id) \subseteq DOMAIN D.nodes \cup {id}
      <3> DEFINE new == E.nodes[id]
      <3>1. /\ new.stage = source.stage /\ target \in Own(new)
            /\ Own(new) \subseteq {target, id, ""}
        <4>1. Proper(target) /\ new = Editor!Fresh(D, type, source.stage, id, target)
          BY <1>2, <2>1
        <4> HIDE DEF new
        <4>2. LeadsTo(new, source.stage, id, target)
          BY <4>1, FreshLeads
        <4>3. QED
          BY <4>2 DEF LeadsTo
      <3> HIDE DEF new
      <3>2. Graph!BypassTo(E, new) \in DOMAIN D.nodes \cup {""}
        BY <1>3, <2>2, <3>1
      <3>3. Graph!WorkflowTargets(E, new) = (Own(new) \cup {Graph!BypassTo(E, new)}) \ {""}
        BY OwnTargets, Zenon
      <3>4. QED
        BY <1>2, <2>1, <3>1, <3>2, <3>3 DEF new
    <2> HIDE DEF T, U
    <2>6. Inserted(D, E, id, target)
      <3>1. ASSUME NEW m \in DOMAIN D.nodes
            PROVE  /\ \A x \in U(m) : x \in T(m) \/ x = id
                   /\ \A x \in T(m) : x \in U(m) \/ (x = target /\ id \in U(m))
        BY <2>3, <2>4
      <3>2. QED
        BY <2>1, <2>3, <2>5, <3>1 DEF Inserted, T, U
    <2>7. QED
      BY <2>1, <2>6, InsertedConnects DEF E
  <1>6. QED
    BY <1>4, <1>5

-----------------------------------------------------------------------------
(***************************************************************************)
(* The activities.  The inductive invariant is WorkerIInv: the trees       *)
(* during a restore, for every number of repositories.                     *)
(***************************************************************************)

(* A restore that nothing disturbs: no script writes beside it, and no     *)
(* compensation has failed.                                                *)
Restoring == child.kind = "restore_checkpoint" /\ child.sound

(* The trees before the restore, while it replaces them, while it puts     *)
(* them back, and at its end.                                              *)
Undivided ==
    /\ child.phase = "run" => child.kind = "script"
    /\ child.phase = "capture" => child.left = Repos
    /\ Restoring =>
         /\ ~ stray
         /\ child.phase = "capture" => tree = child.saved
         /\ child.phase = "apply" => \A r \in Repos \ child.left : tree[r] = child.goal[r]
         /\ child.phase = "undo" => \A r \in Repos \ child.left : tree[r] = child.saved[r]
         /\ child.phase = "done" => tree = IF child.ok THEN child.goal ELSE child.saved

WorkerIInv == WorkerTypeOK /\ Undivided

-----------------------------------------------------------------------------
(***************************************************************************)
(* Types.                                                                  *)
(***************************************************************************)

LEMMA WorkerTyped ==
  ASSUME WorkerTypeOK
  PROVE  /\ tracked \in Ticket /\ loop \in Loop /\ child \in Child /\ tree \in Trees
         /\ stray \in BOOLEAN /\ faults \in Nat /\ issued \in Nat
         /\ issued \in 0..MaxLeases /\ faults \in 0..MaxFaults
         /\ Fresh \in Trees /\ NoChild \in Child
         /\ NoChild.phase = "none" /\ NoChild.kind = "script"
         /\ child.saved \in Trees /\ child.goal \in Trees
         /\ tracked.checkpoints \in Seq(Trees)
         /\ Len(tracked.checkpoints) <= MaxCheckpoints
         /\ 0 \in 0..MaxLeases
  <1>1. Fresh \in Trees
    BY DEF Fresh, Trees, Contents, Versions
  <1>2. NoChild \in Child /\ NoChild.phase = "none" /\ NoChild.kind = "script"
    BY <1>1 DEF NoChild, Child, Kinds
  <1>3. tracked.checkpoints \in Seq(Trees) /\ Len(tracked.checkpoints) <= MaxCheckpoints
    <2>1. tracked.checkpoints \in BoundedSeq(Trees, MaxCheckpoints)
      BY DEF WorkerTypeOK, Ticket
    <2>2. PICK n \in 0..MaxCheckpoints : tracked.checkpoints \in [1..n -> Trees]
      BY <2>1 DEF BoundedSeq, SeqOf
    <2>3. QED
      BY <2>2, WorkerBoundAssumption
  <1>4. issued \in Nat /\ faults \in Nat /\ 0 \in 0..MaxLeases
    BY WorkerBoundAssumption DEF WorkerTypeOK
  <1>5. QED
    BY <1>1, <1>2, <1>3, <1>4 DEF WorkerTypeOK, Child

(* A step of the loop leaves the activity alone, but for its abort.        *)
LEMMA LoopKeeps ==
  ASSUME WorkerIInv, tracked' \in Ticket, issued' \in 0..MaxLeases, loop' \in Loop,
         faults' \in 0..MaxFaults, tree' = tree, stray' = stray,
         child' \in {child, [child EXCEPT !.aborted = TRUE]}
  PROVE  WorkerIInv'
  <1>1. /\ child' \in Child /\ child'.phase = child.phase /\ child'.kind = child.kind
        /\ child'.ok = child.ok /\ child'.sound = child.sound /\ child'.goal = child.goal
        /\ child'.saved = child.saved /\ child'.left = child.left
    BY WorkerTyped DEF WorkerIInv, Child
  <1>2. QED
    BY <1>1 DEF WorkerIInv, WorkerTypeOK, Undivided, Restoring

(* Without an activity there is nothing to keep.                           *)
LEMMA NoneKeeps ==
  ASSUME WorkerIInv, tracked' \in Ticket, issued' \in 0..MaxLeases, loop' \in Loop,
         faults' \in 0..MaxFaults, tree' = tree, stray' \in BOOLEAN, child' = NoChild
  PROVE  WorkerIInv'
  BY WorkerTyped DEF WorkerIInv, WorkerTypeOK, Undivided, Restoring

LEMMA ReleasedTyped ==
  ASSUME WorkerTypeOK, NEW node \in Kinds
  PROVE  Released(node) \in Ticket
  BY WorkerTyped DEF Released, Ticket

LEMMA GoTyped ==
  ASSUME WorkerTypeOK, NEW pc \in {"idle", "fetch", "watch", "abandon", "stop", "ack", "final",
                             "upload", "record", "report", "down"}, Go(pc)
  PROVE  loop' \in Loop
  BY WorkerTyped DEF Go, Loop

LEMMA RecordingTyped ==
  ASSUME WorkerTypeOK, Len(tracked.checkpoints) < MaxCheckpoints, NEW s \in Trees
  PROVE  Recording(s) \in Ticket
  <1> DEFINE c == Append(tracked.checkpoints, s)
  <1>1. c \in Seq(Trees) /\ Len(c) = Len(tracked.checkpoints) + 1
    BY WorkerTyped
  <1>2. Len(c) \in 0..MaxCheckpoints
    BY <1>1, WorkerTyped, WorkerBoundAssumption
  <1> HIDE DEF c
  <1>3. c \in BoundedSeq(Trees, MaxCheckpoints)
    <2>1. c \in [1..Len(c) -> Trees]
      BY <1>1, LenProperties
    <2>2. QED
      BY <1>2, <2>1 DEF BoundedSeq, SeqOf
  <1>4. [tracked EXCEPT !.checkpoints = c] \in Ticket
    BY <1>3, WorkerTyped DEF Ticket
  <1>5. QED
    BY <1>4 DEF Recording, c

-----------------------------------------------------------------------------
(***************************************************************************)
(* Steps of the loop, the tracker and the operator.                        *)
(***************************************************************************)

LEMMA ClaimKeeps ==
  ASSUME WorkerIInv, Claim
  PROVE  WorkerIInv'
  <1>1. WorkerTypeOK /\ issued + 1 \in 0..MaxLeases
    BY WorkerTyped, WorkerBoundAssumption DEF Claim, WorkerIInv
  <1>2. tracked' \in Ticket /\ loop' \in Loop /\ issued' \in 0..MaxLeases
    BY <1>1, WorkerTyped DEF Claim, Ticket, Loop
  <1>3. faults' \in 0..MaxFaults /\ tree' = tree /\ stray' = stray /\ child' = child
    BY <1>1, WorkerTyped DEF Claim
  <1>4. QED
    BY <1>2, <1>3, LoopKeeps

LEMMA WatchKeeps ==
  ASSUME WorkerIInv, Watch
  PROVE  WorkerIInv'
  <1>1. WorkerTypeOK /\ UNCHANGED <<tracked, issued, tree, stray, faults>>
    BY DEF Watch, WorkerIInv
  <1>2. child' \in {child, [child EXCEPT !.aborted = TRUE]} /\ loop' \in Loop
    BY <1>1, GoTyped DEF Watch
  <1>3. QED
    BY <1>1, <1>2, WorkerTyped, LoopKeeps

LEMMA PlainKeeps ==
  ASSUME WorkerIInv, Stopped \/ Final \/ Upload \/ Abort \/ Restart
  PROVE  WorkerIInv'
  <1>1. WorkerTypeOK /\ UNCHANGED <<issued, tree, stray, faults>>
        /\ child' \in {child, [child EXCEPT !.aborted = TRUE]}
    BY DEF Stopped, Final, Upload, Abort, Restart, WorkerIInv
  <1>2. loop' \in Loop
    BY <1>1, GoTyped, WorkerTyped DEF Stopped, Final, Upload, Abort, Restart, Leave
  <1>3. tracked' \in Ticket
    <2>1. CASE Upload
      <3>1. tracked' = tracked \/ \E r \in Pending : tracked' = [tracked EXCEPT !.bundles = @ \cup {r}]
        BY <2>1 DEF Upload
      <3>2. Pending \subseteq Repos
        BY DEF Pending
      <3>3. QED
        BY <1>1, <3>1, <3>2, WorkerTyped DEF Ticket
    <2>2. CASE Stopped \/ Final \/ Abort \/ Restart
      BY <1>1, <2>2, WorkerTyped DEF Stopped, Final, Abort, Restart
    <2>3. QED
      BY <2>1, <2>2
  <1>4. QED
    BY <1>1, <1>2, <1>3, WorkerTyped, LoopKeeps

LEMMA AnswerKeeps ==
  ASSUME WorkerIInv, Acknowledge \/ Report \/ Record
  PROVE  WorkerIInv'
  <1>1. WorkerTypeOK /\ UNCHANGED <<issued, child, tree, stray, faults>>
    BY DEF Acknowledge, Report, Record, WorkerIInv
  <1>2. loop' \in Loop
    BY <1>1, GoTyped DEF Acknowledge, Report, Record, Leave
  <1>3. CASE Acknowledge \/ Report
    <2>1. tracked' = tracked \/ \E node \in Kinds : tracked' = Released(node)
      BY <1>3 DEF Acknowledge, Report
    <2>2. tracked' \in Ticket
      BY <1>1, <2>1, WorkerTyped, ReleasedTyped
    <2>3. QED
      BY <1>1, <1>2, <2>2, WorkerTyped, LoopKeeps
  <1>4. CASE Record
    <2>1. tracked' = tracked
          \/ (tracked' = Recording(child.saved) /\ Len(tracked.checkpoints) < MaxCheckpoints)
      BY <1>4 DEF Record
    <2>2. tracked' \in Ticket
      BY <1>1, <2>1, WorkerTyped, RecordingTyped
    <2>3. QED
      BY <1>1, <1>2, <2>2, WorkerTyped, LoopKeeps
  <1>5. QED
    BY <1>3, <1>4

LEMMA RequestFailsKeeps ==
  ASSUME WorkerIInv, RequestFails
  PROVE  WorkerIInv'
  <1>1. WorkerTypeOK /\ UNCHANGED <<issued, child, tree, stray>> /\ faults + 1 \in 0..MaxFaults
        /\ faults' = faults + 1
    BY WorkerTyped, WorkerBoundAssumption DEF RequestFails, WorkerIInv
  <1>2. loop' \in Loop
    BY <1>1, GoTyped DEF RequestFails
  <1>3. \/ tracked' = tracked \/ tracked' = Released(tracked.node)
        \/ (tracked' = Recording(child.saved) /\ Len(tracked.checkpoints) < MaxCheckpoints)
    BY DEF RequestFails
  <1>4. tracked.node \in Kinds
    BY <1>1, WorkerTyped DEF Ticket
  <1>5. tracked' \in Ticket
    BY <1>1, <1>3, <1>4, WorkerTyped, ReleasedTyped, RecordingTyped
  <1>6. QED
    BY <1>1, <1>2, <1>5, WorkerTyped, LoopKeeps

LEMMA OperatorKeeps ==
  ASSUME WorkerIInv, Interrupt \/ Lose
  PROVE  WorkerIInv'
  <1>1. WorkerTypeOK /\ UNCHANGED <<issued, loop, child, tree, stray, faults>> /\ tracked.node \in Kinds
    BY WorkerTyped DEF Interrupt, Lose, WorkerIInv, Ticket
  <1>2. tracked' \in Ticket
    BY <1>1, WorkerTyped, ReleasedTyped DEF Interrupt, Lose, Ticket
  <1>3. QED
    BY <1>1, <1>2, WorkerTyped, LoopKeeps

LEMMA ForgetKeeps ==
  ASSUME WorkerIInv, Forget \/ Crash
  PROVE  WorkerIInv'
  <1>1. WorkerTypeOK /\ UNCHANGED <<tracked, issued, tree>> /\ child' = NoChild
    BY DEF Forget, Crash, WorkerIInv
  <1>2. loop' \in Loop /\ stray' \in BOOLEAN
    BY <1>1, GoTyped, WorkerTyped DEF Forget, Crash
  <1>3. faults' \in 0..MaxFaults
    BY <1>1, WorkerTyped, WorkerBoundAssumption DEF Forget, Crash
  <1>4. QED
    BY <1>1, <1>2, <1>3, WorkerTyped, NoneKeeps

LEMMA StartKeeps ==
  ASSUME WorkerIInv, Start
  PROVE  WorkerIInv'
  <1>1. WorkerTypeOK /\ UNCHANGED <<tracked, issued, tree, stray, faults>> /\ Go("watch")
        /\ tracked.node \in Kinds /\ stray \in BOOLEAN
    BY WorkerTyped DEF Start, WorkerIInv, Ticket
  <1>2. loop' \in Loop
    BY <1>1, GoTyped
  <1> DEFINE held == tracked.checkpoints
             goal == IF held = <<>> THEN Fresh ELSE Last(held)
             phase == CASE tracked.node = "script" -> "run"
                        [] tracked.node = "restore_checkpoint" /\ held = <<>> -> "done"
                        [] OTHER -> "capture"
  <1>3. goal \in Trees
    <2>1. held # <<>> => held[Len(held)] \in Trees
      BY <1>1, WorkerTyped
    <2>2. QED
      BY <1>1, <2>1, WorkerTyped DEF Last
  <1>4. phase \in {"run", "capture", "done"}
        /\ (phase = "run" => tracked.node = "script")
    OBVIOUS
  <1>5. child' = [NoChild EXCEPT !.kind = tracked.node, !.left = Repos, !.sound = ~stray,
                                 !.saved = tree, !.goal = goal, !.phase = phase]
    BY DEF Start
  <1> HIDE DEF goal, phase, held
  <1>6. /\ child' \in Child /\ child'.phase = phase /\ child'.kind = tracked.node
        /\ child'.left = Repos /\ child'.saved = tree /\ child'.sound = ~stray
        /\ child'.ok = FALSE
    BY ZenonT(60), <1>1, <1>3, <1>4, <1>5, WorkerTyped DEF NoChild, Child
  <1>7. Undivided'
    BY <1>1, <1>4, <1>6 DEF Undivided, Restoring
  <1>8. QED
    BY <1>1, <1>2, <1>6, <1>7, WorkerTyped DEF WorkerIInv, WorkerTypeOK

-----------------------------------------------------------------------------
(***************************************************************************)
(* Steps of the activity.                                                  *)
(***************************************************************************)

LEMMA EndTyped ==
  ASSUME WorkerTypeOK, NEW ok \in BOOLEAN
  PROVE  /\ End(ok) \in Child /\ End(ok).phase = "done" /\ End(ok).ok = ok
         /\ End(ok).kind = child.kind /\ End(ok).sound = child.sound
         /\ End(ok).goal = child.goal /\ End(ok).saved = child.saved
         /\ End(ok).aborted = child.aborted /\ End(ok).left = {}
  BY WorkerTyped DEF End, Child

(* What an activity does to its own state and to the trees.                *)
LEMMA WorkKeeps ==
  ASSUME WorkerIInv, UNCHANGED <<tracked, issued, loop>>, faults' \in 0..MaxFaults,
         child' \in Child, tree' \in Trees, stray' \in BOOLEAN, Undivided'
  PROVE  WorkerIInv'
  BY DEF WorkerIInv, WorkerTypeOK

LEMMA WroteTyped ==
  ASSUME WorkerTypeOK, NEW r \in Repos, NEW v \in Contents, tree' = [tree EXCEPT ![r] = v]
  PROVE  /\ tree' \in Trees /\ tree'[r] = v
         /\ \A q \in Repos \ {r} : tree'[q] = tree[q]
  BY WorkerTyped DEF Trees

LEMMA ScriptKeeps ==
  ASSUME WorkerIInv, ScriptWrites \/ ScriptEnds \/ StrayWrites \/ StrayEnds
  PROVE  WorkerIInv'
  <1>1. WorkerTypeOK /\ UNCHANGED <<tracked, issued, loop, faults>>
    BY DEF ScriptWrites, ScriptEnds, StrayWrites, StrayEnds, Activity, WorkerIInv
  <1>2. ASSUME NEW r \in Repos, NEW v \in Versions, tree' = [tree EXCEPT ![r] = v]
        PROVE  tree' \in Trees
    BY <1>1, <1>2, WroteTyped DEF Contents
  <1>3. CASE ScriptWrites
    <2>1. UNCHANGED <<child, stray>> /\ child.kind = "script"
      BY <1>3 DEF ScriptWrites, Doing, WorkerIInv, Undivided
    <2>2. Undivided'
      BY <2>1, <1>3 DEF Undivided, Restoring, ScriptWrites, Doing
    <2>3. QED
      BY <1>1, <1>2, <1>3, <2>1, <2>2, WorkerTyped, WorkKeeps DEF ScriptWrites
  <1>4. CASE ScriptEnds
    <2>1. child' \in {End(TRUE), End(FALSE)} /\ child.kind = "script" /\ stray' \in {stray, TRUE}
          /\ tree' = tree
      BY <1>4 DEF ScriptEnds, Doing, WorkerIInv, Undivided
    <2>2. child' \in Child /\ child'.kind = "script" /\ child'.phase = "done"
      BY <1>1, <2>1, EndTyped
    <2>3. Undivided'
      BY <2>2 DEF Undivided, Restoring
    <2>4. QED
      BY <1>1, <2>1, <2>2, <2>3, WorkerTyped, WorkKeeps
  <1>5. CASE StrayWrites
    <2>1. UNCHANGED <<child, stray>> /\ stray
      BY <1>5 DEF StrayWrites
    <2>2. Undivided'
      BY <2>1 DEF WorkerIInv, Undivided, Restoring
    <2>3. QED
      BY <1>1, <1>2, <1>5, <2>1, <2>2, WorkerTyped, WorkKeeps DEF StrayWrites
  <1>6. CASE StrayEnds
    <2>1. UNCHANGED <<child, tree>> /\ stray' = FALSE
      BY <1>6 DEF StrayEnds
    <2>2. Undivided'
      BY <2>1 DEF WorkerIInv, Undivided, Restoring
    <2>3. QED
      BY <1>1, <2>1, <2>2, WorkerTyped, WorkKeeps
  <1>7. QED
    BY <1>3, <1>4, <1>5, <1>6

LEMMA CaptureKeeps ==
  ASSUME WorkerIInv, Capture \/ CaptureFails
  PROVE  WorkerIInv'
  <1>1. WorkerTypeOK /\ UNCHANGED <<tracked, issued, loop, faults, tree, stray>>
        /\ child.phase = "capture" /\ child.left = Repos
    BY DEF Capture, CaptureFails, Activity, Doing, WorkerIInv, Undivided
  <1>2. CASE child' = End(FALSE)
    <2>1. /\ child' \in Child /\ child'.phase = "done" /\ ~ child'.ok
          /\ child'.kind = child.kind /\ child'.sound = child.sound /\ child'.saved = child.saved
      BY <1>1, <1>2, EndTyped
    <2>2. Undivided'
      BY <1>1, <2>1 DEF WorkerIInv, Undivided, Restoring
    <2>3. QED
      BY <1>1, <2>1, <2>2, WorkerTyped, WorkKeeps
  <1>3. CASE child.kind = "checkpoint" /\ child' = [End(TRUE) EXCEPT !.saved = tree]
    <2>1. /\ child' \in Child /\ child'.phase = "done" /\ child'.kind = child.kind
      BY <1>1, <1>3, EndTyped, WorkerTyped DEF Child
    <2>2. Undivided'
      BY <1>3, <2>1 DEF Undivided, Restoring
    <2>3. QED
      BY <1>1, <2>1, <2>2, WorkerTyped, WorkKeeps
  <1>4. CASE child' = [child EXCEPT !.phase = "apply", !.saved = tree]
    <2>1. /\ child' \in Child /\ child'.phase = "apply" /\ child'.left = Repos
          /\ child'.kind = child.kind /\ child'.sound = child.sound
      BY <1>1, <1>4, WorkerTyped DEF Child
    <2>2. Undivided'
      BY <1>1, <2>1 DEF WorkerIInv, Undivided, Restoring
    <2>3. QED
      BY <1>1, <2>1, <2>2, WorkerTyped, WorkKeeps
  <1>5. QED
    BY <1>2, <1>3, <1>4 DEF Capture, CaptureFails

LEMMA CleanKeeps ==
  ASSUME WorkerIInv, Clean
  PROVE  WorkerIInv'
  <1>1. WorkerTypeOK /\ UNCHANGED <<tracked, issued, loop, faults, child, stray>>
        /\ child.phase = "apply" /\ "cleaned" \in Contents /\ child.left \subseteq Repos
    BY WorkerTyped DEF Clean, Activity, Doing, WorkerIInv, Child, Contents
  <1>2. PICK r \in child.left : tree' = [tree EXCEPT ![r] = "cleaned"]
    BY DEF Clean
  <1>3. tree' \in Trees /\ \A q \in Repos \ {r} : tree'[q] = tree[q]
    BY <1>1, <1>2, WroteTyped
  <1>4. Undivided'
    BY <1>1, <1>2, <1>3 DEF WorkerIInv, Undivided, Restoring
  <1>5. QED
    BY <1>1, <1>3, <1>4, WorkerTyped, WorkKeeps

(* Trees that agree on every repository are the same.                      *)
LEMMA SameTrees ==
  ASSUME NEW s \in Trees, NEW t \in Trees, \A r \in Repos : s[r] = t[r]
  PROVE  s = t
  BY DEF Trees

LEMMA ApplyKeeps ==
  ASSUME WorkerIInv, Apply
  PROVE  WorkerIInv'
  <1>1. WorkerTypeOK /\ UNCHANGED <<tracked, issued, loop, faults, stray>>
        /\ child.phase = "apply" /\ child.left \subseteq Repos
    BY WorkerTyped DEF Apply, Activity, Doing, WorkerIInv, Child
  <1>2. PICK r \in child.left :
          /\ tree' = [tree EXCEPT ![r] = child.goal[r]]
          /\ child' = IF child.left = {r} THEN End(TRUE) ELSE [child EXCEPT !.left = @ \ {r}]
    BY DEF Apply
  <1>3. child.goal[r] \in Contents
    BY <1>1, <1>2, WorkerTyped DEF Trees
  <1>4. tree' \in Trees /\ tree'[r] = child.goal[r] /\ \A q \in Repos \ {r} : tree'[q] = tree[q]
    BY <1>1, <1>2, <1>3, WroteTyped
  <1>5. Restoring => \A q \in Repos \ (child.left \ {r}) : tree'[q] = child.goal[q]
    BY <1>1, <1>4 DEF WorkerIInv, Undivided
  <1>6. CASE child.left = {r}
    <2>1. /\ child' \in Child /\ child'.phase = "done" /\ child'.ok
          /\ child'.kind = child.kind /\ child'.sound = child.sound /\ child'.goal = child.goal
      BY <1>1, <1>2, <1>6, EndTyped
    <2>2. Restoring => tree' = child.goal
      BY <1>1, <1>4, <1>5, <1>6, SameTrees, WorkerTyped
    <2>3. Undivided'
      BY <1>1, <2>1, <2>2 DEF WorkerIInv, Undivided, Restoring
    <2>4. QED
      BY <1>1, <1>4, <2>1, <2>3, WorkerTyped, WorkKeeps
  <1>7. CASE child.left # {r}
    <2>1. /\ child' \in Child /\ child'.phase = "apply" /\ child'.left = child.left \ {r}
          /\ child'.kind = child.kind /\ child'.sound = child.sound /\ child'.goal = child.goal
      BY <1>1, <1>2, <1>7, WorkerTyped DEF Child
    <2>2. Undivided'
      BY <1>1, <1>5, <2>1 DEF WorkerIInv, Undivided, Restoring
    <2>3. QED
      BY <1>1, <1>4, <2>1, <2>2, WorkerTyped, WorkKeeps
  <1>8. QED
    BY <1>6, <1>7

LEMMA ApplyFailsKeeps ==
  ASSUME WorkerIInv, ApplyFails
  PROVE  WorkerIInv'
  <1>1. WorkerTypeOK /\ UNCHANGED <<tracked, issued, loop, faults, tree, stray>>
        /\ child.phase = "apply" /\ child' = [child EXCEPT !.phase = "undo", !.left = Repos]
    BY DEF ApplyFails, Activity, Doing, WorkerIInv
  <1>2. /\ child' \in Child /\ child'.phase = "undo" /\ child'.left = Repos
        /\ child'.kind = child.kind /\ child'.sound = child.sound
    BY <1>1, WorkerTyped DEF Child
  <1>3. Undivided'
    BY <1>1, <1>2 DEF WorkerIInv, Undivided, Restoring
  <1>4. QED
    BY <1>1, <1>2, <1>3, WorkerTyped, WorkKeeps

LEMMA UndoKeeps ==
  ASSUME WorkerIInv, Undo
  PROVE  WorkerIInv'
  <1>1. WorkerTypeOK /\ UNCHANGED <<tracked, issued, loop, stray>>
        /\ child.phase = "undo" /\ child.left \subseteq Repos
    BY WorkerTyped DEF Undo, Doing, WorkerIInv, Child
  <1>2. PICK r \in child.left, works \in BOOLEAN :
          /\ child' = [IF child.left = {r} THEN End(FALSE) ELSE [child EXCEPT !.left = @ \ {r}]
                       EXCEPT !.sound = @ /\ works]
          /\ IF works
             THEN tree' = [tree EXCEPT ![r] = child.saved[r]] /\ UNCHANGED faults
             ELSE /\ faults < MaxFaults /\ faults' = faults + 1
                  /\ tree' \in {tree, [tree EXCEPT ![r] = "cleaned"]}
    BY DEF Undo
  <1>3. PICK new : new = IF child.left = {r} THEN End(FALSE) ELSE [child EXCEPT !.left = @ \ {r}]
    OBVIOUS
  <1>4. /\ new \in Child /\ new.kind = child.kind /\ new.sound = child.sound
        /\ new.saved = child.saved /\ new.left = child.left \ {r} /\ ~ (new.phase = "done" /\ new.ok)
        /\ new.phase \in {"undo", "done"} /\ (new.phase = "done" => child.left = {r})
    <2>1. CASE child.left = {r}
      BY <1>1, <1>3, <2>1, EndTyped
    <2>2. CASE child.left # {r}
      BY <1>1, <1>3, <2>2, WorkerTyped DEF Child
    <2>3. QED
      BY <2>1, <2>2
  <1>5. PICK sound \in BOOLEAN : sound = (child.sound /\ works)
    BY <1>2
  <1>6. child' = [new EXCEPT !.sound = sound]
    BY <1>2, <1>3, <1>4, <1>5
  <1>7. /\ child' \in Child /\ child'.kind = child.kind /\ child'.sound = sound
        /\ child'.saved = child.saved /\ child'.left = child.left \ {r}
        /\ child'.phase = new.phase /\ child'.ok = new.ok
    BY <1>4, <1>5, <1>6 DEF Child
  <1>8. faults' \in 0..MaxFaults
    BY <1>1, <1>2, WorkerTyped, WorkerBoundAssumption
  <1>9. CASE works
    <2>1. child.saved[r] \in Contents
      BY <1>1, <1>2, WorkerTyped DEF Trees
    <2>2. tree' \in Trees /\ tree'[r] = child.saved[r] /\ \A q \in Repos \ {r} : tree'[q] = tree[q]
      BY <1>1, <1>2, <1>9, <2>1, WroteTyped
    <2>3. Restoring => \A q \in Repos \ (child.left \ {r}) : tree'[q] = child.saved[q]
      BY <1>1, <2>2 DEF WorkerIInv, Undivided
    <2>4. Restoring /\ new.phase = "done" => tree' = child.saved
      BY <1>1, <1>4, <2>2, <2>3, SameTrees, WorkerTyped
    <2>5. Undivided'
      BY <1>1, <1>4, <1>5, <1>7, <2>3, <2>4 DEF WorkerIInv, Undivided, Restoring
    <2>6. QED
      BY <1>1, <1>7, <1>8, <2>2, <2>5, WorkerTyped, WorkKeeps
  <1>10. CASE ~ works
    <2>1. tree' \in Trees
      BY <1>1, <1>2, <1>10, WorkerTyped, WroteTyped DEF Contents
    <2>2. Undivided'
      BY <1>4, <1>5, <1>7, <1>10 DEF Undivided, Restoring
    <2>3. QED
      BY <1>1, <1>7, <1>8, <2>1, <2>2, WorkerTyped, WorkKeeps
  <1>11. QED
    BY <1>9, <1>10

-----------------------------------------------------------------------------
(***************************************************************************)
(* The invariant.                                                          *)
(***************************************************************************)

LEMMA WorkerInitially == WorkerInit => WorkerIInv
  <1> SUFFICES ASSUME WorkerInit PROVE WorkerIInv
    OBVIOUS
  <1>1. Fresh \in Trees
    BY DEF Fresh, Trees, Contents, Versions
  <1>2. child \in Child /\ child.phase = "none" /\ child.kind = "script"
    BY <1>1 DEF WorkerInit, NoChild, Child, Kinds
  <1>3. <<>> \in BoundedSeq(Trees, MaxCheckpoints)
    <2>1. 0 \in 0..MaxCheckpoints /\ <<>> \in [1..0 -> Trees]
      BY WorkerBoundAssumption
    <2>2. QED
      BY <2>1 DEF BoundedSeq, SeqOf
  <1>4. 0 \in 0..MaxLeases /\ 0 \in 0..MaxFaults
    BY WorkerBoundAssumption
  <1>5. tracked \in Ticket /\ loop \in Loop
    BY <1>3, <1>4 DEF WorkerInit, Ticket, Loop
  <1>6. WorkerTypeOK
    BY <1>1, <1>2, <1>4, <1>5 DEF WorkerInit, WorkerTypeOK
  <1>7. Undivided
    BY <1>2 DEF Undivided, Restoring
  <1>8. QED
    BY <1>6, <1>7 DEF WorkerIInv

LEMMA WorkerNextStep == WorkerIInv /\ [WorkerNext]_vars => WorkerIInv'
  <1> SUFFICES ASSUME WorkerIInv, [WorkerNext]_vars PROVE WorkerIInv'
    OBVIOUS
  <1>1. CASE Loops
    BY <1>1, ClaimKeeps, StartKeeps, WatchKeeps, PlainKeeps, AnswerKeeps, ForgetKeeps DEF Loops
  <1>2. CASE Works
    BY <1>2, ScriptKeeps, CaptureKeeps, ApplyKeeps, UndoKeeps, ApplyFailsKeeps DEF Works
  <1>3. CASE ScriptWrites \/ StrayWrites \/ StrayEnds \/ CaptureFails \/ Clean \/ ApplyFails
    BY <1>3, ScriptKeeps, CaptureKeeps, CleanKeeps, ApplyFailsKeeps
  <1>4. CASE RequestFails \/ Crash \/ Interrupt \/ Lose
    BY <1>4, RequestFailsKeeps, ForgetKeeps, OperatorKeeps
  <1>5. CASE UNCHANGED vars
    BY <1>5 DEF vars, WorkerIInv, WorkerTypeOK, Undivided, Restoring
  <1>6. QED
    BY <1>1, <1>2, <1>3, <1>4, <1>5 DEF WorkerNext

LEMMA WorkerInvariant == WorkerSpec => []WorkerIInv
  BY WorkerInitially, WorkerNextStep, PTL DEF WorkerSpec

(* A restore that has ended has replaced every repository or none, unless  *)
(* its compensation failed as well or an old script still writes: aborts   *)
(* and errors at any point leave no ticket half restored.                  *)
THEOREM RestoredWhole == WorkerSpec => []RestoreAtomic
  <1>1. WorkerIInv => RestoreAtomic
    BY DEF WorkerIInv, Undivided, Restoring, RestoreAtomic, Finished
  <1>2. QED
    BY <1>1, WorkerInvariant, PTL

=============================================================================
