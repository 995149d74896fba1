-------------------------- MODULE TicketLease_proofs --------------------------
(***************************************************************************)
(* Theorems about TicketLease, for every set of tickets and supervisors,   *)
(* every workflow graph and every choice of the bounds.                    *)
(***************************************************************************)
EXTENDS TicketLease, FiniteSetTheorems, WellFoundedInduction, TLAPS

(***************************************************************************)
(* What the workflow operations return.                                    *)
(***************************************************************************)
LEMMA NoOwnerTyped == NoOwner \in Owners
  BY DEF Owners

LEMMA NoExecTyped == NoExec \in Execution /\ NoExec.lease = 0
  BY GraphAssumption, BoundAssumption DEF NoExec, Execution, Interrupts

LEMMA FieldsTyped ==
  ASSUME NEW t \in Frontmatter
  PROVE  /\ t.exec \in Execution /\ t.exec.lease \in 0..MaxLeases
         /\ t.exec.node \in Nodes /\ t.exec.to \in Nodes
         /\ t.exec.fresh \in BOOLEAN /\ t.exec.interrupt \in Interrupts
         /\ t.node \in Nodes /\ t.owner \in Owners
  BY DEF Frontmatter, Execution

LEMMA SaturateTyped ==
  ASSUME NEW cap \in Nat, NEW k \in 0..cap
  PROVE  Saturate(k, cap) \in 0..cap
  BY DEF Saturate

LEMMA ProjectionTyped ==
  ASSUME NEW n \in Nodes
  PROVE  Projection(n) \in Status
  BY GraphAssumption DEF Projection, Status, Terminal

LEMMA PlaceTyped ==
  ASSUME NEW t \in Frontmatter
  PROVE  /\ Place(t) \in Frontmatter
         /\ Place(t).exec = t.exec /\ Place(t).owner = t.owner
  <1> DEFINE d == Kind[t.node] \in Terminal
             s == Projection(t.node)
             u == [t EXCEPT !.status = s, !.done = d]
  <1>1. s \in Status
    BY ProjectionTyped DEF Frontmatter
  <1>2. d \in BOOLEAN
    OBVIOUS
  <1> HIDE DEF d, s
  <1>3. u \in Frontmatter /\ u.exec = t.exec /\ u.owner = t.owner
    BY <1>1, <1>2 DEF Frontmatter
  <1>4. Place(t) = IF Bounded(t) THEN [t EXCEPT !.status = "blocked"] ELSE u
    BY DEF Place, d, s
  <1>5. CASE Bounded(t)
    BY <1>4, <1>5 DEF Frontmatter, Status
  <1>6. QED
    BY <1>3, <1>4, <1>5

LEMMA MoveToTyped ==
  ASSUME NEW t \in Frontmatter, NEW n \in Nodes
  PROVE  /\ MoveTo(t, n) \in Frontmatter
         /\ MoveTo(t, n).exec = t.exec /\ MoveTo(t, n).owner = t.owner
  <1>1. MaxMoves + 1 \in Nat
    BY BoundAssumption
  <1>2. t.moves \in 0..(MaxMoves + 1)
    BY DEF Frontmatter
  <1>3. Saturate(t.moves, MaxMoves + 1) \in 0..(MaxMoves + 1)
    BY <1>1, <1>2, SaturateTyped
  <1>4. QED
    BY <1>3 DEF MoveTo, Frontmatter

LEMMA BypassTyped ==
  ASSUME NEW t \in Frontmatter, Stage[t.node] \in t.off
  PROVE  Bypass[Stage[t.node]] \in Nodes
  BY GraphAssumption DEF Frontmatter, Skippable, Stages

LEMMA EnterTyped ==
  ASSUME NEW t \in Frontmatter
  PROVE  /\ Enter(t) \in Frontmatter
         /\ Enter(t).exec = t.exec /\ Enter(t).owner = t.owner
  <1>1. CASE Stage[t.node] \in t.off /\ ~Bounded(t)
    <2>1. Bypass[Stage[t.node]] \in Nodes
      BY <1>1, BypassTyped
    <2>2. Enter(t) = Place(MoveTo(t, Bypass[Stage[t.node]]))
      BY <1>1 DEF Enter
    <2>3. QED
      BY <2>1, <2>2, MoveToTyped, PlaceTyped
  <1>2. CASE ~(Stage[t.node] \in t.off /\ ~Bounded(t))
    BY <1>2, PlaceTyped DEF Enter
  <1>3. QED
    BY <1>1, <1>2

LEMMA TransitionTyped ==
  ASSUME NEW t \in Frontmatter, NEW n \in Nodes
  PROVE  /\ Transition(t, n) \in Frontmatter
         /\ Transition(t, n).exec = t.exec /\ Transition(t, n).owner = t.owner
  BY MoveToTyped, EnterTyped DEF Transition

LEMMA NewTicketTyped ==
  ASSUME NEW off \in SUBSET Skippable
  PROVE  NewTicket(off) \in Frontmatter /\ NewTicket(off).exec = NoExec
  <1> DEFINE z == [n \in Nodes |-> 0]
             t == [status |-> "pending", node |-> Start, done |-> FALSE,
                   owner |-> NoOwner, exec |-> NoExec, losses |-> z, moves |-> 0,
                   open |-> FALSE, over |-> {}, pause |-> NoNode,
                   archived |-> FALSE, off |-> off, callback |-> 0]
  <1>1. z \in [Nodes -> 0..LossLimit]
    BY BoundAssumption
  <1>2. 0 \in 0..(MaxMoves + 1) /\ 0 \in 0..MaxLeases /\ Start \in Nodes
    BY BoundAssumption, GraphAssumption
  <1>3. NewTicket(off) = [Enter(t) EXCEPT !.status = "pending"]
    BY DEF NewTicket
  <1> HIDE DEF z
  <1>4. t \in Frontmatter /\ t.exec = NoExec
    BY <1>1, <1>2, NoExecTyped, NoOwnerTyped DEF Frontmatter, Status
  <1> HIDE DEF t
  <1>5. Enter(t) \in Frontmatter /\ Enter(t).exec = NoExec
    BY <1>4, EnterTyped
  <1>6. QED
    BY <1>3, <1>5 DEF Frontmatter, Status

LEMMA RelocateTyped ==
  ASSUME NEW t \in Frontmatter, NEW n \in Nodes, NEW fresh \in BOOLEAN
  PROVE  /\ Relocate(t, n, fresh) \in Frontmatter
         /\ Relocate(t, n, fresh).exec = t.exec
         /\ Relocate(t, n, fresh).owner = t.owner
  <1> DEFINE z == [k \in Nodes |-> 0]
             u == [t EXCEPT !.node = Start, !.moves = 0, !.off = DefaultOff,
                            !.losses = z, !.over = {}, !.pause = NoNode]
             v == [t EXCEPT !.off = @ \ {Stage[n]}]
  <1>1. z \in [Nodes -> 0..LossLimit]
    BY BoundAssumption
  <1>2. Reinitialize(t) = Enter(u)
    BY DEF Reinitialize
  <1> HIDE DEF z
  <1>3. /\ 0 \in 0..(MaxMoves + 1) /\ {} \in SUBSET Nodes
        /\ Start \in Nodes /\ DefaultOff \in SUBSET Skippable
    BY BoundAssumption, GraphAssumption
  <1>4. u \in Frontmatter /\ u.exec = t.exec /\ u.owner = t.owner
    BY <1>1, <1>3 DEF Frontmatter
  <1>5. v \in Frontmatter /\ v.exec = t.exec /\ v.owner = t.owner
    BY DEF Frontmatter
  <1>6. Relocate(t, n, fresh) = Transition(IF fresh THEN Reinitialize(t) ELSE v, n)
    BY DEF Relocate
  <1> HIDE DEF u, v
  <1>7. QED
    BY <1>2, <1>4, <1>5, <1>6, EnterTyped, TransitionTyped

LEMMA RequeueTyped ==
  ASSUME NEW t \in Frontmatter
  PROVE  Requeue(t) \in Frontmatter /\ Requeue(t).exec = NoExec
  <1> DEFINE n == t.exec.node
             k == Saturate(t.losses[n], LossLimit)
  <1>1. n \in Nodes /\ t.losses[n] \in 0..LossLimit
    BY DEF Frontmatter, Execution
  <1>2. k \in 0..LossLimit
    BY <1>1, BoundAssumption, SaturateTyped
  <1>3. [t.losses EXCEPT ![n] = k] \in [Nodes -> 0..LossLimit]
    BY <1>1, <1>2 DEF Frontmatter
  <1>4. QED
    BY ZenonT(60), <1>1, <1>2, <1>3, NoExecTyped DEF Requeue, Frontmatter, Status

LEMMA ExpireTyped ==
  ASSUME NEW t \in Frontmatter
  PROVE  Expire(t) \in Frontmatter /\ Expire(t).exec = NoExec
  <1> DEFINE e == t.exec
             moved == IF e.interrupt = "move" /\ ~e.fresh
                        THEN Transition(t, e.to) ELSE t
  <1>1. e \in Execution /\ e.to \in Nodes
    BY DEF Frontmatter, Execution
  <1>2. moved \in Frontmatter
    BY <1>1, TransitionTyped
  <1>3. CASE e.interrupt = "none"
    BY <1>3, RequeueTyped DEF Expire
  <1>4. CASE e.interrupt # "none"
    <2> DEFINE p == IF e.interrupt = "cost" THEN e.to ELSE moved.pause
    <2>1. p \in Nodes \cup {NoNode}
      BY <1>1, <1>2 DEF Frontmatter
    <2>2. Expire(t) = [moved EXCEPT !.status = "blocked", !.exec = NoExec,
                                    !.pause = p]
      BY <1>4, Zenon DEF Expire
    <2>3. QED
      BY ZenonT(60), <1>2, <2>1, <2>2, NoExecTyped DEF Frontmatter, Status
  <1>5. QED
    BY <1>3, <1>4

-----------------------------------------------------------------------------
(***************************************************************************)
(* The inductive invariant, of tickets T, runs R and i issued leases: the  *)
(* types, RunMatchesExecution, and that leases not yet issued have no run. *)
(***************************************************************************)
Settled == Outcomes \ {"none", "open"}

Bound(t, T, R, i) ==
    Leased(T[t]) => /\ T[t].exec.lease <= i
                    /\ R[T[t].exec.lease] =
                         [ticket |-> t, node |-> T[t].node, outcome |-> "open"]
                    /\ T[t].exec.node = T[t].node
                    /\ T[t].exec.by = T[t].owner.sup
                    /\ T[t].owner # NoOwner
                    /\ T[t].status \in {"running", "blocked"}

Open(l, T, R) == R[l].outcome = "open" => /\ R[l].ticket \in Tickets
                                          /\ T[R[l].ticket].exec.lease = l

Issued(l, R, i) == IF R[l].outcome = "none"
                     THEN R[l].ticket \notin Tickets
                     ELSE R[l].ticket \in Tickets /\ l <= i

Consistent(T, R, i) ==
    /\ T \in [Tickets -> Frontmatter]
    /\ R \in [Leases -> NodeRun]
    /\ i \in 0..MaxLeases
    /\ \A t \in Tickets : Bound(t, T, R, i)
    /\ \A l \in Leases : Open(l, T, R)
    /\ \A l \in Leases : Issued(l, R, i)

(* A handler that leaves the lease and what it is bound to alone.          *)
KeepsLease(old, new) ==
    /\ new.exec.lease = old.exec.lease
    /\ Leased(old) => /\ new.node = old.node /\ new.owner = old.owner
                      /\ new.exec.node = old.exec.node
                      /\ new.exec.by = old.exec.by
                      /\ new.status \in {"running", "blocked"}

LEMMA KeepStep ==
  ASSUME NEW T, NEW R, NEW i, Consistent(T, R, i),
         NEW t \in Tickets, NEW new \in Frontmatter, KeepsLease(T[t], new)
  PROVE  Consistent([T EXCEPT ![t] = new], R, i)
  <1> DEFINE U == [T EXCEPT ![t] = new]
  <1>1. U \in [Tickets -> Frontmatter]
    BY DEF Consistent
  <1>2. \A u \in Tickets : Bound(u, U, R, i)
    BY DEF Consistent, Bound, KeepsLease, Leased
  <1>3. \A l \in Leases : Open(l, U, R)
    BY DEF Consistent, Open, KeepsLease
  <1>4. QED
    BY <1>1, <1>2, <1>3 DEF Consistent

(* The runs Q after those of ticket t are closed: what was recorded of the *)
(* others stays.                                                           *)
Closes(R, Q, t) ==
    /\ Q \in [Leases -> NodeRun]
    /\ \A l \in Leases : /\ Q[l].ticket = R[l].ticket /\ Q[l].node = R[l].node
                         /\ (Q[l].outcome = "none") <=> (R[l].outcome = "none")
                         /\ R[l].ticket = t => Q[l].outcome # "open"
                         /\ R[l].ticket # t => Q[l] = R[l]

LEMMA EndStep ==
  ASSUME NEW T, NEW R, NEW Q, NEW i, Consistent(T, R, i),
         NEW t \in Tickets, NEW new \in Frontmatter, Closes(R, Q, t), ~Leased(new)
  PROVE  Consistent([T EXCEPT ![t] = new], Q, i)
  <1> DEFINE U == [T EXCEPT ![t] = new]
  <1>1. U \in [Tickets -> Frontmatter] /\ Q \in [Leases -> NodeRun]
    BY DEF Consistent, Closes
  <1>2. \A u \in Tickets : Bound(u, U, Q, i)
    <2> SUFFICES ASSUME NEW u \in Tickets, Leased(U[u]) PROVE Bound(u, U, Q, i)
      BY DEF Bound
    <2>1. u # t /\ U[u] = T[u]
      BY DEF Consistent
    <2>2. Bound(u, T, R, i) /\ T[u].exec.lease \in 0..MaxLeases /\ i \in 0..MaxLeases
      BY FieldsTyped DEF Consistent
    <2> DEFINE m == T[u].exec.lease
    <2>3. m \in Leases
      BY <2>1, <2>2, BoundAssumption DEF Leased, Leases
    <2>4. R[m] = [ticket |-> u, node |-> T[u].node, outcome |-> "open"]
      BY <2>1, <2>2, Zenon DEF Bound
    <2>5. R[m].ticket # t
      BY <2>1, <2>4
    <2>6. Q[m] = R[m]
      BY <2>3, <2>5 DEF Closes
    <2>7. QED
      BY <2>1, <2>2, <2>6, Zenon DEF Bound
  <1>3. \A l \in Leases : Open(l, U, Q)
    <2> SUFFICES ASSUME NEW l \in Leases, Q[l].outcome = "open"
                 PROVE  Q[l].ticket \in Tickets /\ U[Q[l].ticket].exec.lease = l
      BY DEF Open
    <2>1. R[l].ticket # t /\ Q[l] = R[l]
      BY DEF Closes
    <2>2. R[l].ticket \in Tickets /\ T[R[l].ticket].exec.lease = l
      BY <2>1 DEF Consistent, Open
    <2>3. QED
      BY <2>1, <2>2 DEF Consistent
  <1>4. \A l \in Leases : Issued(l, Q, i)
    BY DEF Consistent, Issued, Closes
  <1>5. QED
    BY <1>1, <1>2, <1>3, <1>4 DEF Consistent

LEMMA GrantStep ==
  ASSUME NEW T, NEW R, NEW i, Consistent(T, R, i),
         NEW t \in Tickets, NEW s \in Supervisors, NEW h \in HostNames,
         ~Leased(T[t]), i < MaxLeases
  PROVE  Consistent([T EXCEPT ![t] = Granted(T[t], s, h, i + 1)],
                    [R EXCEPT ![i + 1] = [ticket |-> t, node |-> T[t].node,
                                          outcome |-> "open"]], i + 1)
  <1> DEFINE own == [sup |-> s, host |-> h]
             g == Granted(T[t], s, h, i + 1)
             r == [ticket |-> t, node |-> T[t].node, outcome |-> "open"]
             U == [T EXCEPT ![t] = g]
             Q == [R EXCEPT ![i + 1] = r]
  <1>1. i \in Nat /\ i + 1 \in Leases /\ i + 1 \in 0..MaxLeases /\ i + 1 # 0
    BY BoundAssumption DEF Consistent, Leases
  <1>2. T[t] \in Frontmatter /\ T[t].node \in Nodes
    BY DEF Consistent, Frontmatter
  <1>3. /\ g \in Frontmatter /\ g.exec.lease = i + 1 /\ g.exec.node = T[t].node
        /\ g.node = T[t].node /\ g.exec.by = s /\ g.owner = own
        /\ g.status = "running"
    <2> DEFINE d == IF Agent(T[t]) THEN "starting" ELSE "delivered"
               e == [NoExec EXCEPT !.lease = i + 1, !.by = s, !.node = T[t].node,
                                   !.delivery = d]
    <2>1. d \in {"starting", "delivered"}
      OBVIOUS
    <2>2. g = [T[t] EXCEPT !.owner = own, !.status = "running", !.exec = e]
      BY DEF Granted
    <2> HIDE DEF d, g
    <2>3. e \in Execution /\ e.lease = i + 1 /\ e.node = T[t].node /\ e.by = s
      BY <1>1, <1>2, <2>1, NoExecTyped DEF Execution, NoExec
    <2>4. own \in Owners
      BY DEF Owners
    <2> HIDE DEF e, own
    <2>5. QED
      BY <1>2, <2>2, <2>3, <2>4 DEF Frontmatter, Status
  <1>4. r \in NodeRun
    BY <1>2 DEF NodeRun, Outcomes
  <1> HIDE DEF g, r
  <1>5. U \in [Tickets -> Frontmatter] /\ Q \in [Leases -> NodeRun]
    BY <1>3, <1>4 DEF Consistent
  <1>6. \A u \in Tickets : Bound(u, U, Q, i + 1)
    <2> SUFFICES ASSUME NEW u \in Tickets PROVE Bound(u, U, Q, i + 1)
      OBVIOUS
    <2>1. CASE u = t
      <3>1. own.sup = s /\ own # NoOwner
        BY SentinelAssumption DEF NoOwner
      <3> HIDE DEF own
      <3>2. QED
        BY <1>1, <1>3, <2>1, <3>1 DEF Consistent, Bound, r
    <2>2. CASE u # t
      <3>0. T[u].exec.lease \in 0..MaxLeases
        BY FieldsTyped DEF Consistent
      <3>a. Bound(u, T, R, i)
        BY DEF Consistent
      <3>1. Leased(T[u]) => T[u].exec.lease # i + 1 /\ T[u].exec.lease \in 1..i
        BY <1>1, <3>0, <3>a, BoundAssumption DEF Bound, Leased
      <3>2. QED
        BY <1>1, <2>2, <3>1 DEF Consistent, Bound, Leased
    <2>3. QED
      BY <2>1, <2>2
  <1>7. \A l \in Leases : Open(l, U, Q)
    <2> SUFFICES ASSUME NEW l \in Leases PROVE Open(l, U, Q)
      OBVIOUS
    <2>1. CASE l = i + 1
      BY <1>3, <2>1 DEF Open, Consistent, r
    <2>2. CASE l # i + 1
      BY <1>1, <2>2 DEF Open, Consistent, Leased, Leases
    <2>3. QED
      BY <2>1, <2>2
  <1>8. \A l \in Leases : Issued(l, Q, i + 1)
    <2> SUFFICES ASSUME NEW l \in Leases PROVE Issued(l, Q, i + 1)
      OBVIOUS
    <2>1. Issued(l, R, i) /\ R \in [Leases -> NodeRun] /\ l \in Nat
      BY BoundAssumption DEF Consistent, Leases
    <2>2. QED
      BY <1>1, <2>1 DEF Issued, r
  <1>9. QED
    BY <1>1, <1>5, <1>6, <1>7, <1>8 DEF Consistent, g, r

(***************************************************************************)
(* A sweep ends several leases at once.                                    *)
(***************************************************************************)
LEMMA SweepStep ==
  ASSUME Consistent(ticket, run, issued), NEW S \in SUBSET Lapsed
  PROVE  /\ Consistent(ExpireAll(S), CloseRuns(S), issued)
         /\ \A t \in Tickets : ExpireAll(S)[t].exec \in {NoExec, ticket[t].exec}
  <1> DEFINE U == ExpireAll(S)
             Q == CloseRuns(S)
             out(l) == IF ticket[run[l].ticket].exec.interrupt = "none"
                         THEN "lease_lost" ELSE "interrupted"
             hit(l) == run[l].ticket \in S /\ ticket[run[l].ticket].exec.lease = l
  <1>1. /\ ticket \in [Tickets -> Frontmatter] /\ run \in [Leases -> NodeRun]
        /\ issued \in 0..MaxLeases /\ S \subseteq Tickets
        /\ \A t \in S : Leased(ticket[t])
    BY DEF Consistent, Lapsed
  <1>2. \A t \in Tickets : /\ t \in S => U[t] = Expire(ticket[t])
                           /\ t \notin S => U[t] = ticket[t]
    BY DEF ExpireAll
  <1>3. \A t \in S : U[t] \in Frontmatter /\ U[t].exec = NoExec
    BY <1>1, <1>2, ExpireTyped
  <1>4. U \in [Tickets -> Frontmatter]
    BY <1>1, <1>3 DEF ExpireAll
  <1>5. \A l \in Leases : Q[l] = IF hit(l) THEN [run[l] EXCEPT !.outcome = out(l)]
                                           ELSE run[l]
    BY DEF CloseRuns
  <1>6. \A l \in Leases : /\ Q[l] \in NodeRun
                          /\ ~hit(l) => Q[l] = run[l]
                          /\ hit(l) => Q[l].outcome \in {"lease_lost", "interrupted"}
    <2> SUFFICES ASSUME NEW l \in Leases
                 PROVE  /\ Q[l] \in NodeRun
                        /\ ~hit(l) => Q[l] = run[l]
                        /\ hit(l) => Q[l].outcome \in {"lease_lost", "interrupted"}
      OBVIOUS
    <2>1. run[l] \in NodeRun
      BY <1>1
    <2>2. out(l) \in {"lease_lost", "interrupted"}
      OBVIOUS
    <2> HIDE DEF out, hit, Q
    <2>3. QED
      BY <1>5, <2>1, <2>2 DEF NodeRun, Outcomes
  <1>7. Q \in [Leases -> NodeRun]
    BY <1>6 DEF CloseRuns
  <1>8. \A t \in Tickets : Bound(t, U, Q, issued)
    <2> SUFFICES ASSUME NEW t \in Tickets, t \notin S PROVE Bound(t, U, Q, issued)
      BY <1>3 DEF Bound, Leased, NoExec
    <2> DEFINE m == ticket[t].exec.lease
    <2>1. Bound(t, ticket, run, issued) /\ U[t] = ticket[t]
      BY <1>2 DEF Consistent
    <2>2. CASE Leased(ticket[t])
      <3>1. m \in Leases
        BY <1>1, <2>1, <2>2, FieldsTyped, BoundAssumption DEF Leased, Leases
      <3>2. run[m].ticket = t
        BY <2>1, <2>2 DEF Bound
      <3>3. Q[m] = run[m]
        BY <1>6, <3>1, <3>2
      <3>4. QED
        BY <2>1, <2>2, <3>3 DEF Bound
    <2>3. CASE ~Leased(ticket[t])
      BY <2>1, <2>3 DEF Bound
    <2>4. QED
      BY <2>2, <2>3
  <1>9. \A l \in Leases : Open(l, U, Q)
    <2> SUFFICES ASSUME NEW l \in Leases, Q[l].outcome = "open"
                 PROVE  Q[l].ticket \in Tickets /\ U[Q[l].ticket].exec.lease = l
      BY DEF Open
    <2>1. ~hit(l) /\ Q[l] = run[l]
      BY <1>6
    <2>2. run[l].ticket \in Tickets /\ ticket[run[l].ticket].exec.lease = l
      BY <2>1 DEF Consistent, Open
    <2>3. QED
      BY <1>2, <2>1, <2>2
  <1>10. \A l \in Leases : Issued(l, Q, issued)
    <2> SUFFICES ASSUME NEW l \in Leases PROVE Issued(l, Q, issued)
      OBVIOUS
    <2>1. Issued(l, run, issued) /\ run[l] \in NodeRun
      BY <1>1 DEF Consistent
    <2>2. CASE ~hit(l)
      BY <1>6, <2>1, <2>2 DEF Issued
    <2>3. CASE hit(l)
      <3> DEFINE t == run[l].ticket
      <3>1. t \in Tickets /\ Leased(ticket[t]) /\ ticket[t].exec.lease = l
        BY <1>1, <2>3
      <3>2. Bound(t, ticket, run, issued)
        BY <3>1 DEF Consistent
      <3>3. l <= issued
        BY <3>1, <3>2 DEF Bound
      <3>4. Q[l].ticket = t
        BY <1>5, <2>1, <2>3 DEF NodeRun
      <3>5. Q[l].outcome # "none"
        BY <1>6, <2>3
      <3> HIDE DEF Q, t
      <3>6. QED
        BY <3>1, <3>3, <3>4, <3>5 DEF Issued
    <2>4. QED
      BY <2>2, <2>3
  <1>11. QED
    BY <1>1, <1>2, <1>3, <1>4, <1>7, <1>8, <1>9, <1>10 DEF Consistent

(* The tickets of P paused on their cost ceiling.                          *)
Paused(T, P) ==
    [t \in Tickets |-> IF t \in P THEN CostPaused(T[t]) ELSE T[t]]

LEMMA PauseStep ==
  ASSUME NEW T, NEW R, NEW i, Consistent(T, R, i),
         NEW P \in SUBSET {t \in Tickets : T[t].status = "ready"}
  PROVE  /\ Consistent(Paused(T, P), R, i)
         /\ \A t \in Tickets : Paused(T, P)[t].exec = T[t].exec
  <1> DEFINE U == Paused(T, P)
  <1>1. \A t \in Tickets : T[t] \in Frontmatter /\ Bound(t, T, R, i)
    BY DEF Consistent
  <1>2. \A t \in P : ~Leased(T[t])
    BY <1>1 DEF Bound
  <1>3. \A t \in P : /\ CostPaused(T[t]) \in Frontmatter
                     /\ CostPaused(T[t]).exec = T[t].exec
                     /\ CostPaused(T[t]).owner = T[t].owner
                     /\ CostPaused(T[t]).node = T[t].node
    <2> SUFFICES ASSUME NEW t \in P
                 PROVE  /\ CostPaused(T[t]) \in Frontmatter
                        /\ CostPaused(T[t]).exec = T[t].exec
                        /\ CostPaused(T[t]).owner = T[t].owner
                        /\ CostPaused(T[t]).node = T[t].node
      OBVIOUS
    <2>1. T[t] \in Frontmatter
      BY <1>1
    <2>2. QED
      BY <2>1 DEF CostPaused, Frontmatter, Status
  <1>4. \A t \in Tickets : U[t] = IF t \in P THEN CostPaused(T[t]) ELSE T[t]
    BY DEF Paused
  <1>5. U \in [Tickets -> Frontmatter]
    BY <1>1, <1>3 DEF Paused
  <1> HIDE DEF U
  <1>6. \A t \in Tickets : Bound(t, U, R, i)
    BY <1>1, <1>2, <1>3, <1>4 DEF Bound, Leased
  <1>7. \A l \in Leases : Open(l, U, R)
    BY <1>3, <1>4 DEF Consistent, Open
  <1>8. Consistent(U, R, i)
    BY <1>5, <1>6, <1>7 DEF Consistent
  <1>9. QED
    BY <1>3, <1>4, <1>8 DEF U

-----------------------------------------------------------------------------
(***************************************************************************)
(* The inductive invariant.  A callback in flight remembers the node of    *)
(* the run of its lease, which never changes.                              *)
(***************************************************************************)
CallsMatch(R, C) ==
    /\ C \subseteq Call
    /\ \A c \in C : R[c.lease].outcome # "none" /\ R[c.lease].node = c.node

(* Two leases held under one hostname never share a repository.            *)
Exclusion(T) ==
    \A t, u \in Tickets :
        /\ t # u /\ Leased(T[t]) /\ Leased(T[u])
        /\ T[t].owner.host = T[u].owner.host
        => ~Overlap(t, u)

IInv == /\ Consistent(ticket, run, issued)
        /\ CallsMatch(run, calls)
        /\ Exclusion(ticket)

LEMMA InitTickets ==
  ASSUME Init
  PROVE  /\ ticket \in [Tickets -> Frontmatter]
         /\ \A t \in Tickets : ticket[t].exec = NoExec
  <1> DEFINE New == {new \in {NewTicket(off) : off \in SUBSET Skippable} : Valid(new)}
  <1>1. \A new \in New : new \in Frontmatter /\ new.exec = NoExec
    BY NewTicketTyped
  <1>2. ticket \in [Tickets -> New]
    BY DEF Init
  <1> HIDE DEF New
  <1>3. QED
    BY <1>1, <1>2

LEMMA InitStep == Init => IInv
  <1> SUFFICES ASSUME Init PROVE IInv
    OBVIOUS
  <1>1. ticket \in [Tickets -> Frontmatter]
    BY InitTickets
  <1>2. run \in [Leases -> NodeRun] /\ issued \in 0..MaxLeases
    BY GraphAssumption, BoundAssumption DEF Init, NoRun, NodeRun, Outcomes
  <1>3. \A t \in Tickets : ~Leased(ticket[t])
    BY InitTickets, NoExecTyped DEF Leased
  <1>4. \A l \in Leases : run[l].outcome = "none" /\ run[l].ticket \notin Tickets
    BY SentinelAssumption DEF Init, NoRun
  <1>5. QED
    BY <1>1, <1>2, <1>3, <1>4
       DEF IInv, Consistent, CallsMatch, Bound, Open, Issued, Exclusion, Init

(***************************************************************************)
(* What every step is shown to do: preserve the invariant and take a step  *)
(* of the abstract lease registry, or none.                                *)
(***************************************************************************)
Ended(R) == {l \in Leases : R[l].outcome \notin {"none", "open"}}

RegistryStep == [Registry!LNext]_(Registry!lvars)

Advances == IInv' /\ RegistryStep

LEMMA RegistryStutter ==
  ASSUME \A t \in Tickets : ticket'[t].exec.lease = ticket[t].exec.lease,
         UNCHANGED <<run, issued>>
  PROVE  RegistryStep
  BY DEF RegistryStep, Registry!lvars

LEMMA RegistryEnd ==
  ASSUME NEW S \in SUBSET Tickets, \A t \in S : Leased(ticket[t]),
         \A t \in Tickets : ticket'[t].exec.lease =
                              IF t \in S THEN 0 ELSE ticket[t].exec.lease,
         Ended(run') = Ended(run) \cup {ticket[t].exec.lease : t \in S},
         issued' = issued
  PROVE  RegistryStep
  <1>1. Registry!End(S)
    BY DEF Registry!End, Registry!Holders, Registry!Held, Leased, Ended
  <1>2. QED
    BY <1>1 DEF RegistryStep, Registry!LNext

LEMMA RegistryGrant ==
  ASSUME NEW S \in SUBSET Tickets, \A t \in S : Leased(ticket[t]),
         NEW g \in Tickets, g \in S \/ ~Leased(ticket[g]),
         \A t \in Tickets : ticket'[t].exec.lease =
                              IF t = g THEN issued + 1
                              ELSE IF t \in S THEN 0 ELSE ticket[t].exec.lease,
         Ended(run') = Ended(run) \cup {ticket[t].exec.lease : t \in S},
         issued < MaxLeases, issued' = issued + 1
  PROVE  RegistryStep
  <1>1. Registry!Grant(S, g)
    BY DEF Registry!Grant, Registry!Holders, Registry!Held, Leased, Ended
  <1>2. QED
    BY <1>1 DEF RegistryStep, Registry!LNext

LEMMA LeaseIssued ==
  ASSUME NEW T, NEW R, NEW i, Consistent(T, R, i),
         NEW t \in Tickets, Leased(T[t])
  PROVE  T[t].exec.lease \in Leases
  <1>1. T[t].exec.lease \in 0..MaxLeases
    BY FieldsTyped DEF Consistent
  <1>2. QED
    BY <1>1, BoundAssumption DEF Leased, Leases

LEMMA KeepAction ==
  ASSUME IInv, NEW t \in Tickets, NEW new \in Frontmatter,
         KeepsLease(ticket[t], new),
         ticket' = [ticket EXCEPT ![t] = new], UNCHANGED <<run, issued, calls>>
  PROVE  Advances
  <1>1. Consistent([ticket EXCEPT ![t] = new], run, issued)
    BY KeepStep DEF IInv
  <1>2. Exclusion([ticket EXCEPT ![t] = new])
    BY DEF IInv, Consistent, Exclusion, KeepsLease, Leased
  <1>3. RegistryStep
    BY RegistryStutter DEF IInv, Consistent, KeepsLease
  <1>4. QED
    BY <1>1, <1>2, <1>3 DEF IInv, Advances

LEMMA CloseAction ==
  ASSUME IInv, NEW t \in Tickets, NEW new \in Frontmatter,
         Leased(ticket[t]), ~Leased(new),
         ticket' = [ticket EXCEPT ![t] = new], Closes(run, run', t),
         issued' = issued, calls' \subseteq calls
  PROVE  Advances
  <1>1. Consistent(ticket', run', issued')
    BY EndStep DEF IInv
  <1>2. \A c \in calls : c.lease \in Leases
    BY DEF IInv, CallsMatch, Call
  <1>3. CallsMatch(run', calls')
    BY <1>2 DEF IInv, CallsMatch, Closes
  <1>4. Exclusion(ticket')
    BY DEF IInv, Consistent, Exclusion, Leased
  <1>5. RegistryStep
    <2> DEFINE m == ticket[t].exec.lease
    <2>1. m \in Leases /\ Bound(t, ticket, run, issued)
      BY LeaseIssued DEF IInv, Consistent
    <2>2. run[m] = [ticket |-> t, node |-> ticket[t].node, outcome |-> "open"]
      BY <2>1, Zenon DEF Bound
    <2>3. \A l \in Leases : run[l].outcome = "open" /\ run[l].ticket = t => l = m
      BY DEF IInv, Consistent, Open
    <2>4. \A l \in Leases : (run'[l].outcome \notin {"none", "open"})
                              <=> (run[l].outcome \notin {"none", "open"} \/ l = m)
      <3> SUFFICES ASSUME NEW l \in Leases
                   PROVE  (run'[l].outcome \notin {"none", "open"})
                            <=> (run[l].outcome \notin {"none", "open"} \/ l = m)
        OBVIOUS
      <3>1. CASE run[l].ticket = t
        BY <2>2, <2>3, <3>1 DEF Closes
      <3>2. CASE run[l].ticket # t
        BY <2>2, <3>2 DEF Closes
      <3>3. QED
        BY <3>1, <3>2
    <2>5. Ended(run') = Ended(run) \cup {m}
      BY <2>1, <2>4 DEF Ended
    <2>6. \A u \in Tickets : ticket'[u].exec.lease =
                               IF u \in {t} THEN 0 ELSE ticket[u].exec.lease
      BY DEF IInv, Consistent, Leased
    <2>7. {ticket[u].exec.lease : u \in {t}} = {m}
      OBVIOUS
    <2>8. QED
      BY ZenonT(60), <2>5, <2>6, <2>7, RegistryEnd
  <1>6. QED
    BY <1>1, <1>3, <1>4, <1>5 DEF IInv, Advances

LEMMA FinishCloses ==
  ASSUME IInv, NEW t \in Tickets, Leased(ticket[t]), NEW o \in Settled,
         run' = [run EXCEPT ![ticket[t].exec.lease].outcome = o]
  PROVE  Closes(run, run', t)
  <1> DEFINE m == ticket[t].exec.lease
  <1>1. m \in Leases /\ Bound(t, ticket, run, issued) /\ run \in [Leases -> NodeRun]
    BY LeaseIssued DEF IInv, Consistent
  <1>2. run[m].ticket = t /\ run[m].outcome = "open"
    <2>1. run[m] = [ticket |-> t, node |-> ticket[t].node, outcome |-> "open"]
      BY <1>1, Zenon DEF Bound
    <2>2. QED
      BY <2>1
  <1>3. run' \in [Leases -> NodeRun]
    BY <1>1 DEF NodeRun, Settled
  <1>4. \A l \in Leases : run[l].outcome = "open" /\ run[l].ticket = t => l = m
    BY DEF IInv, Consistent, Open
  <1> HIDE DEF m
  <1>5. \A l \in Leases : l # m => run'[l] = run[l]
    BY <1>1 DEF m
  <1>6. run'[m].ticket = t /\ run'[m].node = run[m].node /\ run'[m].outcome = o
    BY <1>1, <1>2 DEF m, NodeRun
  <1>7. QED
    BY <1>2, <1>3, <1>4, <1>5, <1>6 DEF Closes, Settled

LEMMA EndAction ==
  ASSUME IInv, NEW t \in Tickets, NEW new \in Frontmatter, NEW o \in Settled,
         Leased(ticket[t]), ~Leased(new),
         ticket' = [ticket EXCEPT ![t] = new],
         run' = [run EXCEPT ![ticket[t].exec.lease].outcome = o],
         issued' = issued, calls' \subseteq calls
  PROVE  Advances
  BY FinishCloses, CloseAction

(* What a ticket of a reachable state looks like to its handlers.          *)
LEMMA TicketFacts ==
  ASSUME IInv, NEW t \in Tickets
  PROVE  /\ ticket[t] \in Frontmatter
         /\ ticket[t].exec \in Execution
         /\ ticket[t].node \in Nodes /\ ticket[t].exec.node \in Nodes
         /\ Leased(ticket[t]) => /\ ticket[t].status \in {"running", "blocked"}
                                 /\ ticket[t].exec.lease \in Leases
  <1>1. ticket[t] \in Frontmatter /\ Bound(t, ticket, run, issued)
    BY DEF IInv, Consistent
  <1>2. QED
    BY <1>1, FieldsTyped, BoundAssumption DEF Bound, Leased, Leases

-----------------------------------------------------------------------------
(***************************************************************************)
(* The operator commands that leave a live lease alone.                    *)
(***************************************************************************)
LEMMA IdleCommand ==
  ASSUME IInv, NEW t \in Tickets, ~Leased(ticket[t]), NEW new \in Frontmatter,
         new.exec = ticket[t].exec,
         ticket' = [ticket EXCEPT ![t] = new], UNCHANGED <<run, issued, calls>>
  PROVE  Advances
  BY KeepAction DEF KeepsLease

LEMMA PlaceStep ==
  ASSUME IInv, NEW t \in Tickets,
         \/ Ready(t) \/ ReturnToDraft(t) \/ Decide(t) \/ GithubFeedback(t)
  PROVE  Advances
  <1> DEFINE old == ticket[t]
  <1>1. old \in Frontmatter /\ old.node \in Nodes
    BY TicketFacts
  <1>2. ASSUME Ready(t) PROVE Advances
    <2>1. ~Leased(old)
      BY <1>2, TicketFacts DEF Ready, Command
    <2>2. QED
      BY <1>1, <1>2, <2>1, EnterTyped, IdleCommand DEF Ready, Command, Store
  <1>3. ASSUME ReturnToDraft(t) PROVE Advances
    <2> DEFINE new == [old EXCEPT !.status = "pending"]
    <2>1. new \in Frontmatter /\ new.exec = old.exec
      BY <1>1 DEF Frontmatter, Status
    <2>2. QED
      BY <1>3, <2>1, IdleCommand DEF ReturnToDraft, Command, Store, Idle
  <1>4. ASSUME Decide(t) PROVE Advances
    <2>1. PICK n \in Succ[old.node] :
            /\ old.status = "waiting_approval"
            /\ Store(t, Transition(old, n)) /\ UNCHANGED <<run, issued, calls>>
      BY <1>4 DEF Decide, Command
    <2>2. n \in Nodes /\ ~Leased(old)
      BY <1>1, <2>1, TicketFacts, GraphAssumption
    <2>3. QED
      BY <1>1, <2>1, <2>2, TransitionTyped, IdleCommand DEF Store
  <1>5. ASSUME GithubFeedback(t) PROVE Advances
    <2>1. PICK n \in Feedback[old.node] :
            /\ old.status = "completed"
            /\ Store(t, Transition(old, n)) /\ UNCHANGED <<run, issued, calls>>
      BY <1>5 DEF GithubFeedback, Command
    <2>2. n \in Nodes /\ ~Leased(old)
      BY <1>1, <2>1, TicketFacts, GraphAssumption
    <2>3. QED
      BY <1>1, <2>1, <2>2, TransitionTyped, IdleCommand DEF Store
  <1>6. QED
    BY <1>2, <1>3, <1>4, <1>5

LEMMA RestoreStep ==
  ASSUME IInv, NEW t \in Tickets, Retry(t) \/ ReleaseSupervisor(t)
  PROVE  Advances
  <1> DEFINE old == ticket[t]
             clear == [old.losses EXCEPT ![old.node] = 0]
  <1>1. old \in Frontmatter /\ old.node \in Nodes
    BY TicketFacts
  <1>2. clear \in [Nodes -> 0..LossLimit]
    BY <1>1, BoundAssumption DEF Frontmatter
  <1>3. ~Leased(old)
    BY DEF Retry, ReleaseSupervisor, Command, Idle
  <1>4. ASSUME Retry(t) PROVE Advances
    <2> DEFINE base == [old EXCEPT !.losses = clear]
    <2>1. base \in Frontmatter /\ base.exec = old.exec
      BY <1>1, <1>2 DEF Frontmatter
    <2>2. Enter(base) \in Frontmatter /\ Enter(base).exec = old.exec
      BY <2>1, EnterTyped
    <2>3. [old EXCEPT !.losses[old.node] = 0] = base
      OBVIOUS
    <2> HIDE DEF base
    <2>4. ticket' = [ticket EXCEPT ![t] = Enter(base)]
            /\ UNCHANGED <<run, issued, calls>>
      BY <1>4, <2>3 DEF Retry, Command, Store
    <2>5. QED
      BY <1>3, <2>2, <2>4, IdleCommand
  <1>5. ASSUME ReleaseSupervisor(t) PROVE Advances
    <2> DEFINE freed == [old EXCEPT !.owner = NoOwner]
               offered == [freed EXCEPT !.status = "ready", !.losses = clear]
    <2>1. freed \in Frontmatter /\ freed.exec = old.exec
      BY <1>1, NoOwnerTyped DEF Frontmatter
    <2>2. offered \in Frontmatter /\ offered.exec = old.exec
      BY <1>1, <1>2, NoOwnerTyped DEF Frontmatter, Status
    <2>3. Released(old) \in {freed, offered}
      BY <1>1 DEF Released, Frontmatter
    <2>4. QED
      BY <1>3, <1>5, <2>1, <2>2, <2>3, IdleCommand
         DEF ReleaseSupervisor, Command, Store
  <1>6. QED
    BY <1>4, <1>5

(***************************************************************************)
(* Commands that may meet a live lease: they write the request into the    *)
(* execution, or fields the lease is not bound to.                         *)
(***************************************************************************)
LEMMA SameLease ==
  ASSUME IInv, NEW t \in Tickets, NEW new \in Frontmatter,
         new.node = ticket[t].node, new.owner = ticket[t].owner,
         new.exec.lease = ticket[t].exec.lease,
         new.exec.node = ticket[t].exec.node, new.exec.by = ticket[t].exec.by,
         Leased(ticket[t]) => new.status \in {"running", "blocked"},
         ticket' = [ticket EXCEPT ![t] = new], UNCHANGED <<run, issued, calls>>
  PROVE  Advances
  BY KeepAction DEF KeepsLease

(* The execution with an interruption request and its deadline rewritten.  *)
Requested(t, k, n, fresh, lapsed) ==
    [t EXCEPT !.exec = [t.exec EXCEPT !.interrupt = k, !.to = n,
                                      !.fresh = fresh, !.lapsed = lapsed]]

LEMMA RequestTyped ==
  ASSUME IInv, NEW t \in Tickets, NEW k \in Interrupts, NEW n \in Nodes,
         NEW fresh \in BOOLEAN, NEW lapsed \in BOOLEAN, NEW new,
         new = Requested(ticket[t], k, n, fresh, lapsed)
  PROVE  /\ new \in Frontmatter
         /\ new.node = ticket[t].node /\ new.owner = ticket[t].owner
         /\ new.status = ticket[t].status
         /\ new.exec.lease = ticket[t].exec.lease
         /\ new.exec.node = ticket[t].exec.node
         /\ new.exec.by = ticket[t].exec.by
         /\ Leased(ticket[t]) => new.status \in {"running", "blocked"}
  <1> DEFINE e == [ticket[t].exec EXCEPT !.interrupt = k, !.to = n,
                                         !.fresh = fresh, !.lapsed = lapsed]
  <1>1. ticket[t] \in Frontmatter /\ ticket[t].exec \in Execution
    BY TicketFacts
  <1>2. /\ e \in Execution /\ e.lease = ticket[t].exec.lease
        /\ e.node = ticket[t].exec.node /\ e.by = ticket[t].exec.by
    BY <1>1 DEF Execution
  <1>3. new = [ticket[t] EXCEPT !.exec = e]
    BY DEF Requested
  <1> HIDE DEF e
  <1>4. QED
    BY <1>1, <1>2, <1>3, TicketFacts DEF Frontmatter

LEMMA RequestStep ==
  ASSUME IInv, NEW t \in Tickets, NEW k \in Interrupts, NEW n \in Nodes,
         NEW fresh \in BOOLEAN, NEW lapsed \in BOOLEAN,
         ticket' = [ticket EXCEPT ![t] =
                      Requested(ticket[t], k, n, fresh, lapsed)],
         UNCHANGED <<run, issued, calls>>
  PROVE  Advances
  <1> DEFINE new == Requested(ticket[t], k, n, fresh, lapsed)
  <1> HIDE DEF new
  <1>1. /\ new \in Frontmatter
        /\ new.node = ticket[t].node /\ new.owner = ticket[t].owner
        /\ new.exec.lease = ticket[t].exec.lease
        /\ new.exec.node = ticket[t].exec.node
        /\ new.exec.by = ticket[t].exec.by
        /\ Leased(ticket[t]) => new.status \in {"running", "blocked"}
    BY RequestTyped DEF new
  <1>2. ticket' = [ticket EXCEPT ![t] = new]
    BY DEF new
  <1>3. QED
    BY <1>1, <1>2, SameLease

LEMMA TerminateStep ==
  ASSUME IInv, NEW t \in Tickets, NEW how \in {"cancelled", "failed"},
         Terminate(t, how)
  PROVE  Advances
  <1> DEFINE old == ticket[t]
             e == old.exec
             ended == [old EXCEPT !.status = how]
             asked == Requested(old, how, e.to, e.fresh, e.lapsed)
  <1>1. old \in Frontmatter /\ e \in Execution
    BY TicketFacts
  <1>2. CASE ~Leased(old)
    <2>1. ended \in Frontmatter /\ ended.exec = old.exec
      BY <1>1 DEF Frontmatter, Status, Terminal
    <2>2. QED
      BY <1>2, <2>1, IdleCommand DEF Terminate, Command, Store, Idle
  <1>3. CASE Leased(old)
    <2>1. /\ how \in Interrupts /\ e.to \in Nodes
          /\ e.fresh \in BOOLEAN /\ e.lapsed \in BOOLEAN
      BY <1>1 DEF Execution, Interrupts
    <2>2. asked = [old EXCEPT !.exec.interrupt = how]
      BY <1>1 DEF Requested, Execution, Frontmatter
    <2>3. ticket' = [ticket EXCEPT ![t] = asked]
            /\ UNCHANGED <<run, issued, calls>>
      BY <1>3, <2>2 DEF Terminate, Command, Store, Idle
    <2>4. QED
      BY <2>1, <2>3, RequestStep
  <1>4. QED
    BY <1>2, <1>3

LEMMA RedirectStep ==
  ASSUME IInv, NEW t \in Tickets, NEW n \in Nodes, NEW fresh \in BOOLEAN,
         Store(t, Redirect(t, n, fresh)), UNCHANGED <<run, issued, calls>>
  PROVE  Advances
  <1> DEFINE old == ticket[t]
             e == old.exec
             there == Relocate(old, n, fresh)
             moved == [there EXCEPT !.archived = FALSE]
             asked == Requested(old, "move", n, fresh, e.lapsed)
  <1>1. old \in Frontmatter /\ e \in Execution
    BY TicketFacts
  <1>2. CASE ~Leased(old)
    <2>1. there \in Frontmatter /\ there.exec = e
      BY <1>1, RelocateTyped
    <2>2. ticket' = [ticket EXCEPT ![t] = moved]
            /\ UNCHANGED <<run, issued, calls>>
      BY <1>2 DEF Redirect, Store, Idle
    <2> HIDE DEF there
    <2>3. moved \in Frontmatter /\ moved.exec = e
      BY <2>1 DEF Frontmatter
    <2>4. QED
      BY <1>2, <2>2, <2>3, IdleCommand
  <1>3. CASE Leased(old)
    <2>1. "move" \in Interrupts /\ e.lapsed \in BOOLEAN
      BY <1>1 DEF Execution, Interrupts
    <2>2. asked = [old EXCEPT !.exec.interrupt = "move", !.exec.to = n,
                              !.exec.fresh = fresh]
      BY ZenonT(60), <1>1 DEF Requested, Execution, Frontmatter
    <2>3. ticket' = [ticket EXCEPT ![t] = asked]
            /\ UNCHANGED <<run, issued, calls>>
      BY <1>3, <2>2 DEF Redirect, Store, Idle
    <2>4. QED
      BY <2>1, <2>3, RequestStep
  <1>4. QED
    BY <1>2, <1>3

LEMMA AnswerStep ==
  ASSUME IInv, NEW t \in Tickets, NEW last \in BOOLEAN, Answer(t, last)
  PROVE  Advances
  <1> DEFINE old == ticket[t]
             s == IF Idle(t) THEN old.status
                  ELSE IF last THEN "running" ELSE "blocked"
             new == [old EXCEPT !.open = ~last, !.status = s]
  <1>1. old \in Frontmatter
    BY TicketFacts
  <1>2. s \in Status /\ (Leased(old) => s \in {"running", "blocked"})
    BY <1>1 DEF Frontmatter, Status, Idle
  <1>3. ticket' = [ticket EXCEPT ![t] = new] /\ UNCHANGED <<run, issued, calls>>
    BY DEF Answer, Command, Store
  <1> HIDE DEF s
  <1>4. /\ new \in Frontmatter /\ new.status = s /\ new.exec = old.exec
        /\ new.node = old.node /\ new.owner = old.owner
    BY <1>1, <1>2 DEF Frontmatter
  <1>5. QED
    BY <1>2, <1>3, <1>4, SameLease

LEMMA ArchiveStep ==
  ASSUME IInv, NEW t \in Tickets, Archive(t) \/ Unarchive(t)
  PROVE  Advances
  <1>1. PICK b \in BOOLEAN :
          /\ ticket' = [ticket EXCEPT ![t] = [ticket[t] EXCEPT !.archived = b]]
          /\ UNCHANGED <<run, issued, calls>>
    BY DEF Archive, Unarchive, Command, Store
  <1> DEFINE new == [ticket[t] EXCEPT !.archived = b]
  <1>2. /\ new \in Frontmatter /\ new.exec = ticket[t].exec
        /\ new.node = ticket[t].node /\ new.owner = ticket[t].owner
        /\ new.status = ticket[t].status
    BY TicketFacts DEF Frontmatter
  <1>3. QED
    BY <1>1, <1>2, SameLease, TicketFacts

-----------------------------------------------------------------------------
(***************************************************************************)
(* Requests under a lease.                                                 *)
(***************************************************************************)
LEMMA RewriteStep ==
  ASSUME IInv, NEW t \in Tickets, NEW x \in Execution,
         x.lease = ticket[t].exec.lease, x.node = ticket[t].exec.node,
         x.by = ticket[t].exec.by, NEW over \in SUBSET Nodes,
         ticket' = [ticket EXCEPT ![t] =
                      [ticket[t] EXCEPT !.exec = x, !.over = over]],
         UNCHANGED <<run, issued, calls>>
  PROVE  Advances
  <1> DEFINE new == [ticket[t] EXCEPT !.exec = x, !.over = over]
  <1>1. /\ new \in Frontmatter /\ new.exec = x
        /\ new.node = ticket[t].node /\ new.owner = ticket[t].owner
        /\ new.status = ticket[t].status
    BY ZenonT(60), TicketFacts DEF Frontmatter
  <1> HIDE DEF new
  <1>2. ticket' = [ticket EXCEPT ![t] = new]
    BY DEF new
  <1>3. QED
    BY <1>1, <1>2, SameLease, TicketFacts

LEMMA TimerStep ==
  ASSUME IInv, NEW t \in Tickets, NEW l \in Leases,
         Lapse(t) \/ Heartbeat(t, l) \/ ConfirmDelivery(t, l)
  PROVE  Advances
  <1> DEFINE old == ticket[t]
             lapse(b) == [old.exec EXCEPT !.lapsed = b]
             deliver == [old.exec EXCEPT !.delivery = "delivered"]
             kept(x) == /\ x \in Execution /\ x.lease = old.exec.lease
                        /\ x.node = old.exec.node /\ x.by = old.exec.by
             put(x) == [old EXCEPT !.exec = x, !.over = old.over]
  <1>1. /\ old \in Frontmatter /\ old.exec \in Execution
        /\ old.over \in SUBSET Nodes /\ ticket \in [Tickets -> Frontmatter]
    BY TicketFacts DEF IInv, Consistent, Frontmatter
  <1>2. kept(lapse(TRUE)) /\ kept(lapse(FALSE)) /\ kept(deliver)
    BY <1>1 DEF Execution
  <1>3. PICK x \in {lapse(TRUE), lapse(FALSE), deliver} :
          /\ ticket' = [ticket EXCEPT ![t].exec = x]
          /\ UNCHANGED <<run, issued, calls>>
    BY DEF Lapse, Heartbeat, ConfirmDelivery
  <1> HIDE DEF lapse, deliver
  <1>4. kept(x)
    BY <1>2, <1>3
  <1>5. [old EXCEPT !.exec = x] = put(x)
    BY <1>1, <1>4 DEF Frontmatter
  <1>6. QED
    BY <1>1, <1>3, <1>4, <1>5, RewriteStep

LEMMA OverspendStep ==
  ASSUME IInv, NEW l \in Leases, NEW beat \in BOOLEAN, Overspend(l, beat)
  PROVE  Advances
  <1> DEFINE t == run[l].ticket
             n == run[l].node
             e == ticket[t].exec
             asked == IF e.interrupt = "none"
                        THEN [e EXCEPT !.interrupt = "cost", !.to = n] ELSE e
             request == IF beat THEN [asked EXCEPT !.lapsed = FALSE] ELSE asked
             x == IF Holds(t, l) THEN request ELSE e
             kept(y) == /\ y \in Execution /\ y.lease = e.lease
                        /\ y.node = e.node /\ y.by = e.by
  <1>1. t \in Tickets /\ n \in Nodes
    <2>1. run[l] \in NodeRun /\ Issued(l, run, issued) /\ run[l].outcome # "none"
      BY DEF IInv, Consistent, Overspend
    <2>2. QED
      BY <2>1 DEF NodeRun, Issued
  <1>2. /\ ticket[t] \in Frontmatter /\ e \in Execution
        /\ ticket[t].over \cup {n} \in SUBSET Nodes
    BY <1>1, TicketFacts DEF Frontmatter
  <1>3. kept(asked)
    BY <1>1, <1>2 DEF Execution, Interrupts
  <1>4. kept(x)
    <2> HIDE DEF asked
    <2>1. kept([asked EXCEPT !.lapsed = FALSE])
      BY <1>3 DEF Execution
    <2>2. QED
      BY <1>2, <1>3, <2>1
  <1> DEFINE over == ticket[t].over \cup {n}
             stored == [ticket[t] EXCEPT !.over = @ \cup {n}, !.exec = x]
             new == [ticket[t] EXCEPT !.exec = x, !.over = over]
  <1>5. ticket' = [ticket EXCEPT ![t] = stored]
        /\ UNCHANGED <<run, issued, calls>>
    BY DEF Overspend
  <1> HIDE DEF x
  <1>6. stored = new
    BY <1>2 DEF Frontmatter
  <1> HIDE DEF stored
  <1>7. ticket' = [ticket EXCEPT ![t] = new]
    BY <1>5, <1>6
  <1>8. over \in SUBSET Nodes
    BY <1>2
  <1>9. /\ x \in Execution /\ x.lease = ticket[t].exec.lease
        /\ x.node = ticket[t].exec.node /\ x.by = ticket[t].exec.by
    BY <1>4
  <1> HIDE DEF t, over
  <1>10. QED
    BY <1>1, <1>5, <1>7, <1>8, <1>9, RewriteStep

LEMMA AskStep ==
  ASSUME IInv, NEW t \in Tickets, NEW l \in Leases, Ask(t, l)
  PROVE  Advances
  <1> DEFINE new == [ticket[t] EXCEPT !.open = TRUE, !.status = "blocked"]
  <1>1. /\ new \in Frontmatter /\ new.exec = ticket[t].exec
        /\ new.node = ticket[t].node /\ new.owner = ticket[t].owner
        /\ new.status = "blocked"
    BY ZenonT(60), TicketFacts DEF Frontmatter, Status
  <1>2. ticket' = [ticket EXCEPT ![t] = new] /\ UNCHANGED <<run, issued, calls>>
    BY DEF Ask, Store
  <1> HIDE DEF new
  <1>3. QED
    BY <1>1, <1>2, SameLease

(* Handlers that end the lease they were sent under.                       *)
LEMMA RejectStep ==
  ASSUME IInv, NEW t \in Tickets, NEW l \in Leases, RejectDelivery(t, l)
  PROVE  Advances
  <1> DEFINE new == Requeue(ticket[t])
  <1>1. new \in Frontmatter /\ ~Leased(new)
    BY TicketFacts, RequeueTyped DEF Leased, NoExec
  <1>2. Leased(ticket[t]) /\ ticket[t].exec.lease = l
    BY DEF RejectDelivery, Holds, Leased
  <1>3. /\ ticket' = [ticket EXCEPT ![t] = new]
        /\ run' = [run EXCEPT ![l].outcome = "delivery_failed"]
        /\ UNCHANGED <<issued, calls>>
    BY DEF RejectDelivery, Store, Finish
  <1>4. "delivery_failed" \in Settled
    BY DEF Settled, Outcomes
  <1> HIDE DEF new
  <1>5. QED
    BY <1>1, <1>2, <1>3, <1>4, EndAction

LEMMA InterruptedTyped ==
  ASSUME NEW t \in Frontmatter, t.exec.interrupt # "none"
  PROVE  Interrupted(t) \in Frontmatter
  <1>1. t.exec \in Execution /\ t.exec.to \in Nodes /\ t.exec.fresh \in BOOLEAN
    BY DEF Frontmatter, Execution
  <1>2. CASE t.exec.interrupt = "cost"
    BY <1>1, <1>2 DEF Interrupted, Frontmatter, Status
  <1>3. CASE t.exec.interrupt = "move"
    BY <1>1, <1>3, RelocateTyped DEF Interrupted
  <1>4. CASE t.exec.interrupt \in {"cancelled", "failed"}
    <2>1. Interrupted(t) = [t EXCEPT !.status = t.exec.interrupt]
      BY <1>4 DEF Interrupted
    <2>2. t.exec.interrupt \in Status
      BY <1>4 DEF Status, Terminal
    <2>3. QED
      BY <2>1, <2>2 DEF Frontmatter
  <1>5. QED
    BY <1>1, <1>2, <1>3, <1>4 DEF Execution, Interrupts

LEMMA AcknowledgeStep ==
  ASSUME IInv, NEW t \in Tickets, NEW l \in Leases, AcknowledgeInterrupt(t, l)
  PROVE  Advances
  <1> DEFINE mid == Interrupted(ticket[t])
             new == [mid EXCEPT !.exec = NoExec]
  <1>1. mid \in Frontmatter
    BY TicketFacts, InterruptedTyped DEF AcknowledgeInterrupt
  <1>2. /\ ticket' = [ticket EXCEPT ![t] = new]
        /\ run' = [run EXCEPT ![l].outcome = "interrupted"]
        /\ UNCHANGED <<issued, calls>>
    BY DEF AcknowledgeInterrupt, Store, Finish
  <1> HIDE DEF mid
  <1>3. new \in Frontmatter /\ ~Leased(new)
    BY <1>1, NoExecTyped DEF Frontmatter, Leased, NoExec
  <1>4. Leased(ticket[t]) /\ ticket[t].exec.lease = l
    BY DEF AcknowledgeInterrupt, Holds, Leased
  <1>5. "interrupted" \in Settled
    BY DEF Settled, Outcomes
  <1> HIDE DEF new
  <1>6. QED
    BY <1>2, <1>3, <1>4, <1>5, EndAction

LEMMA EraseCloses ==
  ASSUME IInv, NEW t \in Tickets, Erase(t)
  PROVE  Closes(run, run', t)
  <1>1. run \in [Leases -> NodeRun] /\ \A l \in Leases : Issued(l, run, issued)
    BY DEF IInv, Consistent
  <1>2. \A l \in Leases : run'[l] = IF run[l].ticket = t
                                     THEN [run[l] EXCEPT !.outcome = "erased"]
                                     ELSE run[l]
    BY DEF Erase
  <1>3. \A l \in Leases : run'[l] \in NodeRun
    BY <1>1, <1>2 DEF NodeRun, Outcomes
  <1>4. run' \in [Leases -> NodeRun]
    BY <1>3 DEF Erase
  <1>5. \A l \in Leases : run[l].ticket = t =>
          /\ run[l].outcome # "none" /\ run'[l].outcome = "erased"
          /\ run'[l].ticket = run[l].ticket /\ run'[l].node = run[l].node
    BY <1>1, <1>2 DEF Issued, NodeRun
  <1>6. QED
    BY <1>2, <1>4, <1>5 DEF Closes

(* What an edit stores.                                                    *)
Edited(old, s, n, d, o) ==
    [old EXCEPT !.status = s, !.node = n, !.done = d, !.exec = NoExec, !.over = o]

LEMMA EditStores ==
  ASSUME NEW t, NEW s \in Status, NEW n \in Nodes, NEW d \in BOOLEAN,
         NEW torn \in BOOLEAN, FencingEdit(t, s, n, d, torn), ticket[t] \in Frontmatter
  PROVE  \E status \in Status, o \in SUBSET Nodes :
           LET new == Edited(ticket[t], status, n, d, o)
           IN  /\ Leased(ticket[t])
               /\ Valid(new) /\ ticket' = [ticket EXCEPT ![t] = new]
               /\ \/ torn /\ Erase(t)
                  \/ ~torn /\ Finish(ticket[t].exec.lease, "interrupted")
               /\ UNCHANGED <<issued, calls>>
               /\ status = IF s \notin {"running", "blocked"} THEN s
                           ELSE IF d THEN "completed" ELSE "ready"
  <1> DEFINE status == IF s \notin {"running", "blocked"} THEN s
                       ELSE IF d THEN "completed" ELSE "ready"
             o == IF torn THEN {} ELSE ticket[t].over
  <1>1. status \in Status /\ o \in SUBSET Nodes
    BY DEF Status, Terminal, Frontmatter
  <1> DEFINE edited == [ticket[t] EXCEPT !.status = status, !.node = n, !.done = d,
                                    !.exec = NoExec, !.over = IF torn THEN {} ELSE @]
  <1>2. edited = Edited(ticket[t], status, n, d, o)
    BY DEF Edited, Frontmatter
  <1>3. /\ Leased(ticket[t])
        /\ Valid(edited) /\ ticket' = [ticket EXCEPT ![t] = edited]
        /\ \/ torn /\ Erase(t)
           \/ ~torn /\ Finish(ticket[t].exec.lease, "interrupted")
        /\ UNCHANGED <<issued, calls>>
    BY DEF FencingEdit, Store
  <1> HIDE DEF edited, o
  <1>4. QED
    BY <1>1, <1>2, <1>3

LEMMA EditStep ==
  ASSUME IInv, NEW t \in Tickets, NEW s \in Status, NEW n \in Nodes,
         NEW d \in BOOLEAN, NEW torn \in BOOLEAN, FencingEdit(t, s, n, d, torn)
  PROVE  Advances
  <1>1. ticket[t] \in Frontmatter
    BY TicketFacts
  <1>2. PICK status \in Status, o \in SUBSET Nodes :
          LET new == Edited(ticket[t], status, n, d, o)
          IN  /\ Leased(ticket[t]) /\ ticket' = [ticket EXCEPT ![t] = new]
              /\ \/ torn /\ Erase(t)
                 \/ ~torn /\ Finish(ticket[t].exec.lease, "interrupted")
              /\ UNCHANGED <<issued, calls>>
    BY <1>1, EditStores
  <1> DEFINE new == Edited(ticket[t], status, n, d, o)
  <1>3. new \in Frontmatter /\ ~Leased(new)
    BY ZenonT(60), <1>1, NoExecTyped DEF Edited, Frontmatter, Leased, NoExec
  <1>4. "interrupted" \in Settled
    BY DEF Settled, Outcomes
  <1>5. Closes(run, run', t)
    BY <1>2, <1>4, EraseCloses, FinishCloses DEF Finish
  <1> HIDE DEF new
  <1>6. Leased(ticket[t]) /\ ticket' = [ticket EXCEPT ![t] = new] /\ UNCHANGED <<issued, calls>>
    BY <1>2 DEF new
  <1>7. QED
    BY <1>3, <1>5, <1>6, CloseAction

-----------------------------------------------------------------------------
(***************************************************************************)
(* Terminal callbacks.                                                     *)
(***************************************************************************)
LEMMA ReadStep ==
  ASSUME IInv, NEW t \in Tickets, NEW l \in Leases,
         NEW kind \in {"complete", "fail", "activity"}, ReadCallback(t, l, kind)
  PROVE  Advances
  <1> DEFINE c == [lease |-> l, kind |-> kind, node |-> ticket[t].node]
  <1>1. Leased(ticket[t]) /\ ticket[t].exec.lease = l
    BY DEF ReadCallback, Holds, Leased
  <1>2. Bound(t, ticket, run, issued) /\ ticket[t].node \in Nodes
    BY TicketFacts DEF IInv, Consistent
  <1>3. run[l] = [ticket |-> t, node |-> ticket[t].node, outcome |-> "open"]
    BY <1>1, <1>2 DEF Bound
  <1>4. c \in Call /\ c.lease = l /\ c.node = ticket[t].node
    BY <1>2 DEF Call
  <1>5. calls' = calls \cup {c} /\ UNCHANGED <<ticket, run, issued>>
    BY DEF ReadCallback
  <1> HIDE DEF c
  <1>6. CallsMatch(run', calls')
    BY <1>3, <1>4, <1>5 DEF IInv, CallsMatch
  <1>7. RegistryStep
    BY <1>5, RegistryStutter
  <1>8. QED
    BY <1>5, <1>6, <1>7 DEF IInv, Advances

LEMMA SettlementsTyped ==
  ASSUME NEW t \in Frontmatter, NEW c \in Call, NEW new \in Settlements(c, t)
  PROVE  new \in Frontmatter /\ new.exec = NoExec
  <1> DEFINE z == [t.losses EXCEPT ![c.node] = 0]
             base == [t EXCEPT !.losses = z, !.exec = NoExec,
                               !.callback = c.lease]
  <1>1. z \in [Nodes -> 0..LossLimit] /\ c.lease \in 0..MaxLeases
    BY BoundAssumption DEF Frontmatter, Call, Leases
  <1>2. base = [t EXCEPT !.losses[c.node] = 0, !.exec = NoExec,
                         !.callback = c.lease]
    BY DEF Frontmatter
  <1> HIDE DEF z
  <1>3. base \in Frontmatter /\ base.exec = NoExec
    BY <1>1, NoExecTyped DEF Frontmatter
  <1>4. c.node \in Nodes /\ Succ[c.node] \subseteq Nodes
    BY GraphAssumption DEF Call
  <1> HIDE DEF base
  <1>5. \/ \E n \in Succ[c.node] : new = Transition(base, n)
        \/ new = [base EXCEPT !.status = "failed"]
    BY <1>2 DEF Settlements
  <1>6. CASE \E n \in Succ[c.node] : new = Transition(base, n)
    BY <1>3, <1>4, <1>6, TransitionTyped
  <1>7. CASE new = [base EXCEPT !.status = "failed"]
    BY <1>3, <1>7 DEF Frontmatter, Status, Terminal
  <1>8. QED
    BY <1>5, <1>6, <1>7

LEMMA CommitStep ==
  ASSUME IInv, NEW c \in calls, CommitCallback(c)
  PROVE  Advances
  <1> DEFINE t == run[c.lease].ticket
             l == c.lease
  <1>1. c \in Call /\ l \in Leases
    BY DEF IInv, CallsMatch, Call
  <1>2. t \in Tickets
    BY <1>1 DEF IInv, CallsMatch, Consistent, Issued
  <1>3. Leased(ticket[t]) /\ ticket[t].exec.lease = l
    BY DEF CommitCallback, Holds, Leased
  <1>4. PICK new \in Settlements(c, ticket[t]) :
          ticket' = [ticket EXCEPT ![t] = new]
    BY DEF CommitCallback, Store
  <1>5. PICK o \in {"completed", "failed"} :
          run' = [run EXCEPT ![l].outcome = o]
    BY DEF CommitCallback, Finish
  <1>6. issued' = issued /\ calls' \subseteq calls
    BY DEF CommitCallback
  <1>7. new \in Frontmatter /\ ~Leased(new)
    BY <1>1, <1>2, TicketFacts, SettlementsTyped DEF Leased, NoExec
  <1>8. o \in Settled
    BY DEF Settled, Outcomes
  <1> HIDE DEF t, l
  <1>9. QED
    BY <1>2, <1>3, <1>4, <1>5, <1>6, <1>7, <1>8, EndAction

LEMMA DropStep ==
  ASSUME IInv, NEW c \in calls, DropCallback(c)
  PROVE  Advances
  <1>1. RegistryStep
    BY RegistryStutter DEF DropCallback
  <1>2. QED
    BY <1>1 DEF IInv, CallsMatch, DropCallback, Advances

-----------------------------------------------------------------------------
(***************************************************************************)
(* Sweeps, crashes and claims.                                             *)
(***************************************************************************)
LEMMA CloseKeepsCalls ==
  ASSUME IInv, NEW S \in SUBSET Lapsed
  PROVE  CallsMatch(CloseRuns(S), calls)
  <1>1. run \in [Leases -> NodeRun] /\ \A c \in calls : c.lease \in Leases
    BY DEF IInv, Consistent, CallsMatch, Call
  <1>2. ASSUME NEW l \in Leases
        PROVE  /\ CloseRuns(S)[l].node = run[l].node
               /\ run[l].outcome # "none" => CloseRuns(S)[l].outcome # "none"
    <2>1. run[l] \in NodeRun
      BY <1>1
    <2>2. \/ CloseRuns(S)[l] = run[l]
          \/ CloseRuns(S)[l] = [run[l] EXCEPT !.outcome = "lease_lost"]
          \/ CloseRuns(S)[l] = [run[l] EXCEPT !.outcome = "interrupted"]
      BY DEF CloseRuns
    <2>3. QED
      BY <2>1, <2>2 DEF NodeRun
  <1>3. QED
    BY <1>1, <1>2 DEF IInv, CallsMatch

LEMMA SweepExclusion ==
  ASSUME IInv, NEW S \in SUBSET Lapsed
  PROVE  Exclusion(ExpireAll(S))
  <1> DEFINE U == ExpireAll(S)
  <1>1. \A t \in S : ~Leased(U[t])
    <2> SUFFICES ASSUME NEW t \in S PROVE ~Leased(U[t])
      OBVIOUS
    <2>1. t \in Tickets /\ ticket[t] \in Frontmatter
      BY TicketFacts DEF Lapsed
    <2>2. U[t] = Expire(ticket[t])
      BY <2>1 DEF ExpireAll
    <2>3. QED
      BY <2>1, <2>2, ExpireTyped, NoExecTyped DEF Leased
  <1>2. \A t \in Tickets \ S : U[t] = ticket[t]
    BY DEF ExpireAll
  <1> HIDE DEF U
  <1>3. \A t \in Tickets : Leased(U[t]) => U[t] = ticket[t]
    BY <1>1, <1>2
  <1>4. QED
    BY <1>3 DEF IInv, Exclusion, U

(* A sweep of S ends the leases S holds and no other.                      *)
LEMMA SweepEnds ==
  ASSUME IInv, NEW S \in SUBSET Lapsed
  PROVE  /\ \A t \in Tickets : ExpireAll(S)[t].exec.lease =
                                IF t \in S THEN 0 ELSE ticket[t].exec.lease
         /\ Ended(CloseRuns(S)) =
              Ended(run) \cup {ticket[t].exec.lease : t \in S}
         /\ S \in SUBSET Tickets /\ \A t \in S : Leased(ticket[t])
  <1> DEFINE hit(l) == run[l].ticket \in S /\ ticket[run[l].ticket].exec.lease = l
  <1>1. S \in SUBSET Tickets /\ \A t \in S : Leased(ticket[t])
    BY DEF Lapsed
  <1>2. ASSUME NEW t \in Tickets
        PROVE  ExpireAll(S)[t].exec.lease =
                 IF t \in S THEN 0 ELSE ticket[t].exec.lease
    <2>1. ticket[t] \in Frontmatter
      BY TicketFacts
    <2>2. Expire(ticket[t]).exec.lease = 0
      BY <2>1, ExpireTyped DEF NoExec
    <2>3. QED
      BY <2>2 DEF ExpireAll
  <1>3. ASSUME NEW l \in Leases
        PROVE  CloseRuns(S)[l].outcome \notin {"none", "open"} <=>
                 run[l].outcome \notin {"none", "open"} \/ hit(l)
    <2>1. run[l] \in NodeRun
      BY DEF IInv, Consistent
    <2>2. ~hit(l) => CloseRuns(S)[l] = run[l]
      BY DEF CloseRuns
    <2>3. hit(l) => CloseRuns(S)[l] \in {[run[l] EXCEPT !.outcome = "lease_lost"],
                                         [run[l] EXCEPT !.outcome = "interrupted"]}
      BY DEF CloseRuns
    <2> HIDE DEF hit
    <2>4. hit(l) => CloseRuns(S)[l].outcome \in {"lease_lost", "interrupted"}
      BY <2>1, <2>3 DEF NodeRun
    <2>5. QED
      BY <2>2, <2>4
  <1>4. \A t \in S : /\ ticket[t].exec.lease \in Leases
                      /\ run[ticket[t].exec.lease].ticket = t
    <2> SUFFICES ASSUME NEW t \in S
                 PROVE  /\ ticket[t].exec.lease \in Leases
                        /\ run[ticket[t].exec.lease].ticket = t
      OBVIOUS
    <2>1. t \in Tickets /\ Leased(ticket[t]) /\ Bound(t, ticket, run, issued)
      BY <1>1 DEF IInv, Consistent
    <2>2. run[ticket[t].exec.lease] =
            [ticket |-> t, node |-> ticket[t].node, outcome |-> "open"]
      BY <2>1, Zenon DEF Bound
    <2>3. QED
      BY <2>1, <2>2, TicketFacts
  <1>5. \A l \in Leases : hit(l) <=> l \in {ticket[t].exec.lease : t \in S}
    BY <1>4
  <1> HIDE DEF hit
  <1>6. Ended(CloseRuns(S)) = Ended(run) \cup {ticket[t].exec.lease : t \in S}
    BY <1>3, <1>4, <1>5 DEF Ended
  <1>7. QED
    BY <1>1, <1>2, <1>6

LEMMA ExpiryStep ==
  ASSUME IInv, Sweep \/ Crash
  PROVE  Advances
  <1>1. PICK S \in SUBSET Lapsed :
          /\ ticket' = ExpireAll(S) /\ run' = CloseRuns(S)
          /\ issued' = issued /\ calls' \subseteq calls
    BY DEF Sweep, Crash
  <1>2. Consistent(ExpireAll(S), CloseRuns(S), issued)
    BY SweepStep DEF IInv
  <1>3. CallsMatch(CloseRuns(S), calls)
    BY CloseKeepsCalls
  <1>4. Exclusion(ExpireAll(S))
    BY SweepExclusion
  <1>5. RegistryStep
    BY <1>1, SweepEnds, RegistryEnd
  <1>6. QED
    BY <1>1, <1>2, <1>3, <1>4, <1>5 DEF IInv, CallsMatch, Advances

LEMMA GrantKeepsCalls ==
  ASSUME NEW T, NEW R, NEW i, Consistent(T, R, i), i < MaxLeases, NEW C,
         CallsMatch(R, C), NEW r
  PROVE  CallsMatch([R EXCEPT ![i + 1] = r], C)
  <1>1. ASSUME NEW c \in C PROVE c.lease \in Leases /\ c.lease # i + 1
    <2>1. c.lease \in Leases /\ R[c.lease].outcome # "none"
      BY DEF CallsMatch, Call
    <2>2. c.lease <= i
      BY <2>1 DEF Consistent, Issued
    <2>3. QED
      BY <2>1, <2>2, BoundAssumption DEF Leases, Consistent
  <1>2. R \in [Leases -> NodeRun]
    BY DEF Consistent
  <1>3. QED
    BY <1>1, <1>2 DEF CallsMatch

LEMMA GrantAction ==
  ASSUME IInv, NEW T, Consistent(T, CloseRuns(Lapsed), issued), Exclusion(T),
         NEW t \in Tickets, NEW s \in Supervisors, NEW h \in HostNames,
         ~Leased(T[t]),
         \A u \in Tickets : T[u].exec.lease = ExpireAll(Lapsed)[u].exec.lease,
         ~Conflicted(T, t, h), Grant(T, t, s, h)
  PROVE  Advances
  <1> DEFINE R == CloseRuns(Lapsed)
             r == [ticket |-> t, node |-> T[t].node, outcome |-> "open"]
  <1>1. CallsMatch(R, calls)
    BY CloseKeepsCalls
  <1>2. /\ issued < MaxLeases /\ issued' = issued + 1 /\ calls' = calls
        /\ ticket' = [T EXCEPT ![t] = Granted(T[t], s, h, issued + 1)]
        /\ run' = [R EXCEPT ![issued + 1] = r]
    BY DEF Grant
  <1> HIDE DEF R
  <1>3. Consistent(T, R, issued)
    BY DEF R
  <1>4. Consistent(ticket', run', issued')
    BY <1>2, <1>3, GrantStep
  <1>5. CallsMatch(run', calls')
    BY <1>1, <1>2, <1>3, GrantKeepsCalls
  <1>6. Exclusion(ticket')
    <2> DEFINE g == Granted(T[t], s, h, issued + 1)
    <2>1. g.owner.host = h
      <3>1. T[t] \in Frontmatter
        BY <1>3 DEF Consistent
      <3>2. QED
        BY <3>1 DEF Granted, Frontmatter
    <2> HIDE DEF g
    <2>2. ASSUME NEW u \in Tickets \ {t}, Leased(T[u]),
                 T[u].owner.host = h
          PROVE  ~Overlap(t, u)
      <3>1. Bound(u, T, R, issued)
        BY <1>3 DEF Consistent
      <3>2. T[u].status \in {"running", "blocked"}
        BY <2>2, <3>1 DEF Bound
      <3>3. QED
        BY <2>2, <3>2 DEF Conflicted, Active
    <2>3. \A u \in Tickets : ticket'[u] = IF u = t THEN g ELSE T[u]
      BY <1>2, <1>3 DEF Consistent, g
    <2>4. \A u \in Tickets : Overlap(t, u) <=> Overlap(u, t)
      BY DEF Overlap
    <2>5. QED
      BY <2>1, <2>2, <2>3, <2>4 DEF Exclusion
  <1>7. RegistryStep
    <2>1. issued \in 0..MaxLeases /\ issued + 1 \in Leases
      BY <1>2, <1>3, BoundAssumption DEF Consistent, Leases
    <2>2. R[issued + 1].outcome = "none"
      BY <1>3, <2>1, BoundAssumption DEF Consistent, Issued
    <2>3. Ended(run') = Ended(R)
      BY <1>2, <1>3, <2>1, <2>2 DEF Ended, Consistent
    <2>4. \A u \in Tickets : ticket'[u].exec.lease = IF u = t THEN issued + 1
                                                     ELSE T[u].exec.lease
      <3>1. Granted(T[t], s, h, issued + 1).exec.lease = issued + 1
        <4>1. T[t] \in Frontmatter
          BY <1>3 DEF Consistent
        <4>2. QED
          BY <4>1 DEF Granted, NoExec, Frontmatter
      <3>2. QED
        BY <1>2, <1>3, <3>1 DEF Consistent
    <2> DEFINE S == Lapsed
               swept == ExpireAll(S)
               lost == {ticket[u].exec.lease : u \in S}
    <2>5. /\ S \in SUBSET Tickets /\ \A u \in S : Leased(ticket[u])
          /\ Ended(R) = Ended(run) \cup lost
          /\ \A u \in Tickets : T[u].exec.lease =
                                 IF u \in S THEN 0 ELSE ticket[u].exec.lease
      BY SweepEnds DEF R
    <2> HIDE DEF S
    <2>6. t \in S \/ ~Leased(ticket[t])
      BY <2>5 DEF Leased
    <2>7. \A u \in Tickets : ticket'[u].exec.lease =
                              IF u = t THEN issued + 1
                              ELSE IF u \in S THEN 0 ELSE ticket[u].exec.lease
      BY <2>4, <2>5
    <2>8. Ended(run') = Ended(run) \cup lost
      BY <2>3, <2>5
    <2>9. QED
      BY <1>2, <2>5, <2>6, <2>7, <2>8, RegistryGrant
  <1>8. QED
    BY <1>4, <1>5, <1>6, <1>7 DEF IInv, Advances

LEMMA PausedExclusion ==
  ASSUME NEW T \in [Tickets -> Frontmatter], Exclusion(T),
         NEW P \in SUBSET {t \in Tickets : T[t].status = "ready"},
         NEW h
  PROVE  /\ Exclusion(Paused(T, P))
         /\ \A t \in Tickets : Conflicted(Paused(T, P), t, h)
                                 => Conflicted(T, t, h)
  <1> DEFINE U == Paused(T, P)
  <1>1. \A u \in Tickets : /\ U[u].exec = T[u].exec /\ U[u].owner = T[u].owner
                           /\ Active(U[u]) => Active(T[u])
    BY DEF Paused, CostPaused, Frontmatter, Active
  <1> HIDE DEF U
  <1>2. Exclusion(U)
    BY <1>1 DEF Exclusion, Leased
  <1>3. \A t \in Tickets : Conflicted(U, t, h) => Conflicted(T, t, h)
    BY <1>1 DEF Conflicted
  <1>4. QED
    BY <1>2, <1>3 DEF U

LEMMA ClaimStep ==
  ASSUME IInv, NEW s \in Supervisors, Claim(s) \/ ClaimActivity(s)
  PROVE  Advances
  <1> DEFINE T == ExpireAll(Lapsed)
             R == CloseRuns(Lapsed)
             costly(f) == {t \in f : OverBudget(T[t])}
  <1>1. Consistent(T, R, issued)
    BY SweepStep DEF IInv
  <1>2. ASSUME NEW t \in Tickets, T[t].status = "ready" PROVE ~Leased(T[t])
    BY <1>1, <1>2 DEF Consistent, Bound
  <1>3. ASSUME NEW pool \in Pools(T, s), NEW h \in HostsNamed(s),
               NEW t \in Candidates(T, s, h, pool)
        PROVE  t \in Tickets /\ T[t].status = "ready" /\ ~Conflicted(T, t, h)
    BY DEF Candidates, Pools, Reserved
  <1>4. Exclusion(T)
    BY SweepExclusion
  <1>a. HostsNamed(s) \subseteq HostNames
    BY DEF HostsNamed, HostNames
  <1>5. ASSUME ClaimActivity(s) PROVE Advances
    <2>1. PICK pool \in Pools(T, s), h \in HostsNamed(s) :
            \E t \in Candidates(T, s, h, pool) : Grant(T, t, s, h)
      BY <1>5 DEF ClaimActivity
    <2>2. PICK t \in Candidates(T, s, h, pool) : Grant(T, t, s, h)
      BY <2>1
    <2>3. t \in Tickets /\ ~Leased(T[t]) /\ ~Conflicted(T, t, h)
      BY <1>2, <1>3
    <2>4. h \in HostNames
      BY <1>a
    <2>5. QED
      BY <1>1, <1>4, <2>2, <2>3, <2>4, GrantAction DEF T
  <1>6. ASSUME Claim(s) PROVE Advances
    <2>1. PICK pool \in Pools(T, s), h \in HostsNamed(s) :
            LET found == Candidates(T, s, h, pool)
            IN  \/ \E t \in found \ costly(found), P \in SUBSET costly(found) :
                     Grant(Paused(T, P), t, s, h)
                \/ /\ ticket' = Paused(T, costly(found)) /\ run' = R
                   /\ UNCHANGED <<issued, calls>>
      BY <1>6 DEF Claim, Paused
    <2> DEFINE found == Candidates(T, s, h, pool)
    <2>2. \A P \in SUBSET costly(found) :
            P \in SUBSET {t \in Tickets : T[t].status = "ready"}
      BY <1>3
    <2>3. ASSUME NEW t \in found \ costly(found),
                 NEW P \in SUBSET costly(found), Grant(Paused(T, P), t, s, h)
          PROVE  Advances
      <3> DEFINE U == Paused(T, P)
      <3>1. t \in Tickets /\ ~Leased(T[t]) /\ ~Conflicted(T, t, h) /\ h \in HostNames
        BY <1>2, <1>3, <1>a
      <3>2. P \in SUBSET {u \in Tickets : T[u].status = "ready"}
        BY <2>2
      <3> HIDE DEF T
      <3>3. /\ Consistent(U, R, issued) /\ U[t].exec = T[t].exec
            /\ \A u \in Tickets : U[u].exec.lease = T[u].exec.lease
        BY <1>1, <3>1, <3>2, PauseStep
      <3>4. Exclusion(U) /\ ~Conflicted(U, t, h)
        BY <1>1, <1>4, <3>1, <3>2, PausedExclusion DEF Consistent
      <3> HIDE DEF U
      <3>5. ~Leased(U[t])
        BY <3>1, <3>3 DEF Leased
      <3>6. Grant(U, t, s, h)
        BY <2>3 DEF U
      <3>7. QED
        BY <3>1, <3>3, <3>4, <3>5, <3>6, GrantAction DEF T
    <2>4. ASSUME ticket' = Paused(T, costly(found)), run' = R,
                 UNCHANGED <<issued, calls>>
          PROVE  Advances
      <3> DEFINE P == costly(found)
      <3>1. P \in SUBSET {t \in Tickets : T[t].status = "ready"}
        BY <2>2
      <3>2. CallsMatch(R, calls)
        BY CloseKeepsCalls
      <3> HIDE DEF P, T, R
      <3>3. Consistent(Paused(T, P), R, issued) /\ Exclusion(Paused(T, P))
        BY <1>1, <1>4, <3>1, PauseStep, PausedExclusion DEF Consistent
      <3>4. ticket' = Paused(T, P)
        BY <2>4 DEF P
      <3>5. RegistryStep
        <4>1. \A t \in Tickets : ticket'[t].exec.lease = T[t].exec.lease
          BY <1>1, <3>1, <3>4, PauseStep
        <4>2. /\ \A t \in Tickets : ticket'[t].exec.lease =
                     IF t \in Lapsed THEN 0 ELSE ticket[t].exec.lease
              /\ Ended(run') = Ended(run) \cup
                                {ticket[t].exec.lease : t \in Lapsed}
          BY <2>4, <4>1, SweepEnds DEF T, R
        <4>3. Lapsed \in SUBSET Tickets /\ \A t \in Lapsed : Leased(ticket[t])
          BY DEF Lapsed
        <4>4. QED
          BY <2>4, <4>2, <4>3, RegistryEnd
      <3>6. QED
        BY <2>4, <3>2, <3>3, <3>4, <3>5 DEF IInv, Advances
    <2>5. QED
      BY <2>1, <2>3, <2>4
  <1>7. QED
    BY <1>5, <1>6

-----------------------------------------------------------------------------
(***************************************************************************)
(* The invariant holds of every reachable state.                           *)
(***************************************************************************)
LEMMA OperatorStep ==
  ASSUME IInv, NEW t \in Tickets, Operator(t)
  PROVE  Advances
  <1>1. CASE Ready(t) \/ ReturnToDraft(t) \/ Decide(t) \/ GithubFeedback(t)
    BY <1>1, PlaceStep
  <1>2. CASE Retry(t) \/ ReleaseSupervisor(t)
    BY <1>2, RestoreStep
  <1>3. CASE Archive(t) \/ Unarchive(t)
    BY <1>3, ArchiveStep
  <1>4. CASE \E how \in {"cancelled", "failed"} : Terminate(t, how)
    BY <1>4, TerminateStep
  <1>5. CASE \E n \in Nodes, fresh \in BOOLEAN : Migrate(t, n, fresh)
    BY <1>5, RedirectStep, Zenon DEF Migrate, Command
  <1>6. CASE \E last \in BOOLEAN : Answer(t, last)
    BY <1>6, AnswerStep
  <1>7. CASE \E s \in Status, n \in Nodes, d, torn \in BOOLEAN :
               FencingEdit(t, s, n, d, torn)
    BY <1>7, EditStep
  <1>8. CASE \E n \in Nodes : CheckpointAction(t, n)
    BY <1>8, RedirectStep, Zenon DEF CheckpointAction, Command
  <1>9. QED
    BY <1>1, <1>2, <1>3, <1>4, <1>5, <1>6, <1>7, <1>8 DEF Operator

LEMMA UnderLeaseStep ==
  ASSUME IInv, NEW t \in Tickets, NEW l \in Leases, UnderLease(t, l)
  PROVE  Advances
  <1>1. CASE Heartbeat(t, l) \/ ConfirmDelivery(t, l)
    BY <1>1, TimerStep
  <1>2. CASE RejectDelivery(t, l)
    BY <1>2, RejectStep
  <1>3. CASE Ask(t, l)
    BY <1>3, AskStep
  <1>4. CASE AcknowledgeInterrupt(t, l)
    BY <1>4, AcknowledgeStep
  <1>5. CASE \E kind \in {"complete", "fail", "activity"} :
               ReadCallback(t, l, kind)
    BY <1>5, ReadStep
  <1>6. QED
    BY <1>1, <1>2, <1>3, <1>4, <1>5 DEF UnderLease

LEMMA NextStep == IInv /\ [Next]_vars => Advances
  <1> SUFFICES ASSUME IInv, [Next]_vars PROVE Advances
    OBVIOUS
  <1>1. CASE \E s \in Supervisors : Claim(s) \/ ClaimActivity(s)
    BY <1>1, ClaimStep
  <1>2. CASE \E t \in Tickets : Operator(t)
    BY <1>2, OperatorStep
  <1>3. CASE \E t \in Tickets : Lapse(t)
    <2>1. PICK t \in Tickets : Lapse(t)
      BY <1>3
    <2>2. Leased(ticket[t]) /\ ticket[t].exec.lease \in Leases
      BY <2>1, TicketFacts DEF Lapse
    <2>3. QED
      BY <2>1, <2>2, TimerStep
  <1>4. CASE \E t \in Tickets, l \in Leases : UnderLease(t, l)
    BY <1>4, UnderLeaseStep
  <1>5. CASE \E l \in Leases, beat \in BOOLEAN : Overspend(l, beat)
    BY <1>5, OverspendStep
  <1>6. CASE \E c \in calls : CommitCallback(c) \/ DropCallback(c)
    BY <1>6, CommitStep, DropStep
  <1>7. CASE Sweep \/ Crash
    BY <1>7, ExpiryStep
  <1>8. CASE UNCHANGED vars
    BY <1>8, RegistryStutter DEF IInv, vars, Advances
  <1>9. QED
    BY <1>1, <1>2, <1>3, <1>4, <1>5, <1>6, <1>7, <1>8 DEF Next

LEMMA Invariant == Spec => []IInv
  <1>1. IInv /\ [Next]_vars => IInv'
    BY NextStep DEF Advances
  <1>2. QED
    BY <1>1, InitStep, PTL DEF Spec

(* Every stored ticket, run and callback has its type: no sequence of      *)
(* requests, sweeps, crashes and edits stores a malformed ticket.          *)
THEOREM TypeCorrect == Spec => []TypeOK
  <1>1. IInv => TypeOK
    BY DEF IInv, Consistent, CallsMatch, TypeOK
  <1>2. QED
    BY <1>1, Invariant, PTL

(* A ticket's execution is at its current node, under its supervisor, and  *)
(* is the only ticket whose execution has that lease; the lease's run is   *)
(* open exactly while the execution lasts.                                 *)
THEOREM RunsMatch == Spec => []RunMatchesExecution
  <1>1. IInv => RunMatchesExecution
    <2> SUFFICES ASSUME IInv PROVE RunMatchesExecution
      OBVIOUS
    <2>1. ASSUME NEW t \in Tickets, Leased(ticket[t])
          PROVE  /\ run[ticket[t].exec.lease] =
                      [ticket |-> t, node |-> ticket[t].node, outcome |-> "open"]
                 /\ ticket[t].exec.node = ticket[t].node
                 /\ ticket[t].exec.by = ticket[t].owner.sup
                 /\ ticket[t].owner # NoOwner
                 /\ ticket[t].status \in {"running", "blocked"}
      <3>1. Bound(t, ticket, run, issued)
        BY DEF IInv, Consistent
      <3>2. QED
        BY <2>1, <3>1, Zenon DEF Bound
    <2>2. ASSUME NEW l \in Leases, run[l].outcome = "open"
          PROVE  run[l].ticket \in Tickets /\ Holds(run[l].ticket, l)
      <3>1. Open(l, ticket, run) /\ l # 0
        BY BoundAssumption DEF IInv, Consistent, Leases
      <3>2. QED
        BY <2>2, <3>1 DEF Open, Holds
    <2>3. QED
      BY <2>1, <2>2, Zenon DEF RunMatchesExecution
  <1>2. QED
    BY <1>1, Invariant, PTL

(* A terminal callback that is not refused commits at the node it read     *)
(* before its await, whatever happened to the ticket meanwhile.            *)
THEOREM CallbacksCurrent == Spec => []CallbackNodeCurrent
  <1>1. IInv => CallbackNodeCurrent
    <2> SUFFICES ASSUME IInv, NEW c \in calls, NEW t \in Tickets,
                        Holds(t, c.lease)
                 PROVE  c.node = ticket[t].node
      BY DEF CallbackNodeCurrent
    <2>1. Leased(ticket[t]) /\ ticket[t].exec.lease = c.lease
      BY DEF Holds, Leased
    <2>2. Bound(t, ticket, run, issued) /\ run[c.lease].node = c.node
      BY DEF IInv, Consistent, CallsMatch
    <2>3. run[c.lease] =
            [ticket |-> t, node |-> ticket[t].node, outcome |-> "open"]
      BY <2>1, <2>2, Zenon DEF Bound
    <2>4. QED
      BY <2>2, <2>3
  <1>2. QED
    BY <1>1, Invariant, PTL

(* Two executions under one hostname never share a repository, whatever    *)
(* hostnames the tracker went by at the claims.                            *)
THEOREM RepositoriesExcluded == Spec => []RepoExclusion
  <1>1. IInv => RepoExclusion
    BY DEF IInv, Exclusion, RepoExclusion
  <1>2. QED
    BY <1>1, Invariant, PTL

(* The tracker implements the lease registry: a lease is granted once, to  *)
(* one ticket that holds no other, and once ended is never held again.     *)
THEOREM RegistryImplemented == Spec => ImplementsRegistry
  <1>1. Init => Registry!LInit
    <2> SUFFICES ASSUME Init PROVE Registry!LInit
      OBVIOUS
    <2>1. \A t \in Tickets : ticket[t].exec.lease = 0
      BY InitTickets, NoExecTyped
    <2>2. \A l \in Leases : run[l].outcome = "none"
      BY DEF Init, NoRun
    <2>3. QED
      BY <2>1, <2>2 DEF Registry!LInit, Init
  <1>2. IInv /\ [Next]_vars => [Registry!LNext]_(Registry!lvars)
    BY NextStep DEF Advances, RegistryStep
  <1>3. QED
    BY <1>1, <1>2, Invariant, PTL DEF Spec, ImplementsRegistry, Registry!LSpec

-----------------------------------------------------------------------------
(***************************************************************************)
(* What the workflow leaves of a ticket: the second invariant, of a single *)
(* ticket.  Sound is what expiry, callbacks and the inbox rely on; Counted *)
(* that a node at its limit of losses is the node the ticket stopped at.   *)
(***************************************************************************)
Sound(t) ==
    /\ Valid(t)
    /\ Leased(t) => t.node \in Work
    /\ ~Leased(t) => t.exec.interrupt = "none"
    /\ t.exec.interrupt = "move" => Kind[t.exec.to] \notin Terminal

Stopped == {"blocked", "failed", "cancelled"}

Counted(t) ==
    \A n \in Nodes : t.losses[n] = LossLimit
        => n = t.node /\ ~Leased(t) /\ t.status \in Stopped

Fresh(t) == \A n \in Nodes : t.losses[n] # LossLimit

(* No operator moves tickets over the workflow by hand.                    *)
Unmoved == Commands \cap {"migrate", "checkpoint"} = {}

(* A ticket p that t becomes where the workflow places it.                 *)
PlacedAs(t, p) ==
    /\ p \in Frontmatter
    /\ p.exec = t.exec /\ p.owner = t.owner /\ p.open = t.open
    /\ p.losses = t.losses
    /\ p.status \in {"blocked", "ready", "waiting_approval"} \cup Terminal
    /\ p.status = "ready" => p.node \in Work
    /\ p.status = "waiting_approval" => Kind[p.node] = "gate"
    /\ p.done = t.done \/ p.done = (Kind[p.node] \in Terminal)

LEMMA ProjectionPlaces ==
  ASSUME NEW n \in Nodes
  PROVE  /\ Projection(n) \in {"ready", "waiting_approval"} \cup Terminal
         /\ Projection(n) = "ready" => n \in Work
         /\ Projection(n) = "waiting_approval" => Kind[n] = "gate"
  <1>1. Kind[n] \in {"agent", "activity", "gate"} \cup Terminal
    BY GraphAssumption
  <1>2. QED
    BY <1>1 DEF Projection, Work, Terminal

LEMMA PlacePlaces ==
  ASSUME NEW t \in Frontmatter
  PROVE  PlacedAs(t, Place(t)) /\ Place(t).node = t.node
                               /\ Place(t).archived = t.archived
  <1> DEFINE d == Kind[t.node] \in Terminal
             s == Projection(t.node)
             b == [t EXCEPT !.status = "blocked"]
             u == [t EXCEPT !.status = s, !.done = d]
  <1>1. Place(t) \in Frontmatter
    BY PlaceTyped
  <1>2. /\ s \in {"ready", "waiting_approval"} \cup Terminal
        /\ s = "ready" => t.node \in Work
        /\ s = "waiting_approval" => Kind[t.node] = "gate"
    BY ProjectionPlaces DEF Frontmatter
  <1>3. d \in BOOLEAN /\ d = (Kind[t.node] \in Terminal)
    OBVIOUS
  <1>4. Place(t) = IF Bounded(t) THEN b ELSE u
    BY DEF Place
  <1> HIDE DEF d, s
  <1>5. CASE Bounded(t)
    <2>1. Place(t) = b
      BY <1>4, <1>5
    <2>2. /\ b.exec = t.exec /\ b.owner = t.owner /\ b.open = t.open
          /\ b.losses = t.losses /\ b.status = "blocked" /\ b.done = t.done
          /\ b.node = t.node /\ b.archived = t.archived
      BY DEF Frontmatter
    <2> HIDE DEF b
    <2>3. QED
      BY <1>1, <2>1, <2>2 DEF PlacedAs
  <1>6. CASE ~Bounded(t)
    <2>1. Place(t) = u
      BY <1>4, <1>6
    <2>2. /\ u.exec = t.exec /\ u.owner = t.owner /\ u.open = t.open
          /\ u.losses = t.losses /\ u.status = s /\ u.done = d
          /\ u.node = t.node /\ u.archived = t.archived
      BY DEF Frontmatter
    <2> HIDE DEF u
    <2>3. QED
      BY <1>1, <1>2, <1>3, <2>1, <2>2 DEF PlacedAs
  <1>7. QED
    BY <1>5, <1>6

LEMMA MoveToKeeps ==
  ASSUME NEW t \in Frontmatter, NEW n \in Nodes
  PROVE  /\ MoveTo(t, n).node = n /\ MoveTo(t, n).off = t.off
         /\ MoveTo(t, n).open = t.open /\ MoveTo(t, n).losses = t.losses
         /\ MoveTo(t, n).done = t.done /\ MoveTo(t, n).archived = t.archived
  BY DEF MoveTo, Frontmatter

LEMMA EnterPlaces ==
  ASSUME NEW t \in Frontmatter
  PROVE  /\ PlacedAs(t, Enter(t)) /\ Enter(t).archived = t.archived
         /\ \/ Enter(t).node = t.node
            \/ /\ Stage[t.node] \in Skippable
               /\ Enter(t).node = Bypass[Stage[t.node]]
  <1>1. CASE Stage[t.node] \in t.off /\ ~Bounded(t)
    <2> DEFINE n == Bypass[Stage[t.node]]
               u == MoveTo(t, n)
    <2>1. n \in Nodes /\ Stage[t.node] \in Skippable
      BY <1>1, BypassTyped DEF Frontmatter
    <2>2. Enter(t) = Place(u)
      BY <1>1 DEF Enter
    <2>3. /\ u \in Frontmatter /\ u.exec = t.exec /\ u.owner = t.owner
          /\ u.node = n /\ u.open = t.open /\ u.losses = t.losses
          /\ u.done = t.done /\ u.archived = t.archived
      BY <2>1, MoveToTyped, MoveToKeeps
    <2> HIDE DEF u
    <2>4. PlacedAs(u, Place(u)) /\ Place(u).node = n /\ Place(u).archived = u.archived
      BY <2>3, PlacePlaces
    <2>5. QED
      BY <2>1, <2>2, <2>3, <2>4 DEF PlacedAs
  <1>2. CASE ~(Stage[t.node] \in t.off /\ ~Bounded(t))
    BY <1>2, PlacePlaces DEF Enter
  <1>3. QED
    BY <1>1, <1>2

LEMMA TransitionPlaces ==
  ASSUME NEW t \in Frontmatter, NEW n \in Nodes
  PROVE  /\ PlacedAs(t, Transition(t, n))
         /\ Transition(t, n).archived = t.archived
         /\ \/ Transition(t, n).node = n
            \/ /\ Stage[n] \in Skippable
               /\ Transition(t, n).node = Bypass[Stage[n]]
  <1> DEFINE u == MoveTo(t, n)
  <1>1. /\ u \in Frontmatter /\ u.exec = t.exec /\ u.owner = t.owner
        /\ u.node = n /\ u.open = t.open /\ u.losses = t.losses
        /\ u.done = t.done /\ u.archived = t.archived
    BY MoveToTyped, MoveToKeeps
  <1>2. Transition(t, n) = Enter(u)
    BY DEF Transition
  <1> HIDE DEF u
  <1>3. QED
    BY <1>1, <1>2, EnterPlaces DEF PlacedAs

LEMMA RelocatePlaces ==
  ASSUME NEW t \in Frontmatter, NEW n \in Nodes, NEW fresh \in BOOLEAN
  PROVE  \E u \in Frontmatter : /\ u.exec = t.exec /\ u.owner = t.owner
                                /\ Fresh(t) => Fresh(u)
                                /\ PlacedAs(u, Relocate(t, n, fresh))
  <1> DEFINE z == [k \in Nodes |-> 0]
             u == [t EXCEPT !.node = Start, !.moves = 0, !.off = DefaultOff,
                            !.losses = z, !.over = {}, !.pause = NoNode]
             v == [t EXCEPT !.off = @ \ {Stage[n]}]
             w == IF fresh THEN Reinitialize(t) ELSE v
  <1>1. z \in [Nodes -> 0..LossLimit]
    BY BoundAssumption
  <1>2. Reinitialize(t) = Enter(u)
    BY DEF Reinitialize
  <1>3. \A k \in Nodes : z[k] # LossLimit
    BY BoundAssumption
  <1> HIDE DEF z
  <1>4. /\ 0 \in 0..(MaxMoves + 1) /\ {} \in SUBSET Nodes
        /\ Start \in Nodes /\ DefaultOff \in SUBSET Skippable
    BY BoundAssumption, GraphAssumption
  <1>5. u \in Frontmatter /\ u.exec = t.exec /\ u.owner = t.owner /\ u.losses = z
    BY <1>1, <1>4 DEF Frontmatter
  <1>6. /\ v \in Frontmatter /\ v.exec = t.exec /\ v.owner = t.owner
        /\ v.losses = t.losses
    BY DEF Frontmatter
  <1>7. Relocate(t, n, fresh) = Transition(w, n)
    BY DEF Relocate
  <1> HIDE DEF u, v
  <1>8. Enter(u).losses = u.losses
    BY <1>5, EnterPlaces DEF PlacedAs
  <1>9. /\ w \in Frontmatter /\ w.exec = t.exec /\ w.owner = t.owner
        /\ w.losses \in {z, t.losses}
    BY <1>2, <1>5, <1>6, <1>8, EnterTyped
  <1> HIDE DEF w
  <1>10. PlacedAs(w, Relocate(t, n, fresh))
    BY <1>7, <1>9, TransitionPlaces
  <1>11. Fresh(t) => Fresh(w)
    BY <1>3, <1>9 DEF Fresh
  <1>12. QED
    BY <1>9, <1>10, <1>11

(***************************************************************************)
(* What a step does to the tickets it touches.                             *)
(***************************************************************************)
Fit(t) == /\ t \in Frontmatter /\ Sound(t)
          /\ Leased(t) => /\ t.exec.node = t.node
                          /\ t.status \in {"running", "blocked"}

Turn(old, new) == /\ Sound(new)
                  /\ Misplaced(new) => Misplaced(old) \/ new = Released(old)
                  /\ Unmoved /\ Counted(old) => Counted(new)

(* As a turn, but that the edit of a ticket's file may misplace it.        *)
EditTurn(t, new) == /\ Sound(new)
                    /\ Misplaced(new) => Displaced(t)
                    /\ Unmoved /\ Counted(ticket[t]) => Counted(new)

Owner(t) == IF Active(t) THEN t.owner ELSE NoOwner

(* Nobody takes a ticket: its owner keeps it or gives it up.               *)
Yields(old, new) == "reopen" \notin Commands => Owner(new) \in {Owner(old), NoOwner}

(* An interruption requested of execution e, where R are the runs after it.*)
Fenced(e, f, R) ==
    e.interrupt # "none" =>
      IF f.lease = e.lease
        THEN <<f.interrupt, f.to, f.fresh>> = <<e.interrupt, e.to, e.fresh>>
        ELSE R[e.lease].outcome \in {"interrupted", "delivery_failed", "erased"}

LEMMA MisplacedMeans ==
  ASSUME NEW t
  PROVE  Misplaced(t) <=> /\ Active(t) /\ t.status # "pending" /\ ~Leased(t)
                          /\ ~Claimable(t)
                          /\ t.status # "blocked" /\ t.status # "failed"
                          /\ ~(t.status = "waiting_approval" /\ Kind[t.node] = "gate")
  <1> DEFINE gate == t.status = "waiting_approval" /\ Kind[t.node] = "gate"
  <1>1. "human_gate" \in Attention(t) <=> gate
    BY DEF Attention
  <1>2. "blocked" \in Attention(t) <=> t.status = "blocked"
    BY DEF Attention
  <1>3. "failed" \in Attention(t) <=> t.status = "failed"
    BY DEF Attention
  <1>4. Attention(t) \subseteq {"question", "human_gate", "blocked", "failed"}
    BY DEF Attention
  <1> HIDE DEF gate
  <1>5. (Attention(t) \subseteq {"question"})
          <=> (~gate /\ t.status # "blocked" /\ t.status # "failed")
    BY <1>1, <1>2, <1>3, <1>4
  <1>6. QED
    BY <1>5 DEF Misplaced, gate

(* A step that leaves the ticket without a lease, placed or stopped.       *)
LEMMA RestTurn ==
  ASSUME NEW old, NEW new, Valid(new), ~Leased(new),
         new.exec.interrupt = "none",
         \/ new.status \in Stopped \cup {"pending", "completed"}
         \/ new.status = "ready" /\ new.node \in Work
         \/ new.status = "waiting_approval" /\ Kind[new.node] = "gate",
         Unmoved /\ Counted(old) => Counted(new)
  PROVE  Turn(old, new)
  <1>1. Sound(new)
    BY DEF Sound, Stopped
  <1>2. ~Misplaced(new)
    BY MisplacedMeans DEF Active, Claimable, Stopped
  <1>3. QED
    BY <1>1, <1>2 DEF Turn

LEMMA PlacedTurn ==
  ASSUME NEW old, NEW t, NEW new, PlacedAs(t, new), Valid(new),
         t.exec.lease = 0, t.exec.interrupt = "none",
         Unmoved /\ Counted(old) => Fresh(t)
  PROVE  Turn(old, new)
  <1>1. ~Leased(new) /\ new.exec.interrupt = "none"
    BY DEF PlacedAs, Leased
  <1>2. \/ new.status \in Stopped \cup {"pending", "completed"}
        \/ new.status = "ready" /\ new.node \in Work
        \/ new.status = "waiting_approval" /\ Kind[new.node] = "gate"
    BY DEF PlacedAs, Stopped, Terminal
  <1>3. Unmoved /\ Counted(old) => Counted(new)
    BY DEF Fresh, Counted, PlacedAs
  <1>4. QED
    BY <1>1, <1>2, <1>3, RestTurn

(* A step under a lease that lasts.                                        *)
LEMMA LeasedTurn ==
  ASSUME NEW old, NEW new, Fit(old), Leased(old), Valid(new),
         new.exec.lease = old.exec.lease, new.node = old.node,
         new.losses = old.losses, new.status \in {"running", "blocked"},
         new.exec.interrupt = "move" => Kind[new.exec.to] \notin Terminal
  PROVE  Turn(old, new)
  <1>1. Sound(new)
    BY DEF Fit, Sound, Leased
  <1>2. ~Misplaced(new)
    BY MisplacedMeans DEF Leased
  <1>3. Counted(old) => Counted(new)
    BY DEF Counted, Leased
  <1>4. QED
    BY <1>1, <1>2, <1>3 DEF Turn

(* A step that changes at most what a ticket without a lease shows.        *)
LEMMA IdleTurn ==
  ASSUME NEW old, NEW new, Fit(old), ~Leased(old), Valid(new),
         new.exec = old.exec, new.node = old.node, new.losses = old.losses,
         new.status = old.status
  PROVE  Turn(old, new)
  <1>1. Sound(new)
    BY DEF Fit, Sound, Leased
  <1>2. Misplaced(new) => Misplaced(old)
    BY MisplacedMeans DEF Active, Leased, Claimable
  <1>3. Counted(old) => Counted(new)
    BY DEF Counted, Leased
  <1>4. QED
    BY <1>1, <1>2, <1>3 DEF Turn

LEMMA FreshUnlessStopped ==
  ASSUME NEW t, Counted(t), Leased(t) \/ t.status \notin Stopped
  PROVE  Fresh(t)
  BY DEF Counted, Fresh

(* The losses of a ticket whose current node starts over.                  *)
LEMMA ClearedFresh ==
  ASSUME NEW t \in Frontmatter, Counted(t)
  PROVE  \A n \in Nodes : [t.losses EXCEPT ![t.node] = 0][n] # LossLimit
  BY BoundAssumption DEF Counted, Frontmatter

-----------------------------------------------------------------------------
(***************************************************************************)
(* What every step is shown to do beside Advances: a turn of every ticket, *)
(* respect for interruptions, and, where nobody reopens finished work, a   *)
(* step of the abstract repository lock, or none.                          *)
(***************************************************************************)
SInv == \A t \in Tickets : Sound(ticket[t])

LockStep == [Lock!RNext]_Reservations

Progress == /\ \A t \in Tickets : Turn(ticket[t], ticket'[t]) \/ EditTurn(t, ticket'[t])
            /\ \A t \in Tickets : Fenced(ticket[t].exec, ticket'[t].exec, run')
            /\ "reopen" \notin Commands => LockStep

LEMMA FitNow ==
  ASSUME IInv, SInv, NEW t \in Tickets
  PROVE  Fit(ticket[t])
  <1>1. ticket[t] \in Frontmatter /\ Bound(t, ticket, run, issued)
    BY DEF IInv, Consistent
  <1>2. QED
    BY <1>1 DEF SInv, Fit, Bound

LEMMA SameTurn ==
  ASSUME NEW t, Sound(t)
  PROVE  Turn(t, t)
  BY DEF Turn

LEMMA OwnersSame ==
  ASSUME \A t \in Tickets : Owner(ticket'[t]) = Owner(ticket[t])
  PROVE  LockStep
  BY DEF LockStep, Reservations, Owner, Active

LEMMA Standing ==
  ASSUME SInv, ticket' = ticket
  PROVE  Progress
  BY SameTurn, OwnersSame DEF SInv, Progress, Fenced

LEMMA OneTurn ==
  ASSUME IInv, SInv, NEW t \in Tickets, NEW new \in Frontmatter,
         ticket' = [ticket EXCEPT ![t] = new],
         Turn(ticket[t], new) \/ EditTurn(t, new),
         Yields(ticket[t], new), Fenced(ticket[t].exec, new.exec, run')
  PROVE  Progress
  <1>1. \A u \in Tickets : ticket'[u] = IF u = t THEN new ELSE ticket[u]
    BY DEF IInv, Consistent
  <1>2. \A u \in Tickets : Turn(ticket[u], ticket'[u]) \/ EditTurn(u, ticket'[u])
    BY <1>1, SameTurn DEF SInv
  <1>3. \A u \in Tickets : Fenced(ticket[u].exec, ticket'[u].exec, run')
    BY <1>1 DEF Fenced
  <1>4. ASSUME "reopen" \notin Commands PROVE LockStep
    <2>1. CASE Owner(new) = Owner(ticket[t])
      BY <1>1, <2>1, OwnersSame
    <2>2. CASE Owner(new) = NoOwner /\ Owner(ticket[t]) # NoOwner
      <3>1. \A u \in Tickets : Owner(ticket'[u]) =
              IF u = t THEN NoOwner ELSE Owner(ticket[u])
        BY <1>1, <2>2
      <3>2. Lock!Give(t)
        BY <2>2, <3>1 DEF Lock!Give, Reservations, Owner, Active
      <3>3. QED
        BY <3>2 DEF LockStep, Lock!RNext
    <2>3. QED
      BY <1>4, <2>1, <2>2 DEF Yields
  <1>5. QED
    BY <1>2, <1>3, <1>4 DEF Progress

LEMMA SupKept ==
  ASSUME NEW old, NEW new, new.owner \in {old.owner, NoOwner},
         Active(old) \/ ~Active(new) \/ "reopen" \in Commands
  PROVE  Yields(old, new)
  BY DEF Yields, Owner

(* A command on a ticket without a lease.                                  *)
LEMMA IdleProgress ==
  ASSUME IInv, SInv, NEW t \in Tickets, NEW new \in Frontmatter,
         ~Leased(ticket[t]), ticket' = [ticket EXCEPT ![t] = new],
         Turn(ticket[t], new), new.owner \in {ticket[t].owner, NoOwner},
         Active(ticket[t]) \/ ~Active(new) \/ "reopen" \in Commands
  PROVE  Progress
  <1>1. ticket[t].exec.interrupt = "none"
    BY DEF SInv, Sound
  <1>2. Fenced(ticket[t].exec, new.exec, run')
    BY <1>1 DEF Fenced
  <1>3. Yields(ticket[t], new)
    BY SupKept
  <1>4. QED
    BY <1>2, <1>3, OneTurn

(* A step under a lease that lasts, and leaves its interruption requested. *)
LEMMA LeasedProgress ==
  ASSUME IInv, SInv, NEW t \in Tickets, NEW new \in Frontmatter,
         Leased(ticket[t]), ticket' = [ticket EXCEPT ![t] = new], Valid(new),
         new.exec.lease = ticket[t].exec.lease, new.node = ticket[t].node,
         new.owner = ticket[t].owner,
         new.losses = ticket[t].losses, new.status \in {"running", "blocked"},
         \/ <<new.exec.interrupt, new.exec.to, new.exec.fresh>> =
              <<ticket[t].exec.interrupt, ticket[t].exec.to, ticket[t].exec.fresh>>
         \/ /\ ticket[t].exec.interrupt = "none"
            /\ new.exec.interrupt = "move" => Kind[new.exec.to] \notin Terminal
  PROVE  Progress
  <1>1. Fit(ticket[t])
    BY FitNow
  <1>2. new.exec.interrupt = "move" => Kind[new.exec.to] \notin Terminal
    BY <1>1 DEF Fit, Sound
  <1>3. Turn(ticket[t], new)
    BY <1>1, <1>2, LeasedTurn
  <1>4. Yields(ticket[t], new)
    BY <1>1, SupKept DEF Fit, Active
  <1>5. Fenced(ticket[t].exec, new.exec, run')
    BY DEF Fenced
  <1>6. QED
    BY <1>3, <1>4, <1>5, OneTurn

(* A step that ends a lease; if an interruption of it was requested, as    *)
(* interrupted or undelivered.                                             *)
LEMMA EndProgress ==
  ASSUME IInv, SInv, NEW t \in Tickets, NEW new \in Frontmatter, NEW o \in Settled,
         Leased(ticket[t]), ~Leased(new), ticket' = [ticket EXCEPT ![t] = new],
         run' = [run EXCEPT ![ticket[t].exec.lease].outcome = o],
         \/ ticket[t].exec.interrupt = "none"
         \/ o \in {"interrupted", "delivery_failed"},
         Turn(ticket[t], new), new.owner = ticket[t].owner
  PROVE  Progress
  <1>1. Yields(ticket[t], new)
    BY FitNow, SupKept DEF Fit, Active
  <1>2. ticket[t].exec.lease \in Leases /\ run \in [Leases -> NodeRun]
    BY TicketFacts DEF IInv, Consistent
  <1>3. run'[ticket[t].exec.lease].outcome = o
    BY <1>2 DEF NodeRun
  <1>4. Fenced(ticket[t].exec, new.exec, run')
    BY <1>3 DEF Fenced, Leased
  <1>5. QED
    BY <1>1, <1>4, OneTurn

LEMMA PlacedProgress ==
  ASSUME IInv, SInv, NEW t \in Tickets, NEW base, NEW new,
         ~Leased(ticket[t]), PlacedAs(base, new), Valid(new),
         base.exec = ticket[t].exec, base.owner = ticket[t].owner,
         ticket' = [ticket EXCEPT ![t] = new],
         Active(ticket[t]) \/ "reopen" \in Commands,
         Unmoved /\ Counted(ticket[t]) => Fresh(base)
  PROVE  Progress
  <1>1. base.exec.lease = 0 /\ base.exec.interrupt = "none"
    BY DEF SInv, Sound, Leased
  <1>2. Turn(ticket[t], new)
    BY <1>1, PlacedTurn
  <1>3. new \in Frontmatter /\ new.owner = ticket[t].owner
    BY DEF PlacedAs
  <1>4. QED
    BY <1>2, <1>3, IdleProgress

LEMMA PlaceProgress ==
  ASSUME IInv, SInv, NEW t \in Tickets,
         \/ Ready(t) \/ ReturnToDraft(t) \/ Decide(t) \/ GithubFeedback(t)
  PROVE  Progress
  <1> DEFINE old == ticket[t]
  <1>1. old \in Frontmatter /\ old.node \in Nodes
    BY TicketFacts
  <1>2. ASSUME Ready(t) PROVE Progress
    <2>1. /\ old.status = "pending" /\ Valid(Enter(old))
          /\ ticket' = [ticket EXCEPT ![t] = Enter(old)]
      BY <1>2 DEF Ready, Command, Store
    <2>2. ~Leased(old) /\ Active(old) /\ (Counted(old) => Fresh(old))
      BY <2>1, TicketFacts, FreshUnlessStopped DEF Active, Stopped
    <2>3. PlacedAs(old, Enter(old))
      BY <1>1, EnterPlaces
    <2>4. QED
      BY <2>1, <2>2, <2>3, PlacedProgress
  <1>3. ASSUME ReturnToDraft(t) PROVE Progress
    <2> DEFINE new == [old EXCEPT !.status = "pending"]
    <2>1. /\ old.status = "ready" /\ ~Leased(old) /\ Valid(new)
          /\ ticket' = [ticket EXCEPT ![t] = new]
      BY <1>3 DEF ReturnToDraft, Command, Store, Idle
    <2>2. /\ new \in Frontmatter /\ new.exec = old.exec /\ new.owner = old.owner
          /\ new.status = "pending" /\ new.losses = old.losses
      BY <1>1 DEF Frontmatter, Status
    <2> HIDE DEF new
    <2>3. Active(old) /\ (Counted(old) => Fresh(old))
      BY <2>1, FreshUnlessStopped DEF Active, Stopped
    <2>4. Counted(old) => Counted(new)
      BY <2>2, <2>3 DEF Fresh, Counted
    <2>5. ~Leased(new) /\ new.exec.interrupt = "none"
      BY <2>1, <2>2 DEF SInv, Sound, Leased
    <2>6. Turn(old, new)
      BY <2>1, <2>2, <2>4, <2>5, RestTurn
    <2>7. QED
      BY <2>1, <2>2, <2>3, <2>6, IdleProgress
  <1>4. ASSUME NEW n \in Nodes, old.status \in {"waiting_approval", "completed"},
               Store(t, Transition(old, n)),
               Active(old) \/ "reopen" \in Commands
        PROVE  Progress
    <2>1. ~Leased(old) /\ (Counted(old) => Fresh(old))
      BY <1>4, TicketFacts, FreshUnlessStopped DEF Stopped
    <2>2. PlacedAs(old, Transition(old, n))
      BY <1>1, TransitionPlaces
    <2>3. QED
      BY <1>4, <2>1, <2>2, PlacedProgress DEF Store
  <1>5. ASSUME Decide(t) PROVE Progress
    <2>1. PICK n \in Succ[old.node] : /\ old.status = "waiting_approval"
                                      /\ Store(t, Transition(old, n))
      BY <1>5 DEF Decide, Command
    <2>2. n \in Nodes /\ Active(old)
      BY <1>1, <2>1, GraphAssumption DEF Active
    <2>3. QED
      BY <1>4, <2>1, <2>2
  <1>6. ASSUME GithubFeedback(t) PROVE Progress
    <2>1. PICK n \in Feedback[old.node] : /\ old.status = "completed"
                                          /\ "reopen" \in Commands
                                          /\ Store(t, Transition(old, n))
      BY <1>6 DEF GithubFeedback, Command
    <2>2. n \in Nodes
      BY <1>1, <2>1, GraphAssumption
    <2>3. QED
      BY <1>4, <2>1, <2>2
  <1>7. QED
    BY <1>2, <1>3, <1>5, <1>6

LEMMA RetryProgress ==
  ASSUME IInv, SInv, NEW t \in Tickets, Retry(t)
  PROVE  Progress
  <1> DEFINE old == ticket[t]
             clear == [old.losses EXCEPT ![old.node] = 0]
             base == [old EXCEPT !.losses = clear]
  <1>1. old \in Frontmatter /\ old.node \in Nodes
    BY TicketFacts
  <1>2. clear \in [Nodes -> 0..LossLimit]
    BY <1>1, BoundAssumption DEF Frontmatter
  <1>3. Counted(old) => \A n \in Nodes : clear[n] # LossLimit
    BY <1>1, ClearedFresh
  <1>4. base = [old EXCEPT !.losses[old.node] = 0]
    OBVIOUS
  <1> HIDE DEF clear
  <1>5. /\ base \in Frontmatter /\ base.exec = old.exec /\ base.owner = old.owner
        /\ base.losses = clear
    BY <1>1, <1>2 DEF Frontmatter
  <1> HIDE DEF base
  <1>6. /\ ~Leased(old) /\ old.status \in {"failed", "blocked"}
        /\ Valid(Enter(base)) /\ ticket' = [ticket EXCEPT ![t] = Enter(base)]
    BY <1>4 DEF Retry, Command, Store, Idle
  <1>7. PlacedAs(base, Enter(base))
    BY <1>5, EnterPlaces
  <1>8. Counted(old) => Fresh(base)
    BY <1>3, <1>5 DEF Fresh
  <1>9. QED
    BY <1>5, <1>6, <1>7, <1>8, PlacedProgress DEF Active

LEMMA ReleaseProgress ==
  ASSUME IInv, SInv, NEW t \in Tickets, ReleaseSupervisor(t)
  PROVE  Progress
  <1> DEFINE old == ticket[t]
             clear == [old.losses EXCEPT ![old.node] = 0]
             freed == [old EXCEPT !.owner = NoOwner]
             offered == [freed EXCEPT !.status = "ready", !.losses = clear]
             new == Released(old)
  <1>1. old \in Frontmatter /\ old.node \in Nodes
    BY TicketFacts
  <1>2. clear \in [Nodes -> 0..LossLimit]
    BY <1>1, BoundAssumption DEF Frontmatter
  <1>3. Counted(old) => \A n \in Nodes : clear[n] # LossLimit
    BY <1>1, ClearedFresh
  <1>4. /\ ~Leased(old) /\ Active(old) /\ Valid(new)
        /\ ticket' = [ticket EXCEPT ![t] = new]
    BY DEF ReleaseSupervisor, Command, Store, Idle
  <1>5. (new = freed) \/ (new = offered /\ ~old.open)
    <2>1. new \in {freed, offered}
      BY <1>1 DEF Released, Frontmatter
    <2>2. old.open => new = freed
      BY DEF Released
    <2>3. QED
      BY <2>1, <2>2
  <1>6. old.exec.interrupt = "none" /\ Sound(old)
    BY <1>4 DEF SInv, Sound
  <1>7. new = Released(old)
    OBVIOUS
  <1> HIDE DEF new, clear
  <1>8. /\ freed \in Frontmatter /\ freed.exec = old.exec /\ freed.owner = NoOwner
        /\ freed.status = old.status /\ freed.node = old.node
        /\ freed.open = old.open /\ freed.losses = old.losses
    BY <1>1, NoOwnerTyped DEF Frontmatter
  <1>9. /\ offered \in Frontmatter /\ offered.exec = old.exec
        /\ offered.owner = NoOwner /\ offered.status = "ready"
        /\ offered.open = old.open /\ offered.losses = clear
    BY <1>1, <1>2, NoOwnerTyped DEF Frontmatter, Status
  <1> HIDE DEF freed, offered
  <1>10. Sound(new)
    BY <1>4, <1>5, <1>6, <1>8, <1>9 DEF Sound, Leased
  <1>11. Counted(old) => Counted(new)
    BY <1>3, <1>5, <1>8, <1>9 DEF Counted, Leased
  <1>12. Turn(old, new)
    BY <1>7, <1>10, <1>11 DEF Turn
  <1>13. new \in Frontmatter /\ new.owner = NoOwner
    BY <1>5, <1>8, <1>9
  <1>14. QED
    BY <1>4, <1>12, <1>13, IdleProgress

LEMMA TerminateProgress ==
  ASSUME IInv, SInv, NEW t \in Tickets, NEW how \in {"cancelled", "failed"},
         Terminate(t, how)
  PROVE  Progress
  <1> DEFINE old == ticket[t]
             e == old.exec
             ended == [old EXCEPT !.status = how]
             asked == Requested(old, how, e.to, e.fresh, e.lapsed)
  <1>1. old \in Frontmatter /\ e \in Execution
    BY TicketFacts
  <1>2. CASE ~Leased(old)
    <2>1. /\ Valid(ended) /\ ticket' = [ticket EXCEPT ![t] = ended]
          /\ Active(old) \/ how = "cancelled" \/ "reopen" \in Commands
      BY <1>2 DEF Terminate, Command, Store, Idle, Reopens
    <2>2. /\ ended \in Frontmatter /\ ended.exec = e /\ ended.owner = old.owner
          /\ ended.status = how /\ ended.losses = old.losses
          /\ ended.node = old.node
      BY <1>1 DEF Frontmatter, Status, Terminal
    <2> HIDE DEF ended
    <2>3. ended.status \in Stopped /\ ~Leased(ended)
      BY <1>2, <2>2 DEF Stopped, Leased
    <2>4. ended.exec.interrupt = "none"
      BY <1>2, <2>2 DEF SInv, Sound
    <2>5. Counted(old) => Counted(ended)
      BY <2>2, <2>3 DEF Counted
    <2>6. Turn(old, ended)
      BY <2>1, <2>3, <2>4, <2>5, RestTurn
    <2>7. Active(old) \/ ~Active(ended) \/ "reopen" \in Commands
      BY <2>1, <2>2 DEF Active
    <2>8. QED
      BY <1>2, <2>1, <2>2, <2>6, <2>7, IdleProgress
  <1>3. CASE Leased(old)
    <2>1. /\ how \in Interrupts /\ e.to \in Nodes
          /\ e.fresh \in BOOLEAN /\ e.lapsed \in BOOLEAN
      BY <1>1 DEF Execution, Interrupts
    <2>2. asked = [old EXCEPT !.exec.interrupt = how]
      BY <1>1 DEF Requested, Execution, Frontmatter
    <2>3. /\ e.interrupt = "none" /\ Valid(asked)
          /\ ticket' = [ticket EXCEPT ![t] = asked]
      BY <1>3, <2>2 DEF Terminate, Command, Store, Idle
    <2>4. asked.losses = old.losses /\ asked.exec.interrupt = how
      BY <1>1 DEF Requested, Execution, Frontmatter
    <2> HIDE DEF asked
    <2>5. /\ asked \in Frontmatter /\ asked.node = old.node
          /\ asked.owner = old.owner /\ asked.exec.lease = e.lease
          /\ asked.status \in {"running", "blocked"}
      BY <1>3, <2>1, RequestTyped DEF asked
    <2>6. QED
      BY <1>3, <2>3, <2>4, <2>5, LeasedProgress
  <1>4. QED
    BY <1>2, <1>3

LEMMA RedirectProgress ==
  ASSUME IInv, SInv, NEW t \in Tickets, NEW n \in Nodes, NEW fresh \in BOOLEAN,
         Store(t, Redirect(t, n, fresh)), ~Unmoved, Kind[n] \notin Terminal,
         ticket[t].exec.interrupt = "none",
         Active(ticket[t]) \/ "reopen" \in Commands
  PROVE  Progress
  <1> DEFINE old == ticket[t]
             e == old.exec
             there == Relocate(old, n, fresh)
             moved == [there EXCEPT !.archived = FALSE]
             asked == Requested(old, "move", n, fresh, e.lapsed)
  <1>1. old \in Frontmatter /\ e \in Execution
    BY TicketFacts
  <1>2. CASE ~Leased(old)
    <2>1. PICK u \in Frontmatter : /\ u.exec = e /\ u.owner = old.owner
                                   /\ PlacedAs(u, there)
      BY <1>1, RelocatePlaces
    <2>2. Valid(moved) /\ ticket' = [ticket EXCEPT ![t] = moved]
      BY <1>2 DEF Redirect, Store, Idle
    <2> HIDE DEF there
    <2>3. /\ moved \in Frontmatter /\ moved.exec = there.exec
          /\ moved.owner = there.owner /\ moved.open = there.open
          /\ moved.losses = there.losses /\ moved.status = there.status
          /\ moved.node = there.node /\ moved.done = there.done
      BY <2>1 DEF PlacedAs, Frontmatter
    <2> HIDE DEF moved
    <2>4. PlacedAs(u, moved)
      BY <2>1, <2>3 DEF PlacedAs
    <2>5. QED
      BY <1>2, <2>1, <2>2, <2>4, PlacedProgress
  <1>3. CASE Leased(old)
    <2>1. "move" \in Interrupts /\ e.lapsed \in BOOLEAN
      BY <1>1 DEF Execution, Interrupts
    <2>2. asked = [old EXCEPT !.exec.interrupt = "move", !.exec.to = n,
                              !.exec.fresh = fresh]
      BY ZenonT(60), <1>1 DEF Requested, Execution, Frontmatter
    <2>3. Valid(asked) /\ ticket' = [ticket EXCEPT ![t] = asked]
      BY <1>3, <2>2 DEF Redirect, Store, Idle
    <2>4. asked.losses = old.losses /\ asked.exec.to = n
      BY <1>1 DEF Requested, Execution, Frontmatter
    <2> HIDE DEF asked
    <2>5. /\ asked \in Frontmatter /\ asked.node = old.node
          /\ asked.owner = old.owner /\ asked.exec.lease = e.lease
          /\ asked.status \in {"running", "blocked"}
      BY <1>3, <2>1, RequestTyped DEF asked
    <2>6. QED
      BY <1>3, <2>3, <2>4, <2>5, LeasedProgress
  <1>4. QED
    BY <1>2, <1>3

LEMMA AnswerProgress ==
  ASSUME IInv, SInv, NEW t \in Tickets, NEW last \in BOOLEAN, Answer(t, last)
  PROVE  Progress
  <1> DEFINE old == ticket[t]
             s == IF Idle(t) THEN old.status
                  ELSE IF last THEN "running" ELSE "blocked"
             new == [old EXCEPT !.open = ~last, !.status = s]
  <1>1. old \in Frontmatter /\ old.open \in BOOLEAN /\ old.open
    BY TicketFacts DEF Frontmatter, Answer, Command
  <1>2. /\ s \in Status /\ (~Leased(old) => s = old.status)
        /\ (Leased(old) => s \in {"running", "blocked"})
    BY <1>1 DEF Frontmatter, Status, Idle
  <1>3. Valid(new) /\ ticket' = [ticket EXCEPT ![t] = new]
    BY DEF Answer, Command, Store
  <1> HIDE DEF s
  <1>4. /\ new \in Frontmatter /\ new.status = s /\ new.exec = old.exec
        /\ new.node = old.node /\ new.owner = old.owner
        /\ new.losses = old.losses /\ new.open \in BOOLEAN
    BY <1>1, <1>2 DEF Frontmatter
  <1> HIDE DEF new
  <1>5. CASE Leased(old)
    BY <1>2, <1>3, <1>4, <1>5, LeasedProgress
  <1>6. CASE ~Leased(old)
    <2>1. new.status = old.status
      BY <1>2, <1>4, <1>6
    <2>2. Turn(old, new)
      BY <1>1, <1>3, <1>4, <1>6, <2>1, FitNow, IdleTurn
    <2>3. QED
      BY <1>3, <1>4, <1>6, <2>1, <2>2, IdleProgress DEF Active
  <1>7. QED
    BY <1>5, <1>6

LEMMA ArchiveProgress ==
  ASSUME IInv, SInv, NEW t \in Tickets, Archive(t) \/ Unarchive(t)
  PROVE  Progress
  <1> DEFINE old == ticket[t]
  <1>1. PICK b \in BOOLEAN :
          /\ Valid([old EXCEPT !.archived = b])
          /\ ticket' = [ticket EXCEPT ![t] = [old EXCEPT !.archived = b]]
    BY DEF Archive, Unarchive, Command, Store
  <1> DEFINE new == [old EXCEPT !.archived = b]
  <1>2. old \in Frontmatter /\ old.open \in BOOLEAN
    BY TicketFacts DEF Frontmatter
  <1>3. /\ new \in Frontmatter /\ new.exec = old.exec /\ new.node = old.node
        /\ new.owner = old.owner /\ new.losses = old.losses
        /\ new.status = old.status /\ new.open = old.open
    BY <1>2 DEF Frontmatter
  <1>4. old.status = "completed"
    BY DEF SInv, Sound, Valid, Archive, Unarchive, Command
  <1>5. ~Leased(old)
    BY <1>4, TicketFacts
  <1>6. Valid(new) /\ ticket' = [ticket EXCEPT ![t] = new]
    BY <1>1
  <1> HIDE DEF new
  <1>7. Turn(old, new)
    BY <1>2, <1>3, <1>5, <1>6, FitNow, IdleTurn
  <1>8. QED
    BY <1>3, <1>5, <1>6, <1>7, IdleProgress DEF Active

-----------------------------------------------------------------------------
LEMMA RewriteProgress ==
  ASSUME IInv, SInv, NEW t \in Tickets, NEW x \in Execution,
         x.lease = ticket[t].exec.lease, x.by = ticket[t].exec.by,
         NEW over \in SUBSET Nodes,
         ticket' = [ticket EXCEPT ![t] =
                      [ticket[t] EXCEPT !.exec = x, !.over = over]],
         \/ /\ x.interrupt = ticket[t].exec.interrupt
            /\ x.to = ticket[t].exec.to /\ x.fresh = ticket[t].exec.fresh
         \/ ticket[t].exec.interrupt = "none" /\ x.interrupt = "cost",
         Leased(ticket[t]) \/ x = ticket[t].exec
  PROVE  Progress
  <1> DEFINE old == ticket[t]
             new == [old EXCEPT !.exec = x, !.over = over]
  <1>1. old \in Frontmatter /\ old.open \in BOOLEAN /\ Valid(old)
    BY TicketFacts DEF Frontmatter, SInv, Sound
  <1>2. /\ new \in Frontmatter /\ new.exec = x /\ new.node = old.node
        /\ new.owner = old.owner /\ new.status = old.status
        /\ new.losses = old.losses /\ new.open = old.open
        /\ new.done = old.done /\ new.archived = old.archived
    BY <1>1 DEF Frontmatter
  <1> HIDE DEF new
  <1>3. Valid(new)
    BY <1>1, <1>2 DEF Valid, Leased
  <1>4. ticket' = [ticket EXCEPT ![t] = new]
    BY DEF new
  <1>5. CASE Leased(old)
    <2>1. new.status \in {"running", "blocked"}
      BY <1>2, <1>5, TicketFacts
    <2>2. \/ <<new.exec.interrupt, new.exec.to, new.exec.fresh>> =
               <<old.exec.interrupt, old.exec.to, old.exec.fresh>>
          \/ /\ old.exec.interrupt = "none"
             /\ new.exec.interrupt = "move" => Kind[new.exec.to] \notin Terminal
      BY <1>2
    <2>3. QED
      BY <1>2, <1>3, <1>4, <1>5, <2>1, <2>2, LeasedProgress
  <1>6. CASE ~Leased(old)
    <2>1. new.exec = old.exec
      BY <1>2, <1>6
    <2>2. Turn(old, new)
      BY <1>1, <1>2, <1>3, <1>6, <2>1, FitNow, IdleTurn
    <2>3. QED
      BY <1>2, <1>4, <1>6, <2>2, IdleProgress DEF Active
  <1>7. QED
    BY <1>5, <1>6

LEMMA TimerProgress ==
  ASSUME IInv, SInv, NEW t \in Tickets, NEW l \in Leases,
         Lapse(t) \/ Heartbeat(t, l) \/ ConfirmDelivery(t, l)
  PROVE  Progress
  <1> DEFINE old == ticket[t]
             lapse(b) == [old.exec EXCEPT !.lapsed = b]
             deliver == [old.exec EXCEPT !.delivery = "delivered"]
             kept(x) == /\ x \in Execution /\ x.lease = old.exec.lease
                        /\ x.by = old.exec.by /\ x.interrupt = old.exec.interrupt
                        /\ x.to = old.exec.to /\ x.fresh = old.exec.fresh
             put(x) == [old EXCEPT !.exec = x, !.over = old.over]
  <1>1. /\ old \in Frontmatter /\ old.exec \in Execution
        /\ old.over \in SUBSET Nodes /\ ticket \in [Tickets -> Frontmatter]
    BY TicketFacts DEF IInv, Consistent, Frontmatter
  <1>2. kept(lapse(TRUE)) /\ kept(lapse(FALSE)) /\ kept(deliver)
    BY <1>1 DEF Execution
  <1>3. PICK x \in {lapse(TRUE), lapse(FALSE), deliver} :
          ticket' = [ticket EXCEPT ![t].exec = x]
    BY DEF Lapse, Heartbeat, ConfirmDelivery
  <1>4. Leased(old)
    BY DEF Lapse, Heartbeat, ConfirmDelivery, Holds, Leased
  <1> HIDE DEF lapse, deliver
  <1>5. kept(x)
    BY <1>2, <1>3
  <1>6. [old EXCEPT !.exec = x] = put(x)
    BY <1>1, <1>5 DEF Frontmatter
  <1>7. QED
    BY <1>1, <1>3, <1>4, <1>5, <1>6, RewriteProgress

LEMMA OverspendProgress ==
  ASSUME IInv, SInv, NEW l \in Leases, NEW beat \in BOOLEAN, Overspend(l, beat)
  PROVE  Progress
  <1> DEFINE t == run[l].ticket
             n == run[l].node
             e == ticket[t].exec
             asked == IF e.interrupt = "none"
                        THEN [e EXCEPT !.interrupt = "cost", !.to = n] ELSE e
             request == IF beat THEN [asked EXCEPT !.lapsed = FALSE] ELSE asked
             x == IF Holds(t, l) THEN request ELSE e
             kept(y) == /\ y \in Execution /\ y.lease = e.lease /\ y.by = e.by
                        /\ \/ /\ y.interrupt = e.interrupt
                              /\ y.to = e.to /\ y.fresh = e.fresh
                           \/ e.interrupt = "none" /\ y.interrupt = "cost"
             over == ticket[t].over \cup {n}
             stored == [ticket[t] EXCEPT !.over = @ \cup {n}, !.exec = x]
             new == [ticket[t] EXCEPT !.exec = x, !.over = over]
  <1>1. t \in Tickets /\ n \in Nodes
    <2>1. run[l] \in NodeRun /\ Issued(l, run, issued) /\ run[l].outcome # "none"
      BY DEF IInv, Consistent, Overspend
    <2>2. QED
      BY <2>1 DEF NodeRun, Issued
  <1>2. ticket[t] \in Frontmatter /\ e \in Execution /\ over \in SUBSET Nodes
    BY <1>1, TicketFacts DEF Frontmatter
  <1>3. kept(asked)
    BY <1>1, <1>2 DEF Execution, Interrupts
  <1>4. kept(x)
    <2> HIDE DEF asked
    <2>1. kept([asked EXCEPT !.lapsed = FALSE])
      BY <1>3 DEF Execution
    <2>2. QED
      BY <1>2, <1>3, <2>1
  <1>5. Leased(ticket[t]) \/ x = e
    BY DEF Holds, Leased
  <1>6. ticket' = [ticket EXCEPT ![t] = stored]
    BY DEF Overspend
  <1> HIDE DEF x
  <1>7. stored = new
    BY <1>2 DEF Frontmatter
  <1> HIDE DEF stored
  <1>8. ticket' = [ticket EXCEPT ![t] = new]
    BY <1>6, <1>7
  <1> HIDE DEF t, over
  <1>9. QED
    BY <1>1, <1>2, <1>4, <1>5, <1>8, RewriteProgress

LEMMA AskProgress ==
  ASSUME IInv, SInv, NEW t \in Tickets, NEW l \in Leases, Ask(t, l)
  PROVE  Progress
  <1> DEFINE old == ticket[t]
             new == [old EXCEPT !.open = TRUE, !.status = "blocked"]
  <1>1. /\ new \in Frontmatter /\ new.exec = old.exec /\ new.node = old.node
        /\ new.owner = old.owner /\ new.losses = old.losses
        /\ new.status = "blocked"
    BY ZenonT(60), TicketFacts DEF Frontmatter, Status
  <1>2. Valid(new) /\ ticket' = [ticket EXCEPT ![t] = new] /\ Leased(old)
    BY DEF Ask, Store, Holds, Leased
  <1> HIDE DEF new
  <1>3. QED
    BY <1>1, <1>2, LeasedProgress

(* A lost lease, or an assignment that could not be delivered.             *)
LEMMA RequeueTurn ==
  ASSUME NEW t, Fit(t), Leased(t), Valid(Requeue(t))
  PROVE  /\ Turn(t, Requeue(t)) /\ Requeue(t).owner = t.owner
         /\ Active(Requeue(t)) /\ ~Leased(Requeue(t))
  <1> DEFINE n == t.exec.node
             k == Saturate(t.losses[n], LossLimit)
             s == IF k = LossLimit THEN "blocked" ELSE "ready"
             losses == [t.losses EXCEPT ![n] = k]
             new == [t EXCEPT !.losses = losses, !.exec = NoExec, !.status = s]
  <1>1. /\ t \in Frontmatter /\ n = t.node /\ n \in Nodes /\ n \in Work
        /\ t.losses \in [Nodes -> 0..LossLimit]
    BY DEF Fit, Sound, Frontmatter
  <1>2. s \in {"blocked", "ready"} /\ (k = LossLimit => s = "blocked")
    OBVIOUS
  <1>3. Requeue(t) = new
    BY <1>1 DEF Requeue, Frontmatter
  <1>4. \A m \in Nodes : losses[m] = IF m = n THEN k ELSE t.losses[m]
    BY <1>1
  <1> HIDE DEF k, s, losses
  <1>5. /\ new.exec = NoExec /\ new.owner = t.owner /\ new.status = s
        /\ new.losses = losses /\ new.node = t.node
    BY <1>1 DEF Frontmatter
  <1> HIDE DEF new
  <1>6. ~Leased(new) /\ new.exec.interrupt = "none" /\ Active(new)
    BY <1>2, <1>5 DEF Leased, NoExec, Active
  <1>7. Counted(t) => Counted(new)
    <2> SUFFICES ASSUME Counted(t), NEW m \in Nodes, new.losses[m] = LossLimit
                 PROVE  m = new.node /\ new.status = "blocked"
      BY <1>6 DEF Counted, Stopped
    <2>1. Fresh(t)
      BY FreshUnlessStopped
    <2>2. m = n /\ k = LossLimit
      BY <1>4, <1>5, <2>1 DEF Fresh
    <2>3. QED
      BY <1>1, <1>2, <1>5, <2>2
  <1>8. \/ new.status \in Stopped \cup {"pending", "completed"}
        \/ new.status = "ready" /\ new.node \in Work
    BY <1>1, <1>2, <1>5 DEF Stopped
  <1>9. Turn(t, new)
    BY <1>3, <1>6, <1>7, <1>8, RestTurn
  <1>10. QED
    BY <1>3, <1>5, <1>6, <1>9

LEMMA ExpireTurn ==
  ASSUME NEW t, Fit(t), Leased(t), Valid(Expire(t))
  PROVE  /\ Turn(t, Expire(t)) /\ Expire(t).owner = t.owner
         /\ Active(Expire(t)) /\ ~Leased(Expire(t))
  <1> DEFINE e == t.exec
             moved == IF e.interrupt = "move" /\ ~e.fresh
                        THEN Transition(t, e.to) ELSE t
             p == IF e.interrupt = "cost" THEN e.to ELSE moved.pause
             new == [moved EXCEPT !.status = "blocked", !.exec = NoExec, !.pause = p]
  <1>1. t \in Frontmatter /\ e \in Execution /\ e.to \in Nodes
    BY DEF Fit, Frontmatter, Execution
  <1>2. CASE e.interrupt = "none"
    <2>1. Expire(t) = Requeue(t)
      BY <1>2 DEF Expire
    <2>2. QED
      BY <2>1, RequeueTurn
  <1>3. CASE e.interrupt # "none"
    <2>1. Expire(t) = new
      BY <1>3, Zenon DEF Expire
    <2>2. moved \in Frontmatter /\ moved.owner = t.owner /\ moved.losses = t.losses
      BY <1>1, TransitionPlaces DEF PlacedAs
    <2> HIDE DEF moved, p
    <2>3. /\ new.exec = NoExec /\ new.owner = t.owner /\ new.status = "blocked"
          /\ new.losses = t.losses
      BY <2>2 DEF Frontmatter
    <2> HIDE DEF new
    <2>4. ~Leased(new) /\ new.exec.interrupt = "none" /\ Active(new)
      BY <2>3 DEF Leased, NoExec, Active
    <2>5. Counted(t) => Counted(new)
      BY <2>3, FreshUnlessStopped DEF Fresh, Counted
    <2>6. Turn(t, new)
      BY <2>1, <2>3, <2>4, <2>5, RestTurn DEF Stopped
    <2>7. QED
      BY <2>1, <2>3, <2>4, <2>6
  <1>4. QED
    BY <1>2, <1>3

LEMMA RejectProgress ==
  ASSUME IInv, SInv, NEW t \in Tickets, NEW l \in Leases, RejectDelivery(t, l)
  PROVE  Progress
  <1> DEFINE new == Requeue(ticket[t])
  <1>1. /\ Leased(ticket[t]) /\ ticket[t].exec.lease = l /\ Valid(new)
        /\ ticket' = [ticket EXCEPT ![t] = new]
        /\ run' = [run EXCEPT ![l].outcome = "delivery_failed"]
    BY DEF RejectDelivery, Holds, Leased, Store, Finish
  <1>2. /\ new \in Frontmatter /\ Turn(ticket[t], new)
        /\ new.owner = ticket[t].owner /\ ~Leased(new)
    BY <1>1, FitNow, TicketFacts, RequeueTyped, RequeueTurn
  <1>3. "delivery_failed" \in Settled
    BY DEF Settled, Outcomes
  <1> HIDE DEF new
  <1>4. QED
    BY <1>1, <1>2, <1>3, EndProgress

LEMMA AcknowledgeProgress ==
  ASSUME IInv, SInv, NEW t \in Tickets, NEW l \in Leases, AcknowledgeInterrupt(t, l)
  PROVE  Progress
  <1> DEFINE old == ticket[t]
             e == old.exec
             mid == Interrupted(old)
             new == [mid EXCEPT !.exec = NoExec]
  <1>1. /\ Leased(old) /\ e.lease = l /\ e.interrupt # "none" /\ Valid(new)
        /\ ticket' = [ticket EXCEPT ![t] = new]
        /\ run' = [run EXCEPT ![l].outcome = "interrupted"]
    BY DEF AcknowledgeInterrupt, Holds, Leased, Store, Finish
  <1>2. old \in Frontmatter /\ e \in Execution /\ e.to \in Nodes /\ e.fresh \in BOOLEAN
    BY TicketFacts DEF Execution
  <1>3. mid \in Frontmatter
    BY <1>1, <1>2, InterruptedTyped
  <1>4. /\ mid.owner = old.owner
        /\ \/ mid.status \in Stopped \cup {"pending", "completed"}
           \/ mid.status = "ready" /\ mid.node \in Work
           \/ mid.status = "waiting_approval" /\ Kind[mid.node] = "gate"
        /\ Counted(old) => Fresh(mid)
    <2>0. Counted(old) => Fresh(old)
      BY <1>1, FreshUnlessStopped
    <2>1. CASE e.interrupt = "cost"
      <3>1. mid = [old EXCEPT !.status = "blocked", !.pause = e.to]
        BY <2>1 DEF Interrupted
      <3>2. mid.owner = old.owner /\ mid.status = "blocked" /\ mid.losses = old.losses
        BY <1>2, <3>1 DEF Frontmatter
      <3> HIDE DEF mid
      <3>3. QED
        BY <2>0, <3>2 DEF Stopped, Fresh
    <2>2. CASE e.interrupt = "move"
      <3>1. PICK u \in Frontmatter : /\ u.owner = old.owner
                                     /\ Fresh(old) => Fresh(u)
                                     /\ PlacedAs(u, Relocate(old, e.to, e.fresh))
        BY <1>2, RelocatePlaces
      <3>2. mid = Relocate(old, e.to, e.fresh)
        BY <2>2 DEF Interrupted
      <3> HIDE DEF mid
      <3>3. QED
        BY <2>0, <3>1, <3>2 DEF PlacedAs, Stopped, Terminal, Fresh
    <2>3. CASE e.interrupt \in {"cancelled", "failed"}
      <3>1. mid = [old EXCEPT !.status = e.interrupt]
        BY <2>3 DEF Interrupted
      <3>2. mid.owner = old.owner /\ mid.status = e.interrupt /\ mid.losses = old.losses
        BY <1>2, <3>1 DEF Frontmatter
      <3> HIDE DEF mid
      <3>3. QED
        BY <2>0, <2>3, <3>2 DEF Stopped, Fresh
    <2>4. QED
      BY <1>1, <1>2, <2>1, <2>2, <2>3 DEF Execution, Interrupts
  <1> HIDE DEF mid
  <1>5. /\ new \in Frontmatter /\ new.exec = NoExec /\ new.owner = mid.owner
        /\ new.status = mid.status /\ new.node = mid.node
        /\ new.losses = mid.losses
    BY <1>3, NoExecTyped DEF Frontmatter
  <1> HIDE DEF new
  <1>6. ~Leased(new) /\ new.exec.interrupt = "none"
    BY <1>5 DEF Leased, NoExec
  <1>7. Counted(old) => Counted(new)
    BY <1>4, <1>5 DEF Fresh, Counted
  <1>8. Turn(old, new)
    BY <1>1, <1>4, <1>5, <1>6, <1>7, RestTurn
  <1>9. "interrupted" \in Settled
    BY DEF Settled, Outcomes
  <1>10. QED
    BY <1>1, <1>4, <1>5, <1>6, <1>8, <1>9, EndProgress

LEMMA EditProgress ==
  ASSUME IInv, SInv, NEW t \in Tickets, NEW s \in Status, NEW n \in Nodes,
         NEW d \in BOOLEAN, NEW torn \in BOOLEAN, FencingEdit(t, s, n, d, torn)
  PROVE  Progress
  <1> DEFINE old == ticket[t]
  <1>1. old \in Frontmatter
    BY TicketFacts
  <1>2. PICK status \in Status, o \in SUBSET Nodes :
          LET new == Edited(old, status, n, d, o)
          IN  /\ Leased(old) /\ Valid(new) /\ ticket' = [ticket EXCEPT ![t] = new]
              /\ \/ torn /\ Erase(t)
                 \/ ~torn /\ Finish(old.exec.lease, "interrupted")
              /\ status = IF s \notin {"running", "blocked"} THEN s
                          ELSE IF d THEN "completed" ELSE "ready"
    BY <1>1, EditStores
  <1> DEFINE new == Edited(old, status, n, d, o)
  <1>3. /\ Leased(old) /\ Valid(new) /\ ticket' = [ticket EXCEPT ![t] = new]
        /\ status \notin {"running", "blocked"}
    BY <1>2
  <1>4. /\ new \in Frontmatter /\ new.exec = NoExec /\ new.owner = old.owner
        /\ new.status = status /\ new.node = n /\ new.done = d
        /\ new.losses = old.losses
    BY ZenonT(60), <1>1, NoExecTyped DEF Edited, Frontmatter
  <1> HIDE DEF new
  <1>5. ~Leased(new) /\ new.exec.interrupt = "none"
    BY <1>4 DEF Leased, NoExec
  <1>6. Sound(new)
    BY <1>3, <1>5 DEF Sound
  <1>7. ticket'[t] = new
    BY <1>3 DEF IInv, Consistent
  <1>8. Misplaced(new) => new.node # old.node \/ new.status = "waiting_approval"
    <2>1. old.node \in Work
      BY <1>3 DEF SInv, Sound
    <2>2. status \in {"pending", "ready", "waiting_approval", "completed", "failed", "cancelled"}
      BY <1>3 DEF Status, Terminal
    <2>3. QED
      BY <1>4, <2>1, <2>2, MisplacedMeans DEF Active, Claimable
  <1>9. FencingEdit(t, s, ticket'[t].node, ticket'[t].done, torn)
    BY <1>4, <1>7
  <1>10. Misplaced(new) => Displaced(t)
    BY <1>7, <1>8, <1>9 DEF Displaced
  <1>11. Counted(old) => Counted(new)
    BY <1>3, <1>4, FreshUnlessStopped DEF Fresh, Counted
  <1>12. EditTurn(t, new)
    BY <1>6, <1>10, <1>11 DEF EditTurn
  <1>13. Yields(old, new)
    BY <1>3, <1>4, FitNow, SupKept DEF Fit, Active
  <1>14. Fenced(old.exec, new.exec, run')
    <2> DEFINE l == old.exec.lease
    <2>1. /\ l \in Leases /\ run \in [Leases -> NodeRun]
          /\ Bound(t, ticket, run, issued)
      BY <1>3, TicketFacts DEF IInv, Consistent
    <2>2. run[l] = [ticket |-> t, node |-> old.node, outcome |-> "open"]
      BY <1>3, <2>1, Zenon DEF Bound
    <2>3. run[l].ticket = t
      BY <2>2
    <2>4. Erase(t) => run'[l].outcome = "erased"
      BY <2>1, <2>3 DEF Erase, NodeRun
    <2>5. Finish(l, "interrupted") => run'[l].outcome = "interrupted"
      BY <2>1 DEF Finish, NodeRun
    <2>6. run'[l].outcome \in {"interrupted", "delivery_failed", "erased"}
      BY <1>2, <2>4, <2>5
    <2>7. QED
      BY <1>3, <1>5, <2>6 DEF Fenced, Leased
  <1>15. QED
    BY <1>3, <1>4, <1>12, <1>13, <1>14, OneTurn

LEMMA SettlementTurn ==
  ASSUME NEW t, Fit(t), Leased(t), NEW c \in Call,
         NEW new \in Settlements(c, t), Valid(new)
  PROVE  Turn(t, new) /\ new.owner = t.owner
  <1> DEFINE z == [t.losses EXCEPT ![c.node] = 0]
             base == [t EXCEPT !.losses = z, !.exec = NoExec,
                               !.callback = c.lease]
             failed == [base EXCEPT !.status = "failed"]
  <1>1. /\ t \in Frontmatter /\ c.lease \in 0..MaxLeases
        /\ c.node \in Nodes /\ Succ[c.node] \subseteq Nodes
    BY BoundAssumption, GraphAssumption DEF Fit, Call, Leases
  <1>2. z \in [Nodes -> 0..LossLimit]
    BY <1>1, BoundAssumption DEF Frontmatter
  <1>3. Counted(t) => \A n \in Nodes : z[n] # LossLimit
    BY <1>1, FreshUnlessStopped, BoundAssumption DEF Fresh, Frontmatter
  <1>4. base = [t EXCEPT !.losses[c.node] = 0, !.exec = NoExec,
                         !.callback = c.lease]
    BY <1>1 DEF Frontmatter
  <1> HIDE DEF z
  <1>5. /\ base \in Frontmatter /\ base.exec = NoExec /\ base.owner = t.owner
        /\ base.losses = z
    BY <1>1, <1>2, NoExecTyped DEF Frontmatter
  <1> HIDE DEF base
  <1>6. /\ failed.exec = NoExec /\ failed.owner = t.owner /\ failed.losses = z
        /\ failed.status = "failed"
    BY <1>5 DEF Frontmatter
  <1>7. (\E n \in Succ[c.node] : new = Transition(base, n)) \/ new = failed
    BY <1>4 DEF Settlements
  <1> HIDE DEF failed
  <1>8. CASE \E n \in Succ[c.node] : new = Transition(base, n)
    <2>1. PlacedAs(base, new)
      BY <1>1, <1>5, <1>8, TransitionPlaces
    <2>2. Counted(t) => Fresh(base)
      BY <1>3, <1>5 DEF Fresh
    <2>3. base.exec.lease = 0 /\ base.exec.interrupt = "none"
      BY <1>5 DEF NoExec
    <2>4. Turn(t, new)
      BY <2>1, <2>2, <2>3, PlacedTurn
    <2>5. QED
      BY <1>5, <2>1, <2>4 DEF PlacedAs
  <1>9. CASE new = failed
    <2>1. ~Leased(new) /\ new.exec.interrupt = "none" /\ new.status \in Stopped
      BY <1>6, <1>9 DEF Leased, NoExec, Stopped
    <2>2. Counted(t) => Counted(new)
      BY <1>3, <1>6, <1>9 DEF Counted
    <2>3. Turn(t, new)
      BY <2>1, <2>2, RestTurn
    <2>4. QED
      BY <1>6, <1>9, <2>3
  <1>10. QED
    BY <1>7, <1>8, <1>9

LEMMA CommitProgress ==
  ASSUME IInv, SInv, NEW c \in calls, CommitCallback(c)
  PROVE  Progress
  <1> DEFINE t == run[c.lease].ticket
             l == c.lease
  <1>1. c \in Call /\ l \in Leases
    BY DEF IInv, CallsMatch, Call
  <1>2. t \in Tickets
    BY <1>1 DEF IInv, CallsMatch, Consistent, Issued
  <1>3. /\ Leased(ticket[t]) /\ ticket[t].exec.lease = l
        /\ ticket[t].exec.interrupt = "none"
    BY DEF CommitCallback, Holds, Leased
  <1>4. PICK new \in Settlements(c, ticket[t]) :
          Valid(new) /\ ticket' = [ticket EXCEPT ![t] = new]
    BY DEF CommitCallback, Store
  <1>5. PICK o \in {"completed", "failed"} :
          run' = [run EXCEPT ![l].outcome = o]
    BY DEF CommitCallback, Finish
  <1>6. new \in Frontmatter /\ ~Leased(new)
    BY <1>1, <1>2, TicketFacts, SettlementsTyped DEF Leased, NoExec
  <1>7. Turn(ticket[t], new) /\ new.owner = ticket[t].owner
    BY <1>1, <1>2, <1>3, <1>4, FitNow, SettlementTurn
  <1>8. o \in Settled
    BY DEF Settled, Outcomes
  <1> HIDE DEF t, l
  <1>9. QED
    BY <1>2, <1>3, <1>4, <1>5, <1>6, <1>7, <1>8, EndProgress

-----------------------------------------------------------------------------
LEMMA SweptTurn ==
  ASSUME IInv, SInv, NEW S \in SUBSET (Lapsed \ Poisoned), NEW t \in Tickets,
         NEW new, new = ExpireAll(S)[t]
  PROVE  /\ new \in Frontmatter /\ Turn(ticket[t], new)
         /\ new.owner = ticket[t].owner /\ (Active(new) <=> Active(ticket[t]))
         /\ t \in S => Leased(ticket[t]) /\ ~Leased(new)
         /\ t \notin S => new = ticket[t]
  <1>1. Fit(ticket[t]) /\ ticket[t] \in Frontmatter
    BY FitNow, TicketFacts
  <1>2. CASE t \in S
    <2>1. Leased(ticket[t]) /\ Valid(Expire(ticket[t])) /\ new = Expire(ticket[t])
      BY <1>2 DEF Lapsed, Poisoned, ExpireAll
    <2>2. new \in Frontmatter
      BY <1>1, <2>1, ExpireTyped
    <2>3. Active(ticket[t])
      BY <1>1, <2>1 DEF Fit, Active
    <2>4. QED
      BY <1>1, <1>2, <2>1, <2>2, <2>3, ExpireTurn
  <1>3. CASE t \notin S
    <2>1. new = ticket[t]
      BY <1>3 DEF ExpireAll
    <2>2. QED
      BY <1>1, <1>3, <2>1, SameTurn DEF Fit
  <1>4. QED
    BY <1>2, <1>3

(* The runs a sweep closes: interrupted, if that was requested.            *)
LEMMA SweptRuns ==
  ASSUME IInv, NEW S \in SUBSET Lapsed, NEW t \in S
  PROVE  CloseRuns(S)[ticket[t].exec.lease].outcome =
           IF ticket[t].exec.interrupt = "none" THEN "lease_lost" ELSE "interrupted"
  <1> DEFINE l == ticket[t].exec.lease
             o == IF ticket[run[l].ticket].exec.interrupt = "none"
                    THEN "lease_lost" ELSE "interrupted"
  <1>1. t \in Tickets /\ Leased(ticket[t]) /\ Bound(t, ticket, run, issued)
    BY DEF Lapsed, IInv, Consistent
  <1>2. run[l] = [ticket |-> t, node |-> ticket[t].node, outcome |-> "open"]
    BY <1>1, Zenon DEF Bound
  <1>3. l \in Leases /\ run[l] \in NodeRun /\ run[l].ticket = t
    BY <1>1, <1>2, TicketFacts DEF IInv, Consistent
  <1>4. CloseRuns(S)[l] = [run[l] EXCEPT !.outcome = o]
    BY <1>3 DEF CloseRuns
  <1>5. o = IF ticket[t].exec.interrupt = "none" THEN "lease_lost" ELSE "interrupted"
    BY <1>3
  <1> HIDE DEF o
  <1>6. QED
    BY <1>3, <1>4, <1>5 DEF NodeRun

LEMMA ExpiryProgress ==
  ASSUME IInv, SInv, Sweep \/ Crash
  PROVE  Progress
  <1>1. PICK S \in SUBSET (Lapsed \ Poisoned) :
          ticket' = ExpireAll(S) /\ run' = CloseRuns(S)
    BY DEF Sweep, Crash
  <1>2. \A t \in Tickets : Turn(ticket[t], ticket'[t])
    BY <1>1, SweptTurn
  <1>3. ASSUME NEW t \in Tickets
        PROVE  Fenced(ticket[t].exec, ticket'[t].exec, run')
    <2>1. CASE t \in S
      <3>1. Leased(ticket[t]) /\ ~Leased(ticket'[t])
        BY <1>1, <2>1, SweptTurn
      <3>2. run'[ticket[t].exec.lease].outcome =
              IF ticket[t].exec.interrupt = "none" THEN "lease_lost" ELSE "interrupted"
        BY <1>1, <2>1, SweptRuns
      <3>3. QED
        BY <3>1, <3>2 DEF Fenced, Leased
    <2>2. CASE t \notin S
      BY <1>1, <2>2, SweptTurn DEF Fenced
    <2>3. QED
      BY <2>1, <2>2
  <1>4. \A t \in Tickets : Owner(ticket'[t]) = Owner(ticket[t])
    BY <1>1, SweptTurn DEF Owner
  <1>5. QED
    BY <1>2, <1>3, <1>4, OwnersSame DEF Progress

LEMMA PausedTurn ==
  ASSUME NEW old, NEW t \in Frontmatter, Turn(old, t),
         t.status = "ready", ~Leased(t)
  PROVE  /\ Turn(old, CostPaused(t)) /\ CostPaused(t).exec = t.exec
         /\ CostPaused(t).owner = t.owner /\ Active(CostPaused(t))
  <1> DEFINE new == CostPaused(t)
  <1>1. /\ new.exec = t.exec /\ new.owner = t.owner /\ new.status = "blocked"
        /\ new.losses = t.losses /\ new.done = t.done
        /\ new.archived = t.archived
    BY DEF CostPaused, Frontmatter
  <1> HIDE DEF new
  <1>2. Sound(t) /\ t.exec.interrupt = "none" /\ ~t.done /\ ~t.archived
    BY DEF Turn, Sound, Valid, Terminal
  <1>3. Valid(new) /\ ~Leased(new) /\ new.exec.interrupt = "none"
    BY <1>1, <1>2 DEF Valid, Leased
  <1>4. Unmoved /\ Counted(old) => Counted(new)
    BY <1>1, FreshUnlessStopped DEF Turn, Stopped, Fresh, Counted
  <1>5. Turn(old, new)
    BY <1>1, <1>3, <1>4, RestTurn DEF Stopped
  <1>6. QED
    BY <1>1, <1>5 DEF new, Active

LEMMA GrantedTurn ==
  ASSUME NEW old, NEW t \in Frontmatter, Turn(old, t),
         t.status = "ready", ~Leased(t), t.node \in Work,
         NEW s \in Supervisors, NEW h \in HostNames, NEW l \in Leases
  PROVE  LET new == Granted(t, s, h, l)
         IN  /\ Turn(old, new) /\ new.exec.lease = l /\ Active(new)
             /\ new.owner = [sup |-> s, host |-> h]
  <1> DEFINE own == [sup |-> s, host |-> h]
             d == IF Agent(t) THEN "starting" ELSE "delivered"
             e == [NoExec EXCEPT !.lease = l, !.by = s, !.node = t.node,
                                 !.delivery = d]
             new == Granted(t, s, h, l)
  <1>1. new = [t EXCEPT !.owner = own, !.status = "running", !.exec = e]
    BY DEF Granted
  <1> HIDE DEF new, d
  <1>2. e.lease = l /\ e.by = s /\ e.interrupt = "none" /\ own.sup = s
    BY DEF NoExec
  <1> HIDE DEF e, own
  <1>3. /\ new.exec = e /\ new.owner = own /\ new.status = "running"
        /\ new.losses = t.losses /\ new.done = t.done /\ new.node = t.node
        /\ new.archived = t.archived
    BY <1>1 DEF Frontmatter
  <1>4. Leased(new)
    BY <1>2, <1>3, BoundAssumption DEF Leased, Leases
  <1>5. ~t.done /\ ~t.archived
    BY DEF Turn, Sound, Valid, Terminal
  <1>6. Sound(new)
    BY <1>2, <1>3, <1>4, <1>5 DEF Sound, Valid
  <1>7. ~Misplaced(new)
    BY <1>4, MisplacedMeans
  <1>8. Unmoved /\ Counted(old) => Counted(new)
    BY <1>3, FreshUnlessStopped DEF Turn, Stopped, Fresh, Counted
  <1>9. Turn(old, new)
    BY <1>6, <1>7, <1>8 DEF Turn
  <1>10. QED
    BY <1>2, <1>3, <1>9 DEF new, own, Active

(* A claim ends the lapsed leases, pauses some of what it finds, and may   *)
(* grant a lease of a ticket it found in its pool.                         *)
LEMMA ClaimedTurns ==
  ASSUME IInv, SInv, Poisoned = {},
         NEW P \in SUBSET {t \in Tickets : ExpireAll(Lapsed)[t].status = "ready"},
         NEW t \in Tickets, NEW new, new = Paused(ExpireAll(Lapsed), P)[t]
  PROVE  /\ Turn(ticket[t], new) /\ Owner(new) = Owner(ticket[t])
         /\ new.exec = ExpireAll(Lapsed)[t].exec
         /\ t \in Lapsed => Leased(ticket[t]) /\ ~Leased(new)
         /\ t \notin Lapsed => new.exec = ticket[t].exec
  <1> DEFINE mid == ExpireAll(Lapsed)[t]
  <1>1. /\ mid \in Frontmatter /\ Turn(ticket[t], mid)
        /\ mid.owner = ticket[t].owner /\ (Active(mid) <=> Active(ticket[t]))
        /\ t \in Lapsed => Leased(ticket[t]) /\ ~Leased(mid)
        /\ t \notin Lapsed => mid = ticket[t]
    BY SweptTurn
  <1>2. Consistent(ExpireAll(Lapsed), CloseRuns(Lapsed), issued)
    BY SweepStep DEF IInv
  <1>3. mid.status = "ready" => ~Leased(mid) /\ Active(mid)
    BY <1>2 DEF Consistent, Bound, Active
  <1>4. t \in P => mid.status = "ready" /\ new = CostPaused(mid)
    BY DEF Paused
  <1>5. t \notin P => new = mid
    BY DEF Paused
  <1> HIDE DEF mid
  <1>6. CASE t \in P
    <2>1. /\ Turn(ticket[t], new) /\ new.exec = mid.exec
          /\ new.owner = mid.owner /\ Active(new)
      BY <1>1, <1>3, <1>4, <1>6, PausedTurn
    <2>2. QED
      BY <1>1, <1>3, <1>4, <1>6, <2>1 DEF Owner, Leased, mid
  <1>7. CASE t \notin P
    BY <1>1, <1>5, <1>7 DEF Owner, mid
  <1>8. QED
    BY <1>6, <1>7

(* A candidate is the supervisor's own, or nobody's while it owns nothing. *)
LEMMA CandidateOwned ==
  ASSUME NEW T \in [Tickets -> Frontmatter], NEW s \in Supervisors, NEW h,
         NEW pool \in Pools(T, s), NEW t \in Candidates(T, s, h, pool)
  PROVE  /\ t \in Tickets /\ T[t].status = "ready" /\ ~Conflicted(T, t, h)
         /\ \/ Owner(T[t]).sup = s /\ Owner(T[t]).host = h
            \/ /\ Owner(T[t]) = NoOwner
               /\ \A u \in Tickets : Owner(T[u]).sup # s
  <1>1. /\ t \in pool /\ T[t].status = "ready" /\ T[t].owner.sup \in {NoSup, s}
        /\ T[t].owner.host \in {NoHost, h} /\ ~Conflicted(T, t, h)
    BY DEF Candidates
  <1>2. Owner(T[t]) = T[t].owner
    BY <1>1 DEF Owner, Active
  <1>3. ASSUME t \in Tickets
        PROVE  \/ T[t].owner.sup = s /\ T[t].owner.host = h
               \/ T[t].owner = NoOwner
    <2>1. T[t].owner \in Owners
      BY <1>3 DEF Frontmatter
    <2>2. CASE T[t].owner \in [sup : Supervisors, host : HostNames]
      BY <1>1, <2>2, SentinelAssumption
    <2>3. QED
      BY <2>1, <2>2 DEF Owners
  <1>4. CASE Reserved(T, s) = {}
    <2>1. ASSUME NEW u \in Tickets PROVE Owner(T[u]).sup # s
      <3>1. CASE Active(T[u])
        BY <1>4, <3>1 DEF Reserved, Owner
      <3>2. CASE ~Active(T[u])
        BY <3>2, SentinelAssumption DEF Owner, NoOwner
      <3>3. QED
        BY <3>1, <3>2
    <2>2. t \in Tickets
      BY <1>1, <1>4 DEF Pools
    <2>3. QED
      BY <1>1, <1>2, <1>3, <2>1, <2>2
  <1>5. CASE Reserved(T, s) # {}
    <2>1. t \in Reserved(T, s)
      BY <1>1, <1>5 DEF Pools
    <2>2. t \in Tickets /\ T[t].owner.sup = s
      BY <2>1 DEF Reserved
    <2>3. T[t].owner # NoOwner
      BY <2>2, SentinelAssumption DEF NoOwner
    <2>4. QED
      BY <1>1, <1>2, <1>3, <2>2, <2>3
  <1>6. QED
    BY <1>4, <1>5

(* What a claim leaves of the interruptions requested.                     *)
LEMMA ClaimFences ==
  ASSUME IInv, SInv, Poisoned = {}, NEW t \in Tickets, NEW f, NEW R,
         t \in Lapsed => f.lease # ticket[t].exec.lease,
         t \notin Lapsed => f = ticket[t].exec \/ ~Leased(ticket[t]),
         \A l \in 1..issued : R[l] = CloseRuns(Lapsed)[l]
  PROVE  Fenced(ticket[t].exec, f, R)
  <1>1. CASE t \in Lapsed
    <2> DEFINE l == ticket[t].exec.lease
    <2>1. Leased(ticket[t]) /\ Bound(t, ticket, run, issued) /\ l \in Leases
      BY <1>1, TicketFacts DEF Lapsed, IInv, Consistent
    <2>2. l <= issued /\ issued \in 0..MaxLeases
      BY <2>1 DEF Bound, IInv, Consistent
    <2>3. l \in 1..issued
      BY <2>1, <2>2, BoundAssumption DEF Leases
    <2>4. R[l].outcome = IF ticket[t].exec.interrupt = "none" THEN "lease_lost"
                                                              ELSE "interrupted"
      BY <1>1, <2>3, SweptRuns
    <2>5. QED
      BY <1>1, <2>4 DEF Fenced
  <1>2. CASE t \notin Lapsed
    BY <1>2 DEF Fenced, SInv, Sound
  <1>3. QED
    BY <1>1, <1>2

LEMMA GrantProgress ==
  ASSUME IInv, SInv, Poisoned = {}, NEW s \in Supervisors, NEW h \in HostNames,
         NEW pool \in Pools(ExpireAll(Lapsed), s),
         NEW t \in Candidates(ExpireAll(Lapsed), s, h, pool),
         NEW P \in SUBSET {u \in Tickets : ExpireAll(Lapsed)[u].status = "ready"},
         t \notin P, Kind[ExpireAll(Lapsed)[t].node] \in {"agent", "activity"},
         Grant(Paused(ExpireAll(Lapsed), P), t, s, h)
  PROVE  Progress
  <1> DEFINE T == ExpireAll(Lapsed)
             U == Paused(T, P)
             R == CloseRuns(Lapsed)
             own == [sup |-> s, host |-> h]
             g == Granted(T[t], s, h, issued + 1)
  <1>1. Consistent(T, R, issued)
    BY SweepStep DEF IInv
  <1>2. T \in [Tickets -> Frontmatter]
    BY <1>1 DEF Consistent
  <1>3. /\ t \in Tickets /\ T[t].status = "ready" /\ ~Conflicted(T, t, h)
        /\ \/ Owner(T[t]).sup = s /\ Owner(T[t]).host = h
           \/ /\ Owner(T[t]) = NoOwner
              /\ \A u \in Tickets : Owner(T[u]).sup # s
    BY <1>2, CandidateOwned
  <1>4. T[t] \in Frontmatter /\ ~Leased(T[t]) /\ T[t].node \in Work
    BY <1>1, <1>2, <1>3 DEF Consistent, Bound, Frontmatter, Work
  <1>5. \A u \in Tickets : /\ Turn(ticket[u], T[u])
                           /\ Owner(T[u]) = Owner(ticket[u])
    BY SweptTurn DEF Owner
  <1>6. \A u \in Tickets :
          /\ Turn(ticket[u], U[u]) /\ Owner(U[u]) = Owner(ticket[u])
          /\ U[u].exec = T[u].exec
          /\ u \in Lapsed => Leased(ticket[u]) /\ ~Leased(U[u])
          /\ u \notin Lapsed => U[u].exec = ticket[u].exec
    BY ClaimedTurns
  <1>7. U[t] = T[t] /\ DOMAIN U = Tickets
    BY <1>3 DEF Paused
  <1>8. /\ issued < MaxLeases
        /\ ticket' = [U EXCEPT ![t] = g]
        /\ run' = [R EXCEPT ![issued + 1] =
                     [ticket |-> t, node |-> U[t].node, outcome |-> "open"]]
    BY <1>7 DEF Grant
  <1>9. issued \in 0..MaxLeases /\ issued + 1 \in Leases
    BY <1>1, <1>8, BoundAssumption DEF Consistent, Leases
  <1> HIDE DEF T
  <1>10. Turn(ticket[t], g) /\ g.exec.lease = issued + 1 /\ Owner(g) = own
    BY <1>3, <1>4, <1>5, <1>9, GrantedTurn DEF Owner
  <1> HIDE DEF U, g
  <1>11. \A u \in Tickets : ticket'[u] = IF u = t THEN g ELSE U[u]
    BY <1>3, <1>7, <1>8
  <1>12. \A u \in Tickets : Turn(ticket[u], ticket'[u])
    BY <1>6, <1>10, <1>11
  <1>13. ASSUME NEW u \in Tickets
         PROVE  Fenced(ticket[u].exec, ticket'[u].exec, run')
    <2>1. \A l \in 1..issued : run'[l] = R[l]
      BY <1>8, <1>9, BoundAssumption
    <2>2. Bound(u, ticket, run, issued) /\ ticket[u].exec.lease \in 0..MaxLeases
      BY TicketFacts DEF IInv, Consistent, Execution
    <2>3. u \in Lapsed => ticket'[u].exec.lease # ticket[u].exec.lease
      BY <1>6, <1>9, <1>10, <1>11, <2>2, BoundAssumption DEF Bound, Leased
    <2>4. u \notin Lapsed => ticket'[u].exec = ticket[u].exec \/ ~Leased(ticket[u])
      BY <1>4, <1>6, <1>7, <1>11 DEF Leased
    <2>5. QED
      BY <2>1, <2>3, <2>4, ClaimFences
  <1>14. ASSUME "reopen" \notin Commands PROVE LockStep
    <2>1. \A u \in Tickets : Owner(ticket'[u]) =
            IF u = t THEN own ELSE Owner(ticket[u])
      BY <1>6, <1>10, <1>11
    <2>0. own.sup = s /\ own.host = h /\ own # NoOwner /\ own \in Owners
      BY SentinelAssumption DEF NoOwner, Owners
    <2> HIDE DEF own
    <2>2. CASE Owner(T[t]).sup = s /\ Owner(T[t]).host = h
      <3>1. Owner(T[t]) \in Owners
        BY <1>2, <1>3, NoOwnerTyped DEF Owner, Frontmatter
      <3>2. Owner(T[t]) = own
        BY <2>0, <2>2, <3>1, SentinelAssumption DEF Owners, NoOwner
      <3>3. Owner(ticket[t]) = own
        BY <1>3, <1>5, <3>2
      <3>4. QED
        BY <2>1, <3>3, OwnersSame
    <2>3. CASE Owner(T[t]) = NoOwner /\ \A u \in Tickets : Owner(T[u]).sup # s
      <3>1. /\ Owner(ticket[t]) = NoOwner
            /\ \A u \in Tickets : Owner(ticket[u]).sup # s
        BY <1>3, <1>5, <2>3
      <3>2. ASSUME NEW u \in Tickets, Owner(ticket[u]) # NoOwner,
                   Owner(ticket[u]).host = h
            PROVE  ReposOf[u] \cap ReposOf[t] = {}
        <4>1. Owner(T[u]) # NoOwner /\ Owner(T[u]).host = h /\ u # t
          BY <1>5, <3>1, <3>2
        <4>2. Active(T[u]) /\ Owner(T[u]) = T[u].owner
          BY <4>1 DEF Owner
        <4>3. ~Overlap(t, u)
          BY <1>3, <4>1, <4>2 DEF Conflicted
        <4>4. QED
          BY <4>3 DEF Overlap
      <3> DEFINE next == [u \in Tickets |-> IF Active(ticket'[u]) THEN ticket'[u].owner
                                                                  ELSE NoOwner]
      <3>3. /\ \A u \in Tickets : Reservations[u] = Owner(ticket[u])
            /\ \A u \in Tickets : next[u] = Owner(ticket'[u])
            /\ next = [u \in Tickets |-> next[u]]
            /\ Reservations = [u \in Tickets |-> Reservations[u]]
        BY DEF Owner, Reservations
      <3>4. Reservations' = next
        BY DEF Reservations, Active
      <3> HIDE DEF next
      <3>5. next = [Reservations EXCEPT ![t] = own]
        <4>1. \A u \in Tickets : next[u] = IF u = t THEN own ELSE Reservations[u]
          BY <2>1, <3>3
        <4>2. [Reservations EXCEPT ![t] = own] =
                [u \in Tickets |-> IF u = t THEN own ELSE Reservations[u]]
          BY <3>3
        <4>3. QED
          BY <3>3, <4>1, <4>2
      <3>6. /\ Reservations[t] = NoOwner
            /\ \A u \in Tickets : Reservations[u] # NoOwner =>
                 /\ Reservations[u].sup # s
                 /\ Reservations[u].host = h => ReposOf[u] \cap ReposOf[t] = {}
        BY <1>3, <3>1, <3>2, <3>3
      <3>7. Reservations' = [Reservations EXCEPT ![t] = [sup |-> s, host |-> h]]
        BY <3>4, <3>5 DEF own
      <3>8. Lock!Take(t, s, h)
        BY <3>6, <3>7, Zenon DEF Lock!Take
      <3>9. QED
        BY <1>3, <3>8, Zenon DEF LockStep, Lock!RNext
    <2>4. QED
      BY <1>3, <2>2, <2>3
  <1>15. QED
    BY <1>12, <1>13, <1>14 DEF Progress

LEMMA ClaimProgress ==
  ASSUME IInv, SInv, NEW s \in Supervisors, Claim(s) \/ ClaimActivity(s)
  PROVE  Progress
  <1> DEFINE T == ExpireAll(Lapsed)
             R == CloseRuns(Lapsed)
             ready == {u \in Tickets : T[u].status = "ready"}
             costly(f) == {t \in f : OverBudget(T[t])}
  <1>1. Poisoned = {}
    BY DEF Claim, ClaimActivity
  <1>2. Consistent(T, R, issued) /\ T \in [Tickets -> Frontmatter]
    BY SweepStep DEF IInv, Consistent
  <1>0. HostsNamed(s) \subseteq HostNames
    BY DEF HostsNamed, HostNames
  <1>3. ASSUME NEW pool \in Pools(T, s), NEW h \in HostNames
        PROVE  Candidates(T, s, h, pool) \subseteq ready
    BY <1>2, CandidateOwned
  <1>4. ASSUME ClaimActivity(s) PROVE Progress
    <2>1. PICK pool \in Pools(T, s), h \in HostNames :
            \E t \in Candidates(T, s, h, pool) :
              Kind[T[t].node] = "activity" /\ Grant(T, t, s, h)
      BY <1>0, <1>4 DEF ClaimActivity
    <2>2. PICK t \in Candidates(T, s, h, pool) :
            Kind[T[t].node] = "activity" /\ Grant(T, t, s, h)
      BY <2>1
    <2>3. T = Paused(T, {}) /\ {} \in SUBSET ready
      BY <1>2 DEF Paused
    <2>4. Grant(Paused(T, {}), t, s, h)
      BY <2>2, <2>3
    <2>5. QED
      BY <1>1, <2>2, <2>3, <2>4, GrantProgress
  <1>5. ASSUME Claim(s) PROVE Progress
    <2>1. PICK pool \in Pools(T, s), h \in HostNames :
            LET found == Candidates(T, s, h, pool)
            IN  \/ \E t \in found \ costly(found), P \in SUBSET costly(found) :
                     /\ Kind[T[t].node] = "agent"
                     /\ Grant(Paused(T, P), t, s, h)
                \/ ticket' = Paused(T, costly(found)) /\ run' = R
      BY <1>0, <1>5 DEF Claim, Paused, Agent
    <2> DEFINE found == Candidates(T, s, h, pool)
    <2>2. \A P \in SUBSET costly(found) : P \in SUBSET ready
      BY <1>3
    <2>3. ASSUME NEW t \in found \ costly(found),
                 NEW P \in SUBSET costly(found),
                 Kind[T[t].node] = "agent", Grant(Paused(T, P), t, s, h)
          PROVE  Progress
      <3>1. t \notin P /\ P \in SUBSET ready
        BY <2>2
      <3>2. QED
        BY <1>1, <2>3, <3>1, GrantProgress
    <2>4. ASSUME ticket' = Paused(T, costly(found)), run' = R
          PROVE  Progress
      <3> DEFINE P == costly(found)
      <3>1. P \in SUBSET ready
        BY <2>2
      <3> HIDE DEF P
      <3>2. ticket' = Paused(T, P)
        BY <2>4 DEF P
      <3>3. \A u \in Tickets :
              /\ Turn(ticket[u], ticket'[u])
              /\ Owner(ticket'[u]) = Owner(ticket[u])
              /\ u \in Lapsed => Leased(ticket[u]) /\ ~Leased(ticket'[u])
              /\ u \notin Lapsed => ticket'[u].exec = ticket[u].exec
        BY <1>1, <3>1, <3>2, ClaimedTurns
      <3>4. ASSUME NEW u \in Tickets
            PROVE  Fenced(ticket[u].exec, ticket'[u].exec, run')
        BY <1>1, <2>4, <3>3, ClaimFences DEF Leased
      <3>5. QED
        BY <3>3, <3>4, OwnersSame DEF Progress
    <2>5. QED
      BY <2>1, <2>3, <2>4
  <1>6. QED
    BY <1>4, <1>5

LEMMA OperatorProgress ==
  ASSUME IInv, SInv, NEW t \in Tickets, Operator(t)
  PROVE  Progress
  <1>1. CASE Ready(t) \/ ReturnToDraft(t) \/ Decide(t) \/ GithubFeedback(t)
    BY <1>1, PlaceProgress
  <1>2. CASE Retry(t)
    BY <1>2, RetryProgress
  <1>3. CASE ReleaseSupervisor(t)
    BY <1>3, ReleaseProgress
  <1>4. CASE Archive(t) \/ Unarchive(t)
    BY <1>4, ArchiveProgress
  <1>5. CASE \E how \in {"cancelled", "failed"} : Terminate(t, how)
    BY <1>5, TerminateProgress
  <1>6. ASSUME NEW n \in Nodes, NEW fresh \in BOOLEAN, Migrate(t, n, fresh)
        PROVE  Progress
    <2>1. /\ "migrate" \in Commands /\ Kind[n] \notin Terminal
          /\ ticket[t].exec.interrupt = "none"
          /\ Reopens(t) => "reopen" \in Commands
          /\ Store(t, Redirect(t, n, fresh))
      BY <1>6, Zenon DEF Migrate, Command
    <2>2. ~Unmoved /\ (Active(ticket[t]) \/ "reopen" \in Commands)
      BY <2>1 DEF Unmoved, Reopens
    <2>3. QED
      BY <2>1, <2>2, RedirectProgress
  <1>7. ASSUME NEW n \in Nodes, CheckpointAction(t, n) PROVE Progress
    <2>1. /\ "checkpoint" \in Commands /\ Kind[n] = "activity"
          /\ ticket[t].exec.interrupt = "none"
          /\ Reopens(t) => "reopen" \in Commands
          /\ Store(t, Redirect(t, n, FALSE))
      BY <1>7, Zenon DEF CheckpointAction, Command
    <2>2. /\ ~Unmoved /\ (Active(ticket[t]) \/ "reopen" \in Commands)
          /\ Kind[n] \notin Terminal
      BY <2>1 DEF Unmoved, Reopens, Terminal
    <2>3. QED
      BY <2>1, <2>2, RedirectProgress
  <1>8. CASE \E last \in BOOLEAN : Answer(t, last)
    BY <1>8, AnswerProgress
  <1>9. CASE \E s \in Status, n \in Nodes, done, torn \in BOOLEAN :
               FencingEdit(t, s, n, done, torn)
    BY <1>9, EditProgress
  <1>10. QED
    BY <1>1, <1>2, <1>3, <1>4, <1>5, <1>6, <1>7, <1>8, <1>9 DEF Operator

LEMMA UnderLeaseProgress ==
  ASSUME IInv, SInv, NEW t \in Tickets, NEW l \in Leases, UnderLease(t, l)
  PROVE  Progress
  <1>1. CASE Heartbeat(t, l) \/ ConfirmDelivery(t, l)
    BY <1>1, TimerProgress
  <1>2. CASE RejectDelivery(t, l)
    BY <1>2, RejectProgress
  <1>3. CASE Ask(t, l)
    BY <1>3, AskProgress
  <1>4. CASE AcknowledgeInterrupt(t, l)
    BY <1>4, AcknowledgeProgress
  <1>5. CASE \E kind \in {"complete", "fail", "activity"} :
               ReadCallback(t, l, kind)
    BY <1>5, Standing DEF ReadCallback
  <1>6. QED
    BY <1>1, <1>2, <1>3, <1>4, <1>5 DEF UnderLease

LEMMA NextProgress == IInv /\ SInv /\ [Next]_vars => Progress
  <1> SUFFICES ASSUME IInv, SInv, [Next]_vars PROVE Progress
    OBVIOUS
  <1>1. CASE \E s \in Supervisors : Claim(s) \/ ClaimActivity(s)
    BY <1>1, ClaimProgress
  <1>2. CASE \E t \in Tickets : Operator(t)
    BY <1>2, OperatorProgress
  <1>3. CASE \E t \in Tickets : Lapse(t)
    <2>1. PICK t \in Tickets : Lapse(t)
      BY <1>3
    <2>2. ticket[t].exec.lease \in Leases
      BY <2>1, TicketFacts DEF Lapse
    <2>3. QED
      BY <2>1, <2>2, TimerProgress
  <1>4. CASE \E t \in Tickets, l \in Leases : UnderLease(t, l)
    BY <1>4, UnderLeaseProgress
  <1>5. CASE \E l \in Leases, beat \in BOOLEAN : Overspend(l, beat)
    BY <1>5, OverspendProgress
  <1>6. CASE \E c \in calls : CommitCallback(c)
    BY <1>6, CommitProgress
  <1>7. CASE \E c \in calls : DropCallback(c)
    BY <1>7, Standing DEF DropCallback
  <1>8. CASE Sweep \/ Crash
    BY <1>8, ExpiryProgress
  <1>9. CASE UNCHANGED vars
    BY <1>9, Standing DEF vars
  <1>10. QED
    BY <1>1, <1>2, <1>3, <1>4, <1>5, <1>6, <1>7, <1>8, <1>9 DEF Next

LEMMA NewTicketFresh ==
  ASSUME NEW off \in SUBSET Skippable
  PROVE  /\ NewTicket(off).status = "pending" /\ NewTicket(off).owner = NoOwner
         /\ Fresh(NewTicket(off))
  <1> DEFINE z == [n \in Nodes |-> 0]
             t == [status |-> "pending", node |-> Start, done |-> FALSE,
                   owner |-> NoOwner, exec |-> NoExec, losses |-> z, moves |-> 0,
                   open |-> FALSE, over |-> {}, pause |-> NoNode,
                   archived |-> FALSE, off |-> off, callback |-> 0]
  <1>1. z \in [Nodes -> 0..LossLimit] /\ \A n \in Nodes : z[n] # LossLimit
    BY BoundAssumption
  <1>2. 0 \in 0..(MaxMoves + 1) /\ 0 \in 0..MaxLeases /\ Start \in Nodes
    BY BoundAssumption, GraphAssumption
  <1>3. NewTicket(off) = [Enter(t) EXCEPT !.status = "pending"]
    BY DEF NewTicket
  <1> HIDE DEF z
  <1>4. t \in Frontmatter /\ t.owner = NoOwner /\ t.losses = z
    BY <1>1, <1>2, NoExecTyped, NoOwnerTyped DEF Frontmatter, Status
  <1> HIDE DEF t
  <1>5. /\ Enter(t) \in Frontmatter /\ Enter(t).owner = NoOwner
        /\ Enter(t).losses = z
    BY <1>4, EnterPlaces DEF PlacedAs
  <1>6. QED
    BY <1>1, <1>3, <1>5 DEF Frontmatter, Fresh

LEMMA InitFresh ==
  ASSUME Init, NEW t \in Tickets
  PROVE  /\ Sound(ticket[t]) /\ Counted(ticket[t])
         /\ ticket[t].owner = NoOwner /\ ticket[t].status = "pending"
  <1> DEFINE New == {new \in {NewTicket(off) : off \in SUBSET Skippable} : Valid(new)}
  <1>1. ticket[t] \in New
    BY DEF Init
  <1>2. PICK off \in SUBSET Skippable : ticket[t] = NewTicket(off)
    BY <1>1
  <1>3. Valid(ticket[t]) /\ ticket[t].exec = NoExec
    BY <1>1, InitTickets
  <1> HIDE DEF New
  <1>4. /\ ticket[t].status = "pending" /\ ticket[t].owner = NoOwner
        /\ Fresh(ticket[t])
    BY <1>2, NewTicketFresh
  <1>5. Sound(ticket[t])
    BY <1>3, <1>4 DEF Sound, Leased, NoExec
  <1>6. Counted(ticket[t])
    BY <1>4 DEF Counted, Fresh
  <1>7. QED
    BY <1>4, <1>5, <1>6

LEMMA SecondInvariant == Spec => [](IInv /\ SInv)
  <1>1. Init => SInv
    BY InitFresh DEF SInv
  <1>2. IInv /\ SInv /\ [Next]_vars => SInv'
    BY NextProgress DEF Progress, Turn, EditTurn, SInv
  <1>3. IInv /\ [Next]_vars => IInv'
    BY NextStep DEF Advances
  <1>4. QED
    BY <1>1, <1>2, <1>3, InitStep, PTL DEF Spec

(* What expiry makes of a ticket is always valid, so no ticket stops the   *)
(* sweep, and with it every claim, for as long as no disabled stage leads  *)
(* to a terminal node (under one that does, the instance of the "poisoned" *)
(* run shows the sweep stopped).                                           *)
THEOREM SweepsComplete ==
  ASSUME \A s \in Skippable : Kind[Bypass[s]] \notin Terminal
  PROVE  Spec => []SweepNeverPoisoned
  <1>1. IInv /\ SInv => SweepNeverPoisoned
    <2> SUFFICES ASSUME IInv, SInv, NEW t \in Lapsed
                 PROVE  Valid(Expire(ticket[t]))
      BY DEF SweepNeverPoisoned, Poisoned
    <2> DEFINE old == ticket[t]
               e == old.exec
               moved == IF e.interrupt = "move" /\ ~e.fresh
                          THEN Transition(old, e.to) ELSE old
               p == IF e.interrupt = "cost" THEN e.to ELSE moved.pause
    <2>1. t \in Tickets /\ Leased(old)
      BY DEF Lapsed
    <2>2. /\ old \in Frontmatter /\ e \in Execution /\ e.to \in Nodes
          /\ Sound(old) /\ old.status \in {"running", "blocked"}
      BY <2>1, TicketFacts DEF SInv, Execution
    <2>3. ~old.done /\ ~old.archived
      BY <2>2 DEF Sound, Valid, Terminal
    <2>4. CASE e.interrupt = "none"
      <3> DEFINE n == e.node
                 k == Saturate(old.losses[n], LossLimit)
                 s == IF k = LossLimit THEN "blocked" ELSE "ready"
                 ended == [old EXCEPT !.losses[n] = k, !.exec = NoExec, !.status = s]
      <3>1. s \in {"ready", "blocked"} /\ Expire(old) = ended
        BY <2>4 DEF Expire, Requeue
      <3> HIDE DEF s, k
      <3>2. /\ ended.status = s /\ ended.done = old.done
            /\ ended.archived = old.archived /\ ended.exec = NoExec
        BY <2>2 DEF Frontmatter
      <3> HIDE DEF ended
      <3>3. QED
        BY <2>3, <3>1, <3>2, NoExecTyped DEF Valid, Leased
    <2>5. CASE e.interrupt # "none"
      <3> DEFINE ended == [moved EXCEPT !.status = "blocked", !.exec = NoExec,
                                        !.pause = p]
      <3>1. Expire(old) = ended
        BY <2>5 DEF Expire
      <3>2. moved \in Frontmatter /\ ~moved.done /\ ~moved.archived
        <4>1. CASE e.interrupt = "move" /\ ~e.fresh
          <5>1. /\ moved = Transition(old, e.to)
                /\ Kind[e.to] \notin Terminal
            BY <2>2, <4>1 DEF Sound
          <5>2. /\ PlacedAs(old, moved) /\ moved.archived = old.archived
                /\ \/ moved.node = e.to
                   \/ /\ Stage[e.to] \in Skippable
                      /\ moved.node = Bypass[Stage[e.to]]
            BY <2>2, <5>1, TransitionPlaces
          <5>3. Kind[moved.node] \notin Terminal
            BY <5>1, <5>2
          <5> HIDE DEF moved
          <5>4. QED
            BY <2>3, <5>2, <5>3 DEF PlacedAs
        <4>2. CASE ~(e.interrupt = "move" /\ ~e.fresh)
          BY <2>2, <2>3, <4>2
        <4>3. QED
          BY <4>1, <4>2
      <3> HIDE DEF moved, p
      <3>3. /\ ended.status = "blocked" /\ ended.done = moved.done
            /\ ended.archived = moved.archived /\ ended.exec = NoExec
        BY <3>2 DEF Frontmatter
      <3> HIDE DEF ended
      <3>4. QED
        BY <3>1, <3>2, <3>3, NoExecTyped DEF Valid, Leased
    <2>6. QED
      BY <2>4, <2>5
  <1>2. QED
    BY <1>1, SecondInvariant, PTL

(* A node that has lost LossLimit executions in a row is not offered again *)
(* before an operator acts on the ticket: a requeue at the limit blocks    *)
(* the ticket there, and whatever starts it again clears the count of the  *)
(* node.  Operators who move tickets by hand bring them back to nodes that *)
(* keep their counts, so the instance must not have them.                  *)
THEOREM LostNodesWait ==
  ASSUME Commands \cap {"migrate", "checkpoint"} = {}
  PROVE  Spec => []LossesEscalate
  <1> DEFINE Counts == \A t \in Tickets : Counted(ticket[t])
  <1>1. Init => Counts
    BY InitFresh
  <1>2. Counts /\ IInv /\ SInv /\ [Next]_vars => Counts'
    <2>1. Unmoved
      BY DEF Unmoved
    <2>2. Progress /\ Counts => Counts'
      <3> SUFFICES ASSUME Progress, Counts, NEW t \in Tickets
                   PROVE  Counted(ticket'[t])
        BY DEF Counted, Leased
      <3>1. QED
        BY <2>1 DEF Progress, Turn, EditTurn
    <2>3. QED
      BY <2>2, NextProgress
  <1>3. Counts /\ IInv => LossesEscalate
    <2> SUFFICES ASSUME Counts, IInv, NEW t \in Tickets,
                        ticket[t].status = "ready"
                 PROVE  ticket[t].losses[ticket[t].node] < LossLimit
      BY DEF LossesEscalate
    <2>1. Fresh(ticket[t])
      BY FreshUnlessStopped DEF Stopped
    <2>2. /\ ticket[t].node \in Nodes
          /\ ticket[t].losses \in [Nodes -> 0..LossLimit]
      BY TicketFacts DEF Frontmatter
    <2>3. QED
      BY <2>1, <2>2, BoundAssumption DEF Fresh
  <1> HIDE DEF Counts
  <1>4. QED
    BY <1>1, <1>2, <1>3, SecondInvariant, PTL DEF Spec

(* A requested interruption stays as requested until its lease ends, which *)
(* then ends interrupted: neither a late callback nor an expiry nor a      *)
(* crash nor a claim's sweep makes it a result, or a mere loss.  The two   *)
(* exceptions are a delivery that fails after the request, and the edit    *)
(* that loses the ticket's history (InterruptHonoured, HistoryKept).       *)
THEOREM InterruptionsFence == Spec => InterruptFences
  <1>1. IInv /\ SInv /\ [Next]_vars
          => [\A t \in Tickets :
                LET e == ticket[t].exec
                    f == ticket'[t].exec
                IN  e.interrupt # "none" =>
                      IF f.lease = e.lease
                        THEN <<f.interrupt, f.to, f.fresh>> =
                               <<e.interrupt, e.to, e.fresh>>
                        ELSE run'[e.lease].outcome \in
                               {"interrupted", "delivery_failed", "erased"}]_vars
    BY NextProgress DEF Progress, Fenced
  <1>2. QED
    BY <1>1, SecondInvariant, PTL DEF Spec, InterruptFences

(* An unfinished ticket that is not a draft is with a supervisor, open to  *)
(* one, or in the inbox for what it stands at.  Only the release of its    *)
(* supervisor and a fenced edit of its file that moves it from where it    *)
(* was executing leave one to nobody: whatever node and status the edit    *)
(* names, and whichever graph, expiry, callback, decision, migration or    *)
(* crash comes before or after it.                                         *)
THEOREM NothingElseStrands == Spec => OnlyReleaseStrands
  <1>1. IInv /\ SInv /\ [Next]_vars
          => [\A t \in Tickets :
                Misplaced(ticket'[t]) =>
                  \/ Misplaced(ticket[t])
                  \/ ticket'[t] = Released(ticket[t])
                  \/ Displaced(t)]_vars
    BY NextProgress DEF Progress, Turn, EditTurn
  <1>2. QED
    BY <1>1, SecondInvariant, PTL DEF Spec, OnlyReleaseStrands

(* Where no operator reopens finished work, every step of the tracker is a *)
(* step of the repository lock: a supervisor owns at most one unfinished   *)
(* ticket, and two reserved under one hostname never name a common         *)
(* repository, whichever name a claim was made under.                      *)
THEOREM LockImplemented ==
  ASSUME "reopen" \notin Commands
  PROVE  Spec => ImplementsLock
  <1>1. Init => Lock!RInit
    <2> SUFFICES ASSUME Init PROVE Lock!RInit
      OBVIOUS
    <2>1. \A t \in Tickets : ticket[t].owner = NoOwner
      BY InitFresh
    <2>2. QED
      BY <2>1 DEF Lock!RInit, Reservations
  <1>2. IInv /\ SInv /\ [Next]_vars => LockStep
    BY NextProgress DEF Progress
  <1>3. QED
    BY <1>1, <1>2, SecondInvariant, PTL
       DEF Spec, ImplementsLock, Lock!RSpec, LockStep

(* What the lock keeps: nobody owns two tickets, and two owned under one   *)
(* hostname are about different repositories.                              *)
Apart(own) ==
    \A t, u \in Tickets :
        t # u /\ own[t] # NoOwner /\ own[u] # NoOwner =>
            /\ own[t].sup # own[u].sup
            /\ own[t].host = own[u].host => ReposOf[t] \cap ReposOf[u] = {}

LEMMA TakeKeepsApart ==
  ASSUME NEW now \in [Tickets -> Owners], Apart(now),
         NEW t \in Tickets, NEW s, NEW h,
         \A u \in Tickets : now[u] # NoOwner =>
           /\ now[u].sup # s
           /\ now[u].host = h => ReposOf[u] \cap ReposOf[t] = {},
         now[t] = NoOwner
  PROVE  Apart([now EXCEPT ![t] = [sup |-> s, host |-> h]])
  <1> DEFINE own == [sup |-> s, host |-> h]
             next == [now EXCEPT ![t] = own]
  <1>0. own.sup = s /\ own.host = h
    OBVIOUS
  <1>1. \A u \in Tickets : next[u] = IF u = t THEN own ELSE now[u]
    OBVIOUS
  <1> HIDE DEF next, own
  <1>2. ASSUME NEW u \in Tickets, NEW v \in Tickets, u # v,
               next[u] # NoOwner, next[v] # NoOwner
        PROVE  /\ next[u].sup # next[v].sup
               /\ next[u].host = next[v].host
                    => ReposOf[u] \cap ReposOf[v] = {}
    <2>1. CASE u = t
      BY <1>0, <1>1, <1>2, <2>1
    <2>2. CASE v = t
      BY <1>0, <1>1, <1>2, <2>2
    <2>3. CASE u # t /\ v # t
      BY <1>1, <1>2, <2>3 DEF Apart
    <2>4. QED
      BY <2>1, <2>2, <2>3
  <1>3. QED
    BY <1>2 DEF Apart, next, own

(* The reservations of the tracker, as the abstract lock sees them.        *)
LEMMA ReservationsTyped ==
  ASSUME IInv
  PROVE  Reservations \in [Tickets -> Owners]
  BY TicketFacts, NoOwnerTyped DEF Reservations, Frontmatter

LEMMA LockKeepsApart ==
  ASSUME IInv, Apart(Reservations), LockStep
  PROVE  Apart(Reservations')
  <1>1. Reservations \in [Tickets -> Owners]
    BY ReservationsTyped
  <1>2. ASSUME NEW t \in Tickets, NEW s \in Supervisors, NEW h \in HostNames,
               Lock!Take(t, s, h)
        PROVE  Apart(Reservations')
    <2>1. /\ Reservations' = [Reservations EXCEPT ![t] = [sup |-> s, host |-> h]]
          /\ Reservations[t] = NoOwner
          /\ \A u \in Tickets : Reservations[u] # NoOwner =>
               /\ Reservations[u].sup # s
               /\ Reservations[u].host = h => ReposOf[u] \cap ReposOf[t] = {}
      BY <1>2, Zenon DEF Lock!Take
    <2>2. Apart([Reservations EXCEPT ![t] = [sup |-> s, host |-> h]])
      BY <1>1, <2>1, TakeKeepsApart
    <2>3. QED
      BY <2>1, <2>2
  <1>3. ASSUME NEW t \in Tickets, Lock!Give(t) PROVE Apart(Reservations')
    <2>1. Reservations' = [Reservations EXCEPT ![t] = NoOwner]
      BY <1>3, Zenon DEF Lock!Give
    <2>2. Apart([Reservations EXCEPT ![t] = NoOwner])
      BY <1>1 DEF Apart
    <2>3. QED
      BY <2>1, <2>2
  <1>4. ASSUME Reservations' = Reservations PROVE Apart(Reservations')
    BY <1>4
  <1>5. \/ \E t \in Tickets :
             \/ Lock!Give(t)
             \/ \E s \in Supervisors, h \in HostNames : Lock!Take(t, s, h)
        \/ Reservations' = Reservations
    BY Zenon DEF LockStep, Lock!RNext
  <1>6. QED
    BY <1>2, <1>3, <1>4, <1>5

(* Where no operator reopens finished work, a supervisor owns at most one  *)
(* unfinished ticket, and two reserved under one hostname never name a     *)
(* common repository: no sequence of claims, under either name of a host,  *)
(* expiries, releases, edits, callbacks and crashes gives a supervisor a   *)
(* second reservation.                                                     *)
THEOREM SupervisorsOwnOne ==
  ASSUME "reopen" \notin Commands
  PROVE  Spec => [](OneTicketPerSupervisor /\ Apart(Reservations))
  <1>1. Init => Apart(Reservations)
    BY InitFresh DEF Apart, Reservations
  <1>2. IInv /\ SInv /\ [Next]_vars /\ Apart(Reservations)
          => Apart(Reservations)'
    <2> SUFFICES ASSUME IInv, SInv, [Next]_vars, Apart(Reservations)
                 PROVE  Apart(Reservations')
      BY DEF Apart
    <2>1. LockStep
      BY NextProgress DEF Progress
    <2>2. QED
      BY <2>1, LockKeepsApart
  <1>3. Apart(Reservations) /\ IInv => OneTicketPerSupervisor
    <2> SUFFICES ASSUME Apart(Reservations), IInv, NEW t \in Tickets, NEW u \in Tickets,
                        Active(ticket[t]), Active(ticket[u]),
                        ticket[t].owner.sup = ticket[u].owner.sup,
                        ticket[t].owner # NoOwner
                 PROVE  t = u
      BY DEF OneTicketPerSupervisor
    <2>1. Reservations[t] = ticket[t].owner /\ Reservations[u] = ticket[u].owner
      BY DEF Reservations
    <2>2. ticket[t].owner \in Owners
      BY TicketFacts DEF Frontmatter
    <2>3. ticket[t].owner.sup # NoSup
      BY <2>2, SentinelAssumption DEF Owners
    <2>4. ticket[u].owner # NoOwner
      BY <2>3 DEF NoOwner
    <2>5. QED
      BY <2>1, <2>4 DEF Apart
  <1>4. QED
    BY <1>1, <1>2, <1>3, SecondInvariant, PTL DEF Spec

-----------------------------------------------------------------------------
(***************************************************************************)
(* What reaches GithubFeedback and Decide: the reports of all polls of a   *)
(* pull request.                                                           *)
(***************************************************************************)
Observer == INSTANCE PullRequestFeedback

Comment == [id : Nat \ {0}, kind : Observer!Kinds, human : BOOLEAN, changes : BOOLEAN]

(* The comments each poll finds there: made in the order of their numbers, *)
(* and deleted for good.                                                   *)
Discussion(there) ==
    /\ \A i \in Nat \ {0} : there[i] \subseteq Comment /\ IsFiniteSet(there[i])
    /\ \A i, j \in Nat \ {0} : i < j =>
         /\ \A c \in there[j] \ there[i], d \in there[i] : c.kind = d.kind => d.id < c.id
         /\ \A k \in i..j : there[i] \cap there[j] \subseteq there[k]

LEMMA SameCardinality ==
  ASSUME NEW S
  PROVE  Observer!Cardinality(S) = Cardinality(S)
  BY Zenon DEF Observer!Cardinality, Cardinality

LEMMA Smallest ==
  ASSUME NEW S \in SUBSET Nat, S # {}
  PROVE  \E m \in S : \A k \in S : m <= k
  <1> DEFINE less == OpToRel(<, Nat)
  <1>1. IsWellFoundedOn(less, Nat)
    BY NatLessThanWellFounded
  <1>2. PICK m \in S : \A k \in S : <<k, m>> \notin less
    BY <1>1, WFMin
  <1>3. ASSUME NEW k \in S, k < m PROVE FALSE
    BY <1>2, <1>3 DEF OpToRel
  <1>4. QED
    BY <1>3

LEMMA Greatest ==
  ASSUME NEW S \in SUBSET Nat, IsFiniteSet(S), S # {}
  PROVE  Observer!Max(S) \in S /\ \A x \in S : x <= Observer!Max(S)
  <1> DEFINE above(x) == {y \in S : x < y}
             sizes == {Cardinality(above(x)) : x \in S}
  <1>1. \A x \in S : IsFiniteSet(above(x)) /\ Cardinality(above(x)) \in Nat
    BY FS_Subset, FS_CardinalityType
  <1>2. sizes \in SUBSET Nat /\ sizes # {}
    BY <1>1
  <1>3. PICK m \in sizes : \A k \in sizes : m <= k
    BY <1>2, Smallest
  <1>4. PICK x \in S : m = Cardinality(above(x))
    OBVIOUS
  <1>5. ASSUME NEW y \in S, x < y PROVE FALSE
    <2>1. above(y) \subseteq above(x) /\ y \in above(x) \ above(y)
      <3>1. x \in Nat /\ y \in Nat /\ \A z \in above(y) : z \in S /\ z \in Nat /\ y < z
        OBVIOUS
      <3>2. \A z \in above(y) : x < z
        BY <1>5, <3>1
      <3>3. above(y) \subseteq above(x)
        BY <3>1, <3>2
      <3>4. y \in above(x) /\ y \notin above(y)
        BY <1>5, <3>1
      <3>5. QED
        BY <3>3, <3>4
    <2>2. Cardinality(above(y)) <= Cardinality(above(x))
          /\ Cardinality(above(y)) # Cardinality(above(x))
      BY <1>1, <2>1, FS_Subset
    <2>3. Cardinality(above(x)) <= Cardinality(above(y))
      BY <1>3, <1>4
    <2>4. Cardinality(above(x)) \in Nat /\ Cardinality(above(y)) \in Nat
      BY <1>1
    <2> HIDE DEF above
    <2>5. QED
      BY <2>2, <2>3, <2>4
  <1>6. \A y \in S : x >= y
    BY <1>5
  <1>7. QED
    BY <1>6 DEF Observer!Max

(* A comment is on the page if fewer than a page were made before it.      *)
LEMMA ListedWithin ==
  ASSUME NEW S, NEW T, NEW page \in Nat, IsFiniteSet(S), IsFiniteSet(T),
         S \cup T \subseteq Comment,
         NEW c \in S, NEW d \in T, d.kind = c.kind,
         d \in Observer!Listed(T, c.kind, page),
         \A x \in S : x.kind = c.kind /\ x.id < c.id => x \in T /\ x.id < d.id
  PROVE  c \in Observer!Listed(S, c.kind, page)
  <1> DEFINE before(U, y) == {x \in {z \in U : z.kind = c.kind} : x.id < y.id}
  <1>1. before(S, c) \subseteq before(T, d) /\ before(T, d) \subseteq T
    OBVIOUS
  <1>2. IsFiniteSet(before(T, d)) /\ IsFiniteSet(before(S, c))
    BY <1>1, FS_Subset
  <1>3. /\ Cardinality(before(S, c)) <= Cardinality(before(T, d))
        /\ Cardinality(before(S, c)) \in Nat /\ Cardinality(before(T, d)) \in Nat
    BY <1>1, <1>2, FS_Subset, FS_CardinalityType
  <1>4. Cardinality(before(T, d)) < page
    BY SameCardinality, Zenon DEF Observer!Listed
  <1>5. Cardinality(before(S, c)) < page
    BY <1>3, <1>4
  <1>6. QED
    BY <1>5, SameCardinality, Zenon DEF Observer!Listed

(* What a poll remembers of a kind is the newest comment it counted.       *)
LEMMA LatestIsNewest ==
  ASSUME NEW S, S \subseteq Comment, IsFiniteSet(S), NEW k, NEW page,
         NEW n \in Nat \ {0}
  PROVE  Observer!Latest(S, k, page) < n
           <=> \A d \in Observer!Counted(S, k, page) : d.id < n
  <1> DEFINE C == Observer!Counted(S, k, page)
             ids == {d.id : d \in C}
             max == Observer!Max(ids \cup {0})
  <1>1. C \subseteq S
    BY DEF Observer!Counted, Observer!Listed
  <1>2. IsFiniteSet(C)
    BY <1>1, FS_Subset
  <1>3. IsFiniteSet(ids)
    <2> DEFINE onto == [d \in C |-> d.id]
    <2>1. onto \in Surjection(C, ids)
      BY DEF Surjection
    <2>2. QED
      BY <1>2, <2>1, FS_Surjection
  <1>4. IsFiniteSet(ids \cup {0})
    BY <1>3, FS_AddElement
  <1>5. ids \cup {0} \in SUBSET Nat
    BY <1>1 DEF Comment
  <1> HIDE DEF ids
  <1>6. max \in ids \cup {0} /\ \A x \in ids \cup {0} : x <= max
    BY <1>4, <1>5, Greatest
  <1>7. max \in Nat /\ \A x \in ids : x \in Nat
    BY <1>5, <1>6
  <1> HIDE DEF max
  <1>8. max < n <=> \A x \in ids : x < n
    BY <1>6, <1>7
  <1>9. QED
    BY <1>8, Zenon DEF Observer!Latest, ids, max, C

(* Over any number of polls, and whatever people write and delete between  *)
(* them, each comment that counts is reported exactly once, by the first   *)
(* poll that finds it on its page, but for what the first look at a        *)
(* finished ticket finds; a conflict, whenever the poll before did not     *)
(* find it.                                                                *)
THEOREM FeedbackReportedOnce ==
  ASSUME NEW there, Discussion(there), NEW page \in Nat, NEW atGate, NEW mergeable,
         NEW poll,
         \A i \in Nat \ {0} :
           poll[i] = Observer!Observe(IF i = 1 THEN Observer!None
                                               ELSE poll[i - 1].observation,
                                      atGate[i], there[i], mergeable[i], page),
         NEW i \in Nat \ {0}
  PROVE  /\ poll[i].feedback =
              {c \in there[i] :
                 /\ c \in Observer!Listed(there[i], c.kind, page)
                 /\ \A j \in 1..(i - 1) : c \notin Observer!Listed(there[j], c.kind, page)
                 /\ c.human /\ (c.kind = "review" => c.changes)
                 /\ i = 1 => atGate[1]}
         /\ poll[i].conflict <=>
              mergeable[i] = "no" /\ (i = 1 \/ mergeable[i - 1] # "no")
  <1> DEFINE listed(j, c) == c \in Observer!Listed(there[j], c.kind, page)
             asks(c) == c.human /\ (c.kind = "review" => c.changes)
             prior == IF i = 1 THEN Observer!None ELSE poll[i - 1].observation
  <1>1. /\ there[i] \subseteq Comment /\ IsFiniteSet(there[i])
        /\ \A j \in 1..(i - 1) : there[j] \subseteq Comment /\ IsFiniteSet(there[j])
    BY DEF Discussion
  <1>2. /\ poll[i].feedback = Observer!NewFeedback(prior, atGate[i], there[i], page)
        /\ poll[i].conflict = (mergeable[i] = "no" /\ ~prior.conflict)
    <2>1. poll[i] = Observer!Observe(prior, atGate[i], there[i], mergeable[i], page)
      OBVIOUS
    <2> HIDE DEF prior
    <2>2. QED
      BY <2>1 DEF Observer!Observe
  <1>3. \A c : c \in UNION {Observer!Counted(there[i], k, page) : k \in Observer!Kinds}
                 <=> c \in there[i] /\ listed(i, c) /\ c.human
    <2>1. ASSUME NEW k \in Observer!Kinds, NEW c \in Observer!Counted(there[i], k, page)
          PROVE  c \in there[i] /\ listed(i, c) /\ c.human
      <3>1. c \in Observer!Listed(there[i], k, page) /\ c.human
        BY DEF Observer!Counted
      <3>2. c \in there[i] /\ c.kind = k
        BY <3>1 DEF Observer!Listed
      <3>3. QED
        BY <3>1, <3>2
    <2>2. ASSUME NEW c \in there[i], listed(i, c), c.human
          PROVE  c.kind \in Observer!Kinds /\ c \in Observer!Counted(there[i], c.kind, page)
      BY <1>1, <2>2 DEF Comment, Observer!Counted
    <2>3. QED
      BY <2>1, <2>2
  <1>4. CASE i = 1
    <2>1. /\ ~prior.checked /\ ~prior.conflict
          /\ \A k \in Observer!Kinds : prior.last[k] = 0
      BY <1>4 DEF Observer!None
    <2>2. \A c \in there[i] : c.id > prior.last[c.kind]
      BY <1>1, <2>1 DEF Comment
    <2>3. poll[i].feedback = {c \in there[i] : listed(i, c) /\ asks(c) /\ atGate[1]}
      BY <1>2, <1>3, <1>4, <2>1, <2>2 DEF Observer!NewFeedback
    <2>4. \A c \in there[i] : \A j \in 1..(i - 1) : ~listed(j, c)
      BY <1>4
    <2>5. poll[i].conflict <=> mergeable[i] = "no" /\ (i = 1 \/ mergeable[i - 1] # "no")
      BY <1>2, <1>4, <2>1
    <2> HIDE DEF listed
    <2>6. poll[i].feedback =
            {c \in there[i] : /\ listed(i, c)
                              /\ \A j \in 1..(i - 1) : ~listed(j, c)
                              /\ asks(c) /\ (i = 1 => atGate[1])}
      BY <1>4, <2>3, <2>4
    <2>7. QED
      BY <2>5, <2>6, Zenon DEF listed
  <1>5. CASE i # 1
    <2> DEFINE h == i - 1
    <2>1. h \in Nat \ {0} /\ h < i /\ h \in 1..(i - 1)
      BY <1>5
    <2>2. /\ prior.checked /\ (prior.conflict <=> mergeable[h] = "no")
          /\ \A k \in Observer!Kinds : prior.last[k] = Observer!Latest(there[h], k, page)
      <3> DEFINE older == IF h = 1 THEN Observer!None ELSE poll[h - 1].observation
      <3>1. poll[h] = Observer!Observe(older, atGate[h], there[h], mergeable[h], page)
        BY <2>1
      <3>2. prior = poll[h].observation
        BY <1>5
      <3> HIDE DEF prior, older, h
      <3>3. prior = [checked |-> TRUE,
                     last |-> [k \in Observer!Kinds |-> Observer!Latest(there[h], k, page)],
                     conflict |-> mergeable[h] = "no"]
        BY <3>1, <3>2 DEF Observer!Observe
      <3>4. QED
        BY <3>3
    <2> HIDE DEF prior
    <2>3. ASSUME NEW c \in there[i], NEW d \in there[h], listed(h, d), d.kind = c.kind,
                 c.id <= d.id
          PROVE  listed(h, c)
      <3>1. c \in there[h]
        <4>1. c \notin there[h] => d.id < c.id
          BY <2>1, <2>3 DEF Discussion
        <4>2. c.id \in Nat /\ d.id \in Nat
          BY <1>1, <2>1 DEF Comment
        <4>3. QED
          BY <2>3, <4>1, <4>2
      <3>2. \A x \in there[h] : x.kind = c.kind /\ x.id < c.id => x.id < d.id
        BY <1>1, <2>1, <2>3, <3>1 DEF Comment
      <3>3. QED
        BY <1>1, <2>1, <2>3, <3>1, <3>2, ListedWithin
    <2>4. ASSUME NEW c \in there[i], NEW j \in 1..(i - 1), listed(j, c)
          PROVE  listed(h, c)
      <3>1. j \in Nat \ {0} /\ j < i /\ h \in j..i /\ (j = h \/ j < h)
        BY <2>1
      <3>2. c \in there[j]
        BY <2>4 DEF Observer!Listed
      <3>3. c \in there[h]
        BY <3>1, <3>2 DEF Discussion
      <3>4. ASSUME NEW x \in there[h], x.kind = c.kind, x.id < c.id
            PROVE  x \in there[j]
        <4>1. CASE j < h
          <5>1. x \notin there[j] => c.id < x.id
            BY <2>1, <3>1, <3>2, <3>4, <4>1 DEF Discussion
          <5>2. c.id \in Nat /\ x.id \in Nat
            BY <1>1, <2>1, <3>4 DEF Comment
          <5>3. QED
            BY <3>4, <5>1, <5>2
        <4>2. QED
          BY <3>1, <3>4, <4>1
      <3>5. QED
        BY <1>1, <2>1, <2>4, <3>2, <3>3, <3>4, ListedWithin
    <2>5. ASSUME NEW c \in there[i], c.human
          PROVE  c.id > prior.last[c.kind] <=> ~listed(h, c)
      <3> DEFINE C == Observer!Counted(there[h], c.kind, page)
      <3>1. c.kind \in Observer!Kinds /\ c.id \in Nat \ {0} /\ there[h] \subseteq Comment
            /\ IsFiniteSet(there[h])
        BY <1>1, <2>1 DEF Comment
      <3>2. prior.last[c.kind] < c.id <=> \A d \in C : d.id < c.id
        BY <2>2, <3>1, LatestIsNewest
      <3>3. C = {d \in Observer!Listed(there[h], c.kind, page) : d.human}
        BY DEF Observer!Counted
      <3>4. \A d \in Observer!Listed(there[h], c.kind, page) :
              d \in there[h] /\ d.kind = c.kind /\ d.id \in Nat
        BY <3>1 DEF Observer!Listed, Comment
      <3>5. ASSUME listed(h, c) PROVE ~ (\A d \in C : d.id < c.id)
        BY <2>5, <3>1, <3>3, <3>5
      <3>6. ASSUME ~listed(h, c), NEW d \in C PROVE d.id < c.id
        <4>1. ~ (c.id <= d.id)
          BY <2>3, <3>3, <3>4, <3>6
        <4>2. QED
          BY <3>1, <3>3, <3>4, <4>1
      <3> HIDE DEF C
      <3>7. (\A d \in C : d.id < c.id) <=> ~listed(h, c)
        BY <3>5, <3>6
      <3>8. prior.last[c.kind] < c.id <=> c.id > prior.last[c.kind]
        OBVIOUS
      <3>9. QED
        BY <3>2, <3>7, <3>8
    <2>6. \A c \in there[i] : ~listed(h, c) <=> \A j \in 1..(i - 1) : ~listed(j, c)
      BY <2>1, <2>4
    <2>7. poll[i].feedback = {c \in there[i] : /\ listed(i, c) /\ asks(c)
                                               /\ c.id > prior.last[c.kind]}
      BY <1>2, <1>3, <2>2 DEF Observer!NewFeedback
    <2>8. QED
      BY <1>2, <1>5, <2>1, <2>2, <2>5, <2>6, <2>7
  <1>6. QED
    BY <1>4, <1>5

=============================================================================
