---------------------------- MODULE MCTicketLease ----------------------------
(***************************************************************************)
(* Instances of TicketLease.  The long workflow has an agent node, a       *)
(* script that checks its work and may send it back, a gate that may too,  *)
(* and a terminal that GitHub feedback may reopen; the short one an agent  *)
(* node and a terminal.  Supervisors have a host of their own, or share    *)
(* one.                                                                    *)
(***************************************************************************)
EXTENDS TicketLease, TLC

CONSTANTS t1, t2, s1, s2, work, check, review, gate, done

OwnHost == [s \in Supervisors |-> s]
OneHost == [s \in Supervisors |-> "host"]
SharedRepo == [t \in Tickets |-> {"repo"}]
OwnRepo == [t \in Tickets |-> {t}]

Interchangeable == Permutations({t1, t2}) \cup Permutations({s1, s2})

EveryRuntime == [s \in Supervisors |-> {work, check}]

LongKinds == work :> "agent" @@ check :> "activity" @@ gate :> "gate"
              @@ done :> "completed"
LongEdges == work :> {check} @@ check :> {gate, work} @@ gate :> {work, done}
              @@ done :> {}
Reopening == [n \in Nodes |-> IF n = done THEN {work} ELSE {}]

ShortKind == work :> "agent" @@ done :> "completed"
ShortSucc == work :> {work, done} @@ done :> {}

GateKinds == work :> "agent" @@ gate :> "gate" @@ done :> "completed"
GateEdges == work :> {gate} @@ gate :> {work, done} @@ done :> {}

(* Every node is a stage of its own.  The check may be skipped, and then   *)
(* leads to the gate; or the review, a second agent, to the end.           *)
StagePerNode == [n \in Nodes |-> n]
NoneSkipped == [n \in Nodes |-> NoNode]
AroundCheck == [n \in Nodes |-> IF n = check THEN gate ELSE NoNode]
ReviewBypass == [n \in Nodes |-> IF n = review THEN done ELSE NoNode]

ReviewKind == work :> "agent" @@ review :> "agent" @@ done :> "completed"
ReviewSucc == work :> {review} @@ review :> {work, done} @@ done :> {}

(* TLC keeps the value of a constant definition, but evaluates the body of *)
(* one that a configuration substitutes at every use: these only name the  *)
(* functions above.                                                        *)
LongKind == LongKinds
LongSucc == LongEdges
LongFeedback == Reopening
GateKind == GateKinds
GateSucc == GateEdges
OwnStage == StagePerNode
NoBypass == NoneSkipped
CheckBypass == AroundCheck

-----------------------------------------------------------------------------
(* Three polls of a pull request, over every pair of comments that people, *)
(* or others, make in that order (at a poll's time) and may delete, and    *)
(* every answer of GitHub about merging.                                   *)
Observer == INSTANCE PullRequestFeedback

Polls == 1..3
Comments(id) == [id : {id}, kind : Observer!Kinds, human : BOOLEAN, changes : BOOLEAN,
                 made : Polls, kept : {2, 3}]
Pairs == {pair \in Comments(1) \X Comments(2) : pair[1].made <= pair[2].made}

PollsOf(atGate, made, mergeable, page) ==
    LET there(i) == {c \in made : i \in c.made..c.kept}
        poll[i \in Polls] ==
          Observer!Observe(IF i = 1 THEN Observer!None ELSE poll[i - 1].observation,
                            atGate, there(i), mergeable[i], page)
    IN  poll

(* A comment that counts is reported by the first poll that finds it, and  *)
(* by no other, unless that is the first look at a finished ticket; behind *)
(* a full page it is not reported at all.                                  *)
ASSUME FeedbackAssumption ==
    \A atGate \in BOOLEAN, pair \in Pairs :
      LET made == {pair[1], pair[2]}
          asks(c) == c.human /\ (c.kind = "review" => c.changes) /\ c.made <= c.kept
          always == [i \in Polls |-> "yes"]
          polls == PollsOf(atGate, made, always, 100)
          short == PollsOf(atGate, made, always, 1)
      IN  /\ \A i \in Polls : \A c \in made :
               c \in polls[i].feedback <=> asks(c) /\ c.made = i /\ (i = 1 => atGate)
          /\ pair[1].kind = pair[2].kind /\ pair[1].kept = 3
               => \A i \in Polls : pair[2] \notin short[i].feedback

(* A conflict is reported when it appears, and again whenever GitHub has   *)
(* not known for a while.                                                  *)
ASSUME ConflictAssumption ==
    \A mergeable \in [Polls -> {"yes", "no", "unknown"}] :
      LET polls == PollsOf(TRUE, {}, mergeable, 100)
      IN  \A i \in Polls :
            polls[i].conflict <=> mergeable[i] = "no" /\ (i = 1 \/ mergeable[i - 1] # "no")
=============================================================================
