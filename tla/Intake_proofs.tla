---------------------------- MODULE Intake_proofs ----------------------------
(***************************************************************************)
(* Theorems about Intake, for every set of supervisors, every number of    *)
(* facts and every choice of the limits.                                   *)
(***************************************************************************)
EXTENDS Intake, FiniteSetTheorems, TLAPS

USE DEF Setup

(***************************************************************************)
(* The inductive invariant.                                                *)
(***************************************************************************)

DecidedTo(n) == \A f \in 1..n : cand[f].decision # "none"

(* An operation that creates a ticket, or has created one, is at a fact    *)
(* that had no ticket and no entry of one in the ledger.                   *)
Admits == op.kind # "none" /\ op.at \in {"create", "record"} =>
    /\ op.todo # <<>> /\ ~cand[Current].ticket
    /\ op.at = "create" => tickets.made[Current] = 0 /\ AdmittedToday < PerDay

(* What a submission has still to record lies beyond what is recorded; a   *)
(* run begins at a cursor.                                                 *)
Covers == /\ CursorCovers /\ DecidedTo(run.before)
          /\ op.kind = "complete" /\ op.at # "run" =>
               \A f \in 1..op.found :
                   cand[f].decision # "none" \/ \E i \in 1..Len(op.todo) : op.todo[i] = f

(* The tickets made today are those of the ledger, those of admissions cut *)
(* short and the one that is being recorded.                               *)
Counted ==
    /\ day.cut <= day.faults
    /\ day.made <= Cardinality({f \in Facts : tickets.made[f] > 0})
    /\ day.made <= AdmittedToday + day.cut + (IF Doing("record") THEN 1 ELSE 0)
    /\ \A f \in Facts : cand[f].today => cand[f].ticket

IInv == /\ NoDuplicateTickets /\ op.count + Len(op.todo) <= MaxFacts
        /\ Admits /\ Covers /\ Counted /\ DayLimitKept

-----------------------------------------------------------------------------
(***************************************************************************)
(* Sequences of bounded length.                                            *)
(***************************************************************************)

LEMMA BoundedSeqs ==
  ASSUME NEW S, NEW n \in Nat
  PROVE  \A s : s \in SeqOf(S, n) <=> s \in Seq(S) /\ Len(s) <= n
  <1>1. ASSUME NEW s \in SeqOf(S, n) PROVE s \in Seq(S) /\ Len(s) <= n
    <2>1. PICK m \in 0..n : s \in [1..m -> S]
      BY <1>1 DEF SeqOf
    <2>2. s \in Seq(S) /\ Len(s) = m
      BY <2>1
    <2>3. QED
      BY <2>1, <2>2
  <1>2. ASSUME NEW s \in Seq(S), Len(s) <= n PROVE s \in SeqOf(S, n)
    <2>1. s \in [1..Len(s) -> S] /\ Len(s) \in 0..n
      BY <1>2
    <2>2. QED
      BY <2>1 DEF SeqOf
  <1>3. QED
    BY <1>1, <1>2

(* What is left of a bounded sequence after its first element.             *)
LEMMA TailBounded ==
  ASSUME NEW S, NEW n \in Nat, NEW s \in SeqOf(S, n), s # <<>>
  PROVE  /\ Head(s) \in S /\ Head(s) = s[1] /\ Len(s) \in 1..n
         /\ Tail(s) \in SeqOf(S, n) /\ Len(Tail(s)) = Len(s) - 1
         /\ \A i \in 1..Len(s) - 1 : Tail(s)[i] = s[i + 1]
  <1>1. s \in Seq(S) /\ Len(s) <= n
    BY BoundedSeqs
  <1>2. /\ Head(s) \in S /\ Head(s) = s[1] /\ Len(s) \in Nat \ {0}
        /\ Tail(s) \in Seq(S) /\ Len(Tail(s)) = Len(s) - 1
        /\ \A i \in 1..Len(s) - 1 : Tail(s)[i] = s[i + 1]
    BY <1>1
  <1>3. Tail(s) \in SeqOf(S, n)
    <2>1. Tail(s) \in Seq(S) /\ Len(Tail(s)) <= n
      BY <1>1, <1>2
    <2>2. QED
      BY <2>1, BoundedSeqs, Zenon
  <1>4. QED
    BY <1>1, <1>2, <1>3

LEMMA EmptyBounded == <<>> \in SeqOf(Facts, MaxFacts) /\ Len(<<>>) = 0
  <1>1. <<>> \in Seq(Facts) /\ Len(<<>>) = 0 /\ Len(<<>>) <= MaxFacts
    BY BoundAssumption
  <1>2. MaxFacts \in Nat
    BY BoundAssumption
  <1>3. QED
    BY <1>1, <1>2, BoundedSeqs, Zenon

LEMMA Counting ==
  ASSUME NEW S \in SUBSET Facts
  PROVE  IsFiniteSet(S) /\ Cardinality(S) \in 0..MaxFacts
  <1>1. IsFiniteSet(Facts) /\ Cardinality(Facts) = MaxFacts
    BY FS_Interval, BoundAssumption DEF Facts
  <1>2. IsFiniteSet(S) /\ Cardinality(S) <= MaxFacts
    BY <1>1, FS_Subset
  <1>3. QED
    BY <1>2, FS_CardinalityType

(* The orders in which what was deferred is looked at again.               *)
LEMMA OrdersBounded ==
  ASSUME NEW S \in SUBSET Facts, NEW order \in SetToSeqs(S)
  PROVE  order \in SeqOf(Facts, MaxFacts) /\ Len(order) \in 0..MaxFacts
  <1>1. Cardinality(S) \in 0..MaxFacts
    BY Counting
  <1>2. order \in [1..Cardinality(S) -> S]
    BY DEF SetToSeqs
  <1>3. order \in Seq(Facts) /\ Len(order) = Cardinality(S)
    BY <1>1, <1>2
  <1>4. QED
    BY <1>1, <1>3, BoundedSeqs, BoundAssumption

-----------------------------------------------------------------------------
(***************************************************************************)
(* What several actions have in common.                                    *)
(***************************************************************************)

LEMMA Initially == Init => IInv
  <1> SUFFICES ASSUME Init PROVE IInv
    OBVIOUS
  <1>1. <<>> \in SeqOf(Facts, MaxFacts) /\ Len(<<>>) = 0
    BY EmptyBounded
  <1>2. {f \in Facts : tickets.made[f] > 0} \in SUBSET Facts
        /\ {f \in Facts : cand[f].today} \in SUBSET Facts
    OBVIOUS
  <1>3. /\ Cardinality({f \in Facts : tickets.made[f] > 0}) \in Nat
        /\ AdmittedToday \in Nat
    BY <1>2, Counting DEF AdmittedToday
  <1>4. TypeOK
    BY <1>1, BoundAssumption
    DEF Init, TypeOK, Run, Candidate, Op, Loop, NoRun, NoOp, Idle, Facts, What
  <1>5. /\ op = NoOp /\ cursor = 0 /\ run.before = 0 /\ day.made = 0 /\ day.cut = 0
        /\ day.faults = 0 /\ \A f \in Facts : ~cand[f].today /\ tickets.made[f] = 0
    BY DEF Init, NoRun
  <1>6. NoDuplicateTickets /\ op.count + Len(op.todo) <= MaxFacts
    BY <1>1, <1>4, <1>5, BoundAssumption DEF NoDuplicateTickets, NoOp
  <1>7. Admits /\ Covers
    BY <1>5 DEF Admits, Covers, CursorCovers, DecidedTo, NoOp
  <1>8. Counted /\ DayLimitKept
    BY <1>3, <1>5, BoundAssumption DEF Counted, DayLimitKept, Doing, Free, NoOp
  <1>9. QED
    BY <1>6, <1>7, <1>8 DEF IInv

(* The ledger and the operation stay; a run may begin.                     *)
LEMMA LedgerStays ==
  ASSUME IInv, TypeOK', UNCHANGED <<Ledger, op>>, run'.before \in {run.before, cursor, 0},
         day'.made = day.made, day'.cut = day.cut, day'.faults >= day.faults
  PROVE  IInv'
  <1>1. NoDuplicateTickets' /\ (op.count + Len(op.todo) <= MaxFacts)'
    BY DEF IInv, NoDuplicateTickets, Ledger
  <1>2. Admits'
    BY DEF IInv, Admits, Ledger, Current, AdmittedToday
  <1>3. Covers'
    BY DEF IInv, Covers, CursorCovers, DecidedTo, Ledger
  <1>4. Counted' /\ DayLimitKept'
    BY DEF IInv, Counted, DayLimitKept, Ledger, Doing, Free, AdmittedToday, NoDuplicateTickets, TypeOK
  <1>5. QED
    BY <1>1, <1>2, <1>3, <1>4 DEF IInv

(* The ledger stays, the operation ends; an admission that ends after its  *)
(* ticket was created is counted as cut short.                             *)
LEMMA OperationEnds ==
  ASSUME IInv, TypeOK', UNCHANGED <<run, Ledger>> \/ (UNCHANGED Ledger /\ run' = NoRun),
         op' = NoOp, day'.made = day.made, day'.faults >= day.faults, day'.cut <= day'.faults,
         day'.cut >= day.cut + IF Doing("record") THEN 1 ELSE 0
  PROVE  IInv'
  <1>1. Len(op'.todo) = 0 /\ op'.count = 0 /\ op'.kind = "none"
    BY EmptyBounded DEF NoOp
  <1>2. NoDuplicateTickets' /\ (op.count + Len(op.todo) <= MaxFacts)'
    BY <1>1, BoundAssumption DEF IInv, NoDuplicateTickets, Ledger
  <1>3. Admits'
    BY <1>1 DEF Admits
  <1>4. Covers'
    BY <1>1 DEF IInv, Covers, CursorCovers, DecidedTo, Ledger, NoRun
  <1>5. AdmittedToday \in 0..MaxFacts
    BY Counting DEF AdmittedToday
  <1>6. day.made <= PerDay + day.cut /\ day.cut <= day'.cut /\ PerDay \in Nat
    <2>1. day.cut \in Nat /\ day'.cut \in Nat
      BY DEF IInv, NoDuplicateTickets, TypeOK
    <2>2. QED
      BY <2>1, BoundAssumption DEF IInv, DayLimitKept, Doing
  <1>7. DayLimitKept'
    <2>1. day.made \in Nat /\ day.cut \in Nat /\ day'.cut \in Nat
      BY DEF IInv, NoDuplicateTickets, TypeOK
    <2>2. QED
      BY <1>6, <2>1 DEF DayLimitKept
  <1>8. Counted'
    <2>1. day.made \in Nat /\ day.cut \in Nat /\ day'.cut \in Nat
      BY DEF IInv, NoDuplicateTickets, TypeOK
    <2>2. AdmittedToday' = AdmittedToday /\ ~Doing("record")'
      BY <1>1 DEF AdmittedToday, Ledger, Doing, Free
    <2>3. day.made <= AdmittedToday + day'.cut
      BY <1>5, <2>1 DEF IInv, Counted
    <2>4. QED
      <3>1. Cardinality({f \in Facts : tickets.made[f] > 0})'
              = Cardinality({f \in Facts : tickets.made[f] > 0})
        BY DEF Ledger
      <3>2. day'.made <= AdmittedToday' + day'.cut + (IF Doing("record")' THEN 1 ELSE 0)
        BY <1>5, <2>1, <2>2, <2>3
      <3>3. \A f \in Facts : cand'[f].today => cand'[f].ticket
        BY DEF IInv, Counted, Ledger
      <3>4. QED
        BY <3>1, <3>2, <3>3 DEF IInv, Counted
  <1>9. QED
    BY <1>2, <1>3, <1>4, <1>7, <1>8 DEF IInv

(* An operation begins.                                                    *)
LEMMA OperationBegins ==
  ASSUME IInv, TypeOK', UNCHANGED <<cursor, cand, tickets, day>>, Free,
         run'.before \in {run.before, cursor},
         op'.kind \in {"complete", "reconcile", "external", "save"},
         op'.at \in {"decide", "run", "write"}, op'.count = 0, Len(op'.todo) \in 0..MaxFacts,
         op'.kind = "complete" /\ op'.at # "run" =>
           \A f \in 1..op'.found :
             cand[f].decision # "none" \/ \E i \in 1..Len(op'.todo) : op'.todo[i] = f
  PROVE  IInv'
  <1>1. NoDuplicateTickets' /\ (op.count + Len(op.todo) <= MaxFacts)'
    BY BoundAssumption DEF IInv, NoDuplicateTickets
  <1>2. Admits'
    BY DEF Admits
  <1>3. Covers'
    BY DEF IInv, Covers, CursorCovers, DecidedTo
  <1>4. Counted' /\ DayLimitKept'
    BY DEF IInv, Counted, DayLimitKept, Doing, Free, AdmittedToday
  <1>5. QED
    BY <1>1, <1>2, <1>3, <1>4 DEF IInv

(* The operation goes on to its next fact; the one it leaves has got an    *)
(* entry in the ledger.                                                    *)
LEMMA GoesOn ==
  ASSUME IInv, TypeOK', UNCHANGED <<run, cursor, tickets>>, op.kind # "none", op.todo # <<>>,
         op.at # "run", NEW n \in {0, 1}, op' = [Onward(op) EXCEPT !.count = op.count + n],
         \A f \in Facts : cand[f].decision # "none" => cand'[f].decision # "none",
         cand'[Current].decision # "none" \/ op.kind # "complete",
         Counted', DayLimitKept'
  PROVE  IInv'
  <1>1. /\ op.todo \in SeqOf(Facts, MaxFacts) /\ MaxFacts \in Nat /\ op.count \in 0..MaxFacts
        /\ op'.todo = Tail(op.todo) /\ op'.count = op.count + n /\ op'.at = "decide"
        /\ op'.kind = op.kind /\ op'.found = op.found /\ op.found \in 0..MaxFacts
    BY BoundAssumption DEF IInv, NoDuplicateTickets, TypeOK, Op, Onward
  <1>2. /\ Current = op.todo[1] /\ Len(op.todo) \in 1..MaxFacts
        /\ Len(op'.todo) = Len(op.todo) - 1
        /\ \A i \in 1..Len(op.todo) - 1 : op'.todo[i] = op.todo[i + 1]
    <2>1. /\ Head(op.todo) = op.todo[1] /\ Len(op.todo) \in 1..MaxFacts
          /\ Len(Tail(op.todo)) = Len(op.todo) - 1
          /\ \A i \in 1..Len(op.todo) - 1 : Tail(op.todo)[i] = op.todo[i + 1]
      BY SMTT(60), <1>1, TailBounded, Zenon
    <2>2. QED
      BY <1>1, <2>1 DEF Current
  <1>3. NoDuplicateTickets' /\ (op.count + Len(op.todo) <= MaxFacts)'
    BY <1>1, <1>2 DEF IInv, NoDuplicateTickets
  <1>4. Admits'
    BY <1>1 DEF Admits
  <1>5. Covers'
    <2>1. CursorCovers' /\ DecidedTo(run.before)'
      <3>1. cursor \in 0..MaxFacts /\ run.before \in 0..MaxFacts
        BY DEF IInv, TypeOK, NoDuplicateTickets, Run
      <3>2. \A f \in 1..cursor : f \in Facts
        BY <1>1, <3>1 DEF Facts
      <3>3. \A f \in 1..run.before : f \in Facts
        BY <1>1, <3>1 DEF Facts
      <3>4. QED
        BY <3>2, <3>3 DEF IInv, Covers, CursorCovers, DecidedTo
    <2>2. ASSUME op.kind = "complete", NEW f \in 1..op.found
          PROVE  cand'[f].decision # "none" \/ \E i \in 1..Len(op'.todo) : op'.todo[i] = f
      <3>1. f \in Facts
        BY <1>1 DEF Facts
      <3>2. CASE cand[f].decision # "none"
        BY <3>1, <3>2
      <3>3. CASE cand[f].decision = "none"
        <4>1. PICK i \in 1..Len(op.todo) : op.todo[i] = f
          BY <2>2, <3>3 DEF IInv, Covers
        <4>2. CASE i = 1
          BY <1>2, <2>2, <4>1, <4>2
        <4>3. CASE i # 1
          <5>1. i - 1 \in 1..Len(op'.todo) /\ op'.todo[i - 1] = op.todo[(i - 1) + 1]
            BY <1>2, <4>1, <4>3
          <5>2. (i - 1) + 1 = i
            OBVIOUS
          <5>3. QED
            BY <4>1, <5>1, <5>2
        <4>4. QED
          BY <4>2, <4>3
      <3>4. QED
        BY <3>2, <3>3
    <2>3. QED
      BY <1>1, <2>1, <2>2 DEF Covers
  <1>6. QED
    BY <1>3, <1>4, <1>5 DEF IInv

-----------------------------------------------------------------------------
(***************************************************************************)
(* The actions of the environment and of the supervisors.                  *)
(***************************************************************************)

(* One more fault.                                                         *)
LEMMA FaultTyped ==
  ASSUME TypeOK, MayFail
  PROVE  /\ Fault(day) \in [made : 0..MaxFacts, cut : 0..MaxFaults, turns : 0..MaxDays,
                            faults : 0..MaxFaults]
         /\ Fault(day).made = day.made /\ Fault(day).cut = day.cut
         /\ Fault(day).faults = day.faults + 1 /\ day.faults \in 0..MaxFaults
  BY BoundAssumption DEF TypeOK, MayFail, Fault

(* A pass leaves the run, or begins one.                                   *)
LEMMA ScheduledTyped ==
  ASSUME TypeOK, NEW due \in BOOLEAN
  PROVE  LET run1 == Scheduled(due)
         IN  /\ run1 \in Run /\ (run1.status = "running") = (run1.holder # NoWorker)
             /\ run1.before \in {run.before, cursor}
  BY DEF Scheduled, NewRun, Run, TypeOK

LEMMA RunStep ==
  ASSUME IInv,
         \/ \E preview \in BOOLEAN : Trigger(preview)
         \/ PassFails \/ Restart \/ Expire \/ Appear
  PROVE  IInv'
  <1> USE DEF IInv, NoDuplicateTickets
  <1>1. ASSUME NEW preview \in BOOLEAN, Trigger(preview) PROVE IInv'
    <2>1. TypeOK'
      BY <1>1 DEF Trigger, TypeOK, NewRun, Run, Ledger
    <2>2. QED
      BY <1>1, <2>1, LedgerStays DEF Trigger, NewRun, Ledger, TypeOK
  <1>2. CASE Expire
    <2>1. TypeOK'
      <3>1. run' \in Run /\ run'.status # "running" /\ run'.holder = NoWorker
        BY <1>2 DEF Expire, Requeued, Run, TypeOK
      <3>2. day' \in [made : 0..MaxFacts, cut : 0..MaxFaults, turns : 0..MaxDays,
                      faults : 0..MaxFaults]
        <4>1. UNCHANGED day \/ (MayFail /\ day' = Fault(day))
          BY <1>2 DEF Expire, Failing
        <4>2. QED
          BY <4>1, FaultTyped DEF TypeOK
      <3>3. QED
        BY <1>2, <3>1, <3>2 DEF Expire, TypeOK, Ledger
    <2>2. QED
      BY SMTT(60), <1>2, <2>1, LedgerStays DEF Expire, Failing, Fault, MayFail, Requeued, Run, Ledger, TypeOK
  <1>3. CASE Appear
    <2>1. TypeOK'
      BY <1>3, BoundAssumption DEF Appear, TypeOK, Ledger
    <2>2. QED
      BY <1>3, <2>1, LedgerStays DEF Appear, Ledger, TypeOK
  <1>4. CASE PassFails
    <2>1. MayFail /\ day' = Fault(day) /\ UNCHANGED <<Ledger, op, facts, worker, enabled, kept>>
          /\ timer' = FALSE
      BY <1>4 DEF PassFails, Failing
    <2>2. PICK due \in BOOLEAN : run' = Scheduled(due)
      BY <1>4 DEF PassFails
    <2>3. /\ run' \in Run /\ (run'.status = "running") = (run'.holder # NoWorker)
          /\ run'.before \in {run.before, cursor}
      BY <2>2, ScheduledTyped DEF TypeOK
    <2>4. TypeOK'
      BY <2>1, <2>3, FaultTyped DEF TypeOK, Ledger
    <2>5. day'.made = day.made /\ day'.cut = day.cut /\ day'.faults >= day.faults
      BY <2>1, FaultTyped
    <2>6. QED
      BY <2>1, <2>3, <2>4, <2>5, LedgerStays
  <1>5. CASE Restart
    <2>1. TypeOK'
      BY <1>5 DEF Restart, TypeOK, Ledger
    <2>2. QED
      BY <1>5, <2>1, LedgerStays DEF Restart, Ledger, TypeOK
  <1>6. QED
    BY <1>1, <1>2, <1>3, <1>4, <1>5

(* The store is at rest; a worker has got its answer.                      *)
LEMMA NothingAtAll == NoOp \in Op
  <1> DEFINE e == <<>>
  <1>1. e \in SeqOf(Facts, MaxFacts) /\ 0 \in 0..MaxFacts
    BY EmptyBounded, BoundAssumption
  <1>2. NoOp = [kind |-> "none", at |-> "decide", todo |-> e, count |-> 0, found |-> 0,
              what |-> "source", content |-> FALSE]
    BY DEF NoOp
  <1> HIDE DEF e
  <1>3. QED
    BY <1>1, <1>2 DEF Op, What

(* The steps of a save leave the ledger alone.                             *)
LEMMA SaveStep ==
  ASSUME IInv, (\E what \in What, content \in BOOLEAN : Save(what, content)) \/ Write \/ Archive
  PROVE  IInv'
  <1> TypeOK
    BY DEF IInv, NoDuplicateTickets
  <1>1. ASSUME NEW what \in What, NEW content \in BOOLEAN, Save(what, content) PROVE IInv'
    <2>1. op' = [kind |-> "save", at |-> "write", todo |-> <<>>, count |-> 0, found |-> 0,
                 what |-> what, content |-> content]
      BY <1>1 DEF Save, NoOp
    <2>2. op' \in Op /\ op'.kind = "save" /\ op'.at = "write" /\ op'.count = 0
          /\ Len(op'.todo) \in 0..MaxFacts
      <3>1. 0 \in 0..MaxFacts /\ op'.todo = <<>>
        BY <2>1, BoundAssumption
      <3>2. <<>> \in SeqOf(Facts, MaxFacts)
        BY EmptyBounded
      <3> DEFINE nothing == <<>>
      <3>3. nothing \in SeqOf(Facts, MaxFacts) /\ op'.todo = nothing
            /\ op' = [kind |-> "save", at |-> "write", todo |-> nothing, count |-> 0, found |-> 0,
                      what |-> what, content |-> content]
        BY <2>1, <3>1, <3>2
      <3>4. Len(op'.todo) = 0
        BY <3>1, EmptyBounded
      <3> HIDE DEF nothing
      <3>5. QED
        BY <3>1, <3>3, <3>4 DEF Op
    <2>3. kept' \in [What -> SUBSET BOOLEAN] /\ enabled' = enabled /\ timer' = timer
      BY <1>1 DEF Save, TypeOK, What
    <2>4. TypeOK'
      BY <1>1, <2>2, <2>3 DEF Save, TypeOK, Ledger
    <2>5. QED
      BY <1>1, <2>2, <2>4, OperationBegins DEF Save, Ledger
  <1>2. CASE Write
    <2>1. /\ op.kind # "none" /\ op.at = "write" /\ op' = [op EXCEPT !.at = "archive"]
          /\ UNCHANGED <<kept, timer, facts, run, Ledger, worker, day>>
          /\ enabled' = [enabled EXCEPT ![op.what] = op.content]
      BY <1>2 DEF Write, Doing, Free
    <2>2. /\ op' \in Op /\ op'.at = "archive" /\ op'.kind = op.kind /\ op'.todo = op.todo
          /\ op'.count = op.count /\ op'.found = op.found
          /\ op.content \in BOOLEAN /\ op.what \in What
      BY <2>1 DEF TypeOK, Op
    <2>3. enabled' \in [source : BOOLEAN, campaign : BOOLEAN]
      BY <2>1, <2>2 DEF TypeOK, What
    <2>4. TypeOK'
      BY <2>1, <2>2, <2>3 DEF TypeOK, Ledger
    <2>5. NoDuplicateTickets' /\ (op.count + Len(op.todo) <= MaxFacts)'
      BY <2>1, <2>2, <2>4 DEF IInv, NoDuplicateTickets, Ledger
    <2>6. Admits'
      BY <2>2 DEF Admits
    <2>7. Covers'
      BY <2>1, <2>2 DEF IInv, Covers, CursorCovers, DecidedTo, Ledger
    <2>8. Counted' /\ DayLimitKept'
      <3>1. ~Doing("record") /\ ~Doing("record")' /\ AdmittedToday' = AdmittedToday
        BY <2>1, <2>2 DEF Doing, AdmittedToday, Ledger
      <3>2. QED
        BY <2>1, <3>1 DEF IInv, Counted, DayLimitKept, Ledger
    <2>9. QED
      BY <2>5, <2>6, <2>7, <2>8 DEF IInv
  <1>3. CASE Archive
    <2>1. /\ op.at = "archive" /\ op' = NoOp
          /\ UNCHANGED <<enabled, timer, facts, run, Ledger, worker, day>>
          /\ kept' = [kept EXCEPT ![op.what] = @ \cup {op.content}]
      BY <1>3 DEF Archive, Doing
    <2>2. op.content \in BOOLEAN /\ op.what \in What
      BY DEF TypeOK, Op
    <2>3. kept' \in [What -> SUBSET BOOLEAN] /\ op' \in Op
      BY <2>1, <2>2, NothingAtAll DEF TypeOK
    <2>4. TypeOK'
      BY <2>1, <2>3 DEF TypeOK, Ledger
    <2>5. day.faults \in Nat /\ day.cut \in Nat /\ day.cut <= day.faults /\ ~Doing("record")
      BY <2>1 DEF TypeOK, IInv, Counted, Doing
    <2>6. QED
      BY <2>1, <2>4, <2>5, OperationEnds
  <1>4. QED
    BY <1>1, <1>2, <1>3

LEMMA CloseStep ==
  ASSUME IInv, NEW g \in Facts, Close(g)
  PROVE  IInv'
  <1>1. TypeOK'
    BY DEF IInv, NoDuplicateTickets, Close, TypeOK
  <1>2. tickets'.made = tickets.made
    BY DEF IInv, NoDuplicateTickets, Close, TypeOK
  <1>3. NoDuplicateTickets' /\ (op.count + Len(op.todo) <= MaxFacts)'
    BY <1>1, <1>2 DEF IInv, NoDuplicateTickets, Close
  <1>4. Admits'
    BY <1>2 DEF IInv, Admits, Close, Current, AdmittedToday
  <1>5. Covers'
    BY DEF IInv, Covers, CursorCovers, DecidedTo, Close
  <1>6. Counted' /\ DayLimitKept'
    BY <1>2 DEF IInv, Counted, DayLimitKept, Close, Doing, Free, AdmittedToday
  <1>7. QED
    BY <1>3, <1>4, <1>5, <1>6 DEF IInv

LEMMA MidnightStep ==
  ASSUME IInv, Midnight
  PROVE  IInv'
  <1>1. \A f \in Facts : /\ cand'[f].decision = cand[f].decision
                         /\ cand'[f].ticket = cand[f].ticket /\ ~cand'[f].today
    BY DEF IInv, NoDuplicateTickets, Midnight, TypeOK, Candidate
  <1>2. TypeOK'
    <2>1. cand' \in [Facts -> Candidate]
      BY DEF IInv, NoDuplicateTickets, Midnight, TypeOK, Candidate
    <2>2. day' \in [made : 0..MaxFacts, cut : 0..MaxFaults, turns : 0..MaxDays,
                    faults : 0..MaxFaults]
      <3>1. day' = [day EXCEPT !.made = 0, !.cut = 0, !.turns = @ + 1] /\ day.turns < MaxDays
        BY DEF Midnight
      <3>2. day \in [made : 0..MaxFacts, cut : 0..MaxFaults, turns : 0..MaxDays,
                    faults : 0..MaxFaults]
        BY DEF IInv, NoDuplicateTickets, TypeOK
      <3>3. day.turns + 1 \in 0..MaxDays /\ 0 \in 0..MaxFacts /\ 0 \in 0..MaxFaults
        BY <3>1, <3>2, BoundAssumption
      <3>4. QED
        BY <3>1, <3>2, <3>3
    <2>3. QED
      BY <2>1, <2>2 DEF IInv, NoDuplicateTickets, Midnight, TypeOK
  <1>3. AdmittedToday' = 0
    <2>1. {f \in Facts : cand'[f].today} = {}
      BY <1>1
    <2>2. QED
      BY <2>1, FS_EmptySet DEF AdmittedToday
  <1>4. NoDuplicateTickets' /\ (op.count + Len(op.todo) <= MaxFacts)'
    BY <1>2 DEF IInv, NoDuplicateTickets, Midnight
  <1>5. Admits'
    <2>1. AdmittedToday \in Nat
      BY Counting DEF AdmittedToday
    <2>2. op.kind # "none" /\ op.todo # <<>> => Current \in Facts
      BY BoundAssumption, TailBounded DEF IInv, NoDuplicateTickets, TypeOK, Op, Current
    <2>3. QED
      BY <1>1, <1>3, <2>1, <2>2, BoundAssumption DEF IInv, Admits, Midnight, Current
  <1>6. Covers'
    <2>1. cursor \in 0..MaxFacts /\ run.before \in 0..MaxFacts /\ op.found \in 0..MaxFacts
      BY DEF IInv, TypeOK, NoDuplicateTickets, Run, Op
    <2>2. /\ \A f \in 1..cursor : f \in Facts
          /\ \A f \in 1..run.before : f \in Facts
          /\ \A f \in 1..op.found : f \in Facts
      BY <2>1, BoundAssumption DEF Facts
    <2>3. CursorCovers' /\ DecidedTo(run.before)'
      BY <1>1, <2>2 DEF IInv, Covers, CursorCovers, DecidedTo, Midnight
    <2>4. QED
      BY <1>1, <2>2, <2>3 DEF IInv, Covers, Midnight
  <1>7. Counted' /\ DayLimitKept'
    <2>1. day' = [day EXCEPT !.made = 0, !.cut = 0, !.turns = @ + 1]
      BY DEF Midnight
    <2>2. day'.made = 0 /\ day'.cut = 0 /\ day'.faults \in Nat
      BY <2>1 DEF IInv, NoDuplicateTickets, TypeOK
    <2>3. Cardinality({f \in Facts : tickets'.made[f] > 0}) \in Nat
      BY Counting
    <2>4. QED
      BY <1>1, <1>3, <2>2, <2>3, BoundAssumption DEF Counted, DayLimitKept, Doing, Free
  <1>8. QED
    BY <1>4, <1>5, <1>6, <1>7 DEF IInv

(* A supervisor's own steps: nothing of the store but the run may change.  *)
LEMMA WorkerStep ==
  ASSUME IInv, NEW w \in Workers,
         Claim(w) \/ Discover(w) \/ Fail(w) \/ ScriptFails(w) \/ LoopFails(w)
  PROVE  IInv'
  <1> USE DEF IInv, NoDuplicateTickets
  <1>1. /\ worker' \in [Workers -> Loop]
        /\ run' = run \/ run' = NoRun \/ run' = [run EXCEPT !.status = "running", !.holder = w]
    <2> /\ worker \in [Workers -> Loop] /\ facts \in 0..MaxFacts /\ 0 \in 0..MaxFacts
      BY BoundAssumption DEF TypeOK
    <2>1. CASE Claim(w)
      BY <2>1 DEF Claim, Loop
    <2>2. CASE Discover(w)
      BY <2>2 DEF Discover, Loop
    <2>3. CASE Fail(w)
      BY <2>3 DEF Fail, Loops, Loop
    <2>4. CASE ScriptFails(w)
      BY <2>4 DEF ScriptFails, Loops, Loop
    <2>5. CASE LoopFails(w)
      BY <2>5 DEF LoopFails, Loops, Loop
    <2>6. QED
      BY <2>1, <2>2, <2>3, <2>4, <2>5
  <1>2. /\ run' \in Run /\ (run'.status = "running") = (run'.holder # NoWorker)
        /\ run'.before \in {run.before, cursor, 0}
    <2> run \in Run /\ (run.status = "running") = (run.holder # NoWorker)
      BY DEF TypeOK
    <2>1. CASE run' = run
      BY <2>1
    <2>2. CASE run' = NoRun
      BY <2>2, BoundAssumption DEF NoRun, Run
    <2>3. CASE run' = [run EXCEPT !.status = "running", !.holder = w]
      BY <2>3, BoundAssumption DEF Run
    <2>4. QED
      BY <1>1, <2>1, <2>2, <2>3
  <1>3. /\ UNCHANGED <<Setup, facts, Ledger, op>>
        /\ UNCHANGED day \/ (MayFail /\ day' = Fault(day))
    BY DEF Claim, Discover, Fail, ScriptFails, LoopFails, Failing
  <1>4. /\ day' \in [made : 0..MaxFacts, cut : 0..MaxFaults, turns : 0..MaxDays,
                      faults : 0..MaxFaults]
        /\ day'.made = day.made /\ day'.cut = day.cut /\ day'.faults >= day.faults
    BY <1>3, FaultTyped DEF TypeOK
  <1>5. TypeOK'
    BY <1>1, <1>2, <1>3, <1>4 DEF TypeOK, Ledger
  <1>6. QED
    BY <1>2, <1>3, <1>4, <1>5, LedgerStays

-----------------------------------------------------------------------------
(***************************************************************************)
(* The operations of the store.                                            *)
(***************************************************************************)

(* What an operation holds is well typed.                                  *)
LEMMA OpTyped ==
  ASSUME TypeOK
  PROVE  /\ op.todo \in SeqOf(Facts, MaxFacts) /\ op.count \in 0..MaxFacts
         /\ op.found \in 0..MaxFacts /\ MaxFacts \in Nat /\ Len(op.todo) \in 0..MaxFacts
         /\ op.todo # <<>> => /\ Current \in Facts /\ Current = op.todo[1]
                              /\ Tail(op.todo) \in SeqOf(Facts, MaxFacts)
                              /\ Len(op.todo) \in 1..MaxFacts
                              /\ Len(Tail(op.todo)) = Len(op.todo) - 1
  <1>1. /\ op.todo \in SeqOf(Facts, MaxFacts) /\ op.count \in 0..MaxFacts
        /\ op.found \in 0..MaxFacts /\ MaxFacts \in Nat
    BY BoundAssumption DEF TypeOK, Op
  <1>2. Len(op.todo) \in 0..MaxFacts
    <2>1. op.todo \in Seq(Facts) /\ Len(op.todo) <= MaxFacts
      BY <1>1, BoundedSeqs, Zenon
    <2>2. QED
      BY <1>1, <2>1
  <1>3. ASSUME op.todo # <<>>
        PROVE  /\ Current \in Facts /\ Current = op.todo[1]
               /\ Tail(op.todo) \in SeqOf(Facts, MaxFacts)
               /\ Len(op.todo) \in 1..MaxFacts /\ Len(Tail(op.todo)) = Len(op.todo) - 1
    BY <1>1, <1>3, TailBounded, Zenon DEF Current
  <1>4. QED
    BY <1>1, <1>2, <1>3

(* A run, an explicit submission, another look: an operation begins.       *)
LEMMA BeginStep ==
  ASSUME IInv, \/ \E due \in BOOLEAN : Pass(due)
               \/ \E f \in Facts : External(f)
  PROVE  IInv'
  <1> TypeOK
    BY DEF IInv, NoDuplicateTickets
  <1>1. ASSUME NEW due \in BOOLEAN, Pass(due) PROVE IInv'
    <2>1. /\ run' \in Run /\ (run'.status = "running") = (run'.holder # NoWorker)
          /\ run'.before \in {run.before, cursor}
      BY <1>1, ScheduledTyped DEF Pass
    <2>2. CASE UNCHANGED op
      <3>1. TypeOK'
        BY <1>1, <2>1, <2>2 DEF Pass, TypeOK, Ledger
      <3>2. UNCHANGED <<Ledger, op>> /\ UNCHANGED day /\ day.faults \in Nat
        <4>1. UNCHANGED <<cursor, cand, tickets>> /\ UNCHANGED day
          BY <1>1 DEF Pass, Ledger
        <4>2. day.faults \in Nat
          BY DEF TypeOK
        <4>3. QED
          BY <2>2, <4>1, <4>2 DEF Ledger
      <3>3. QED
        BY <2>1, <3>1, <3>2, LedgerStays
    <2>3. ASSUME NEW order \in SetToSeqs(Deferred),
                 op' = [NoOp EXCEPT !.kind = "reconcile", !.todo = order]
          PROVE  IInv'
      <3>1. order \in SeqOf(Facts, MaxFacts) /\ Len(order) \in 0..MaxFacts
        BY OrdersBounded DEF Deferred
      <3>2. op' \in Op /\ op'.kind = "reconcile" /\ op'.at = "decide" /\ op'.count = 0
            /\ op'.todo = order
        <4>1. op' = [kind |-> "reconcile", at |-> "decide", todo |-> order, count |-> 0, found |-> 0,
                     what |-> "source", content |-> FALSE]
          BY <2>3 DEF NoOp
        <4>2. 0 \in 0..MaxFacts
          BY BoundAssumption
        <4>3. QED
          BY <3>1, <4>1, <4>2 DEF Op, What
      <3>3. TypeOK'
        BY <1>1, <2>1, <3>2 DEF Pass, TypeOK, Ledger
      <3>4. QED
        BY <1>1, <2>1, <3>1, <3>2, <3>3, OperationBegins DEF Pass, Ledger
    <2>4. QED
      BY <1>1, <2>2, <2>3 DEF Pass
  <1>2. ASSUME NEW f \in Facts, External(f) PROVE IInv'
    <2>1. <<f>> \in SeqOf(Facts, MaxFacts) /\ Len(<<f>>) \in 0..MaxFacts
      <3>1. MaxFacts \in Nat /\ 1 <= MaxFacts
        BY BoundAssumption DEF Facts
      <3>2. <<f>> \in Seq(Facts) /\ Len(<<f>>) = 1 /\ Len(<<f>>) <= MaxFacts
        BY <3>1
      <3>3. <<f>> \in SeqOf(Facts, MaxFacts)
        BY <3>1, <3>2, BoundedSeqs, Zenon
      <3>4. QED
        BY <3>1, <3>2, <3>3
    <2>2. op' \in Op /\ op'.kind = "external" /\ op'.at = "decide" /\ op'.count = 0
          /\ op'.todo = <<f>>
      <3>1. op' = [kind |-> "external", at |-> "decide", todo |-> <<f>>, count |-> 0, found |-> 0,
                   what |-> "source", content |-> FALSE]
        BY <1>2 DEF External, NoOp
      <3>2. 0 \in 0..MaxFacts
        BY BoundAssumption
      <3> DEFINE one == <<f>>
      <3>3. one \in SeqOf(Facts, MaxFacts)
        BY <2>1
      <3>4. op' = [kind |-> "external", at |-> "decide", todo |-> one, count |-> 0, found |-> 0,
                   what |-> "source", content |-> FALSE]
        BY <3>1
      <3>5. op'.todo = <<f>>
        BY <3>1
      <3> HIDE DEF one
      <3>6. QED
        BY <3>2, <3>3, <3>4, <3>5 DEF Op, What
    <2>3. TypeOK'
      BY <1>2, <2>2 DEF External, TypeOK, Ledger
    <2>4. QED
      BY <1>2, <2>1, <2>2, <2>3, OperationBegins DEF External, Ledger
  <1>3. QED
    BY <1>1, <1>2

(* A supervisor hands over what its script found: the facts beyond the     *)
(* cursor its run began with.                                              *)
LEMMA CompleteStep ==
  ASSUME IInv, NEW w \in Workers, Complete(w)
  PROVE  IInv'
  <1> DEFINE found == worker[w].found
             new == [i \in 1..(found - run.before) |-> run.before + i]
  <1> TypeOK
    BY DEF IInv, NoDuplicateTickets
  <1>1. found \in 0..MaxFacts /\ run.before \in 0..MaxFacts /\ MaxFacts \in Nat
    BY BoundAssumption DEF TypeOK, Loop, Run
  <1>2. /\ new \in SeqOf(Facts, MaxFacts) /\ Len(new) \in 0..MaxFacts
        /\ \A f \in 1..found : f \in 1..run.before \/ \E i \in 1..Len(new) : new[i] = f
    <2>1. CASE found <= run.before
      <3>1. 1..(found - run.before) = {}
        BY <1>1, <2>1
      <3>2. new = <<>>
        BY <3>1
      <3>3. \A f \in 1..found : f \in 1..run.before
        BY <1>1, <2>1
      <3> HIDE DEF new, found
      <3>4. QED
        BY <1>1, <3>2, <3>3, EmptyBounded
    <2>2. CASE found > run.before
      <3> DEFINE n == found - run.before
      <3>1. n \in 1..MaxFacts
        BY <1>1, <2>2
      <3>2. \A i \in 1..n : run.before + i \in Facts
        BY <1>1 DEF Facts
      <3>3. new \in [1..n -> Facts]
        BY <3>2
      <3>4. \A f \in 1..found : f \in 1..run.before \/ (f - run.before \in 1..n /\ new[f - run.before] = f)
        BY <1>1
      <3> HIDE DEF n, new, found
      <3>5. new \in Seq(Facts) /\ Len(new) = n
        BY <3>1, <3>3
      <3>6. new \in SeqOf(Facts, MaxFacts)
        <4>1. new \in Seq(Facts) /\ Len(new) <= MaxFacts
          BY <3>1, <3>5
        <4>2. QED
          BY <1>1, <4>1, BoundedSeqs, Zenon
      <3>7. QED
        BY <1>1, <3>1, <3>4, <3>5, <3>6
    <2>3. found <= run.before \/ found > run.before
      BY <1>1
    <2> HIDE DEF new, found
    <2>4. QED
      BY <2>1, <2>2, <2>3
  <1> DEFINE at == IF run.preview THEN "run" ELSE "decide"
             todo == IF run.preview THEN <<>> ELSE new
  <1>3. todo \in SeqOf(Facts, MaxFacts) /\ Len(todo) \in 0..MaxFacts
    <2>1. todo = <<>> \/ todo = new
      OBVIOUS
    <2> HIDE DEF new, found, todo
    <2>2. QED
      BY <1>1, <1>2, <2>1, EmptyBounded
  <1>4. /\ worker' \in [Workers -> Loop] /\ Free
        /\ UNCHANGED <<Setup, facts, run, Ledger, day>>
        /\ \/ UNCHANGED op
           \/ op' = [NoOp EXCEPT !.kind = "complete", !.found = found, !.at = at, !.todo = todo]
    <2>1. \A pc \in {"await", "fail"} : [worker EXCEPT ![w] = [pc |-> pc, found |-> 0]]
                                      \in [Workers -> Loop]
      <3>1. \A pc \in {"await", "fail"} : [pc |-> pc, found |-> 0] \in Loop
        BY <1>1 DEF Loop
      <3>2. worker \in [Workers -> Loop]
        BY DEF TypeOK
      <3>3. QED
        BY <3>1, <3>2
    <2> HIDE DEF found, new
    <2>2. QED
      BY <2>1 DEF Complete, Loops, found, new
  <1>5. at \in {"decide", "run"} /\ (at # "run" => todo = new)
    OBVIOUS
  <1> HIDE DEF todo, new, found, at
  <1>6. CASE UNCHANGED op
    <2>1. TypeOK'
      BY <1>4, <1>6 DEF TypeOK, Ledger
    <2>2. QED
      BY <1>4, <1>6, <2>1, LedgerStays DEF Ledger, TypeOK
  <1>7. CASE op' = [NoOp EXCEPT !.kind = "complete", !.found = found, !.at = at, !.todo = todo]
    <2>1. op' = [kind |-> "complete", at |-> at, todo |-> todo, count |-> 0, found |-> found,
                 what |-> "source", content |-> FALSE]
      BY <1>7 DEF NoOp
    <2>2. op' \in Op
      BY <1>1, <1>3, <1>5, <2>1 DEF Op, What
    <2>3. TypeOK'
      BY <1>4, <2>2 DEF TypeOK, Ledger
    <2>4. \A f \in 1..run.before : cand[f].decision # "none"
      BY DEF IInv, Covers, DecidedTo
    <2>5. op'.at # "run" => \A f \in 1..op'.found :
            cand[f].decision # "none" \/ \E i \in 1..Len(op'.todo) : op'.todo[i] = f
      <3>1. op'.found = found /\ op'.todo = todo /\ op'.at = at
        BY <2>1
      <3>2. QED
        BY <1>2, <1>5, <2>4, <3>1
    <2>6. /\ op'.kind = "complete" /\ op'.at \in {"decide", "run"} /\ op'.count = 0
          /\ Len(op'.todo) \in 0..MaxFacts
      BY <1>3, <1>5, <2>1
    <2>7. QED
      BY <1>4, <2>3, <2>5, <2>6, OperationBegins DEF Ledger
  <1>8. QED
    BY <1>4, <1>6, <1>7

(* An operation that goes on to the next fact.                             *)
LEMMA OnwardTyped ==
  ASSUME NEW o \in Op, Tail(o.todo) \in SeqOf(Facts, MaxFacts),
         NEW n \in {0, 1}, o.count + n \in 0..MaxFacts
  PROVE  /\ Onward(o) \in Op /\ Onward(o).count = o.count /\ Onward(o).at = "decide"
         /\ [Onward(o) EXCEPT !.count = o.count + n] \in Op
         /\ [Onward(o) EXCEPT !.count = o.count + n].at = "decide"
         /\ n = 0 => Onward(o) = [Onward(o) EXCEPT !.count = o.count + n]
  <1> DEFINE t == Tail(o.todo)
             p == Onward(o)
  <1> t \in SeqOf(Facts, MaxFacts)
    OBVIOUS
  <1>1. p = [o EXCEPT !.at = "decide", !.todo = t]
    BY DEF Onward, Op
  <1> HIDE DEF t, p
  <1>2. /\ p \in Op /\ p.count = o.count /\ p.at = "decide" /\ p.kind = o.kind
        /\ p.found = o.found /\ p.todo = t
    BY <1>1 DEF Op
  <1>3. /\ [p EXCEPT !.count = o.count + n] \in Op
        /\ [p EXCEPT !.count = o.count + n].at = "decide"
    BY <1>2 DEF Op
  <1>4. n = 0 => o.count + n = p.count
    BY <1>2 DEF Op
  <1>5. p = [p EXCEPT !.count = p.count]
    BY <1>2 DEF Op
  <1>6. QED
    BY <1>2, <1>3, <1>4, <1>5 DEF p

(* One candidate is looked at.                                             *)
LEMMA DecideStep ==
  ASSUME IInv, Decide
  PROVE  IInv'
  <1> TypeOK
    BY DEF IInv, NoDuplicateTickets
  <1>1. /\ op.kind # "none" /\ op.at = "decide" /\ op.todo # <<>>
        /\ UNCHANGED <<Setup, facts, run, cursor, tickets, worker, day>>
    BY DEF Decide, Doing, Free
  <1>2. /\ op.todo \in SeqOf(Facts, MaxFacts) /\ op.count \in 0..MaxFacts
        /\ Current \in Facts /\ Tail(op.todo) \in SeqOf(Facts, MaxFacts)
    BY <1>1, OpTyped
  <1>3. \A f \in Facts : cand[f] \in Candidate /\ cand[f].ticket \in BOOLEAN
    BY DEF TypeOK, Candidate
  <1>4. ASSUME NEW decision \in {"deferred", "duplicate"}, NEW ticket \in BOOLEAN,
               Note(Current, decision, ticket)
        PROVE  /\ cand' \in [Facts -> Candidate]
               /\ cand'[Current].decision # "none"
               /\ cand'[Current].ticket = (cand[Current].ticket \/ ticket)
               /\ \A f \in Facts : /\ cand'[f].today = cand[f].today
                                   /\ cand[f].ticket => cand'[f].ticket
                                   /\ cand[f].decision # "none" => cand'[f].decision # "none"
               /\ AdmittedToday' = AdmittedToday
    <2> DEFINE c == cand[Current]
               d == c.ticket \/ ticket
               r == [c EXCEPT !.decision = decision, !.ticket = d]
    <2>1. cand' = [cand EXCEPT ![Current] = r]
      BY <1>2, <1>4, Zenon DEF Note, TypeOK
    <2>2. c \in Candidate /\ d \in BOOLEAN /\ d = (c.ticket \/ ticket)
      BY <1>2, <1>3
    <2> HIDE DEF c, d
    <2>3. r \in Candidate /\ r.decision = decision /\ r.ticket = d /\ r.today = c.today
      BY <2>2 DEF Candidate
    <2> HIDE DEF r
    <2>4. /\ cand' \in [Facts -> Candidate]
          /\ \A f \in Facts : cand'[f] = IF f = Current THEN r ELSE cand[f]
      BY <2>1, <2>3 DEF TypeOK
    <2>5. \A f \in Facts : cand'[f].today = cand[f].today
      BY <2>3, <2>4 DEF c
    <2>6. AdmittedToday' = AdmittedToday
      BY <2>5 DEF AdmittedToday
    <2>7. /\ cand'[Current].decision # "none"
          /\ \A f \in Facts : cand[f].decision # "none" => cand'[f].decision # "none"
      BY <1>2, <2>3, <2>4
    <2>8. cand'[Current].ticket = (cand[Current].ticket \/ ticket)
      BY <1>2, <2>2, <2>3, <2>4 DEF c
    <2>9. \A f \in Facts : cand[f].ticket => cand'[f].ticket
      BY <1>2, <2>4, <2>8
    <2>10. QED
      BY <2>4, <2>5, <2>6, <2>7, <2>8, <2>9
  <1>5. ASSUME NEW decision \in {"deferred", "duplicate"}, NEW ticket \in BOOLEAN,
               Note(Current, decision, ticket), op'.at # "record"
        PROVE  Counted' /\ DayLimitKept'
    <2>1. ~Doing("record") /\ (op'.at # "record" => ~Doing("record")')
      BY <1>1 DEF Doing
    <2>2. day.made <= AdmittedToday + day.cut /\ AdmittedToday + day.cut \in Int
      <3>1. AdmittedToday \in 0..MaxFacts
        BY Counting DEF AdmittedToday
      <3>2. day.cut \in Nat /\ day.made \in Nat
        BY DEF TypeOK
      <3>3. QED
        BY <2>1, <3>1, <3>2 DEF IInv, Counted
    <2>3. \A f \in Facts : cand'[f].today => cand'[f].ticket
      BY <1>4, <1>5 DEF IInv, Counted
    <2>4. Counted'
      <3>1. Cardinality({f \in Facts : tickets.made[f] > 0})'
              = Cardinality({f \in Facts : tickets.made[f] > 0})
        BY <1>1
      <3>2. day'.made <= AdmittedToday' + day'.cut + (IF Doing("record")' THEN 1 ELSE 0)
        BY <1>1, <1>4, <1>5, <2>1, <2>2
      <3>3. QED
        BY <1>1, <2>3, <3>1, <3>2 DEF IInv, Counted
    <2>5. DayLimitKept'
      BY <1>1 DEF IInv, DayLimitKept
    <2>6. QED
      BY <2>4, <2>5
  <1>6. ASSUME NEW decision \in {"deferred", "duplicate"}, NEW ticket \in BOOLEAN,
               Decided(decision, ticket)
        PROVE  IInv'
    <2>1. Note(Current, decision, ticket) /\ op' = Onward(op)
      BY <1>6 DEF Decided
    <2>2. op' = [Onward(op) EXCEPT !.count = op.count + 0] /\ op' \in Op /\ op'.at = "decide"
      <3>1. op.count + 0 = op.count /\ op \in Op
        BY <1>2 DEF TypeOK
      <3>2. QED
        BY <1>2, <2>1, <3>1, OnwardTyped
    <2>3. TypeOK'
      BY <1>1, <1>4, <2>1, <2>2 DEF TypeOK
    <2>4. Counted' /\ DayLimitKept'
      BY <1>5, <2>1, <2>2
    <2>5. QED
      BY <1>1, <1>4, <2>1, <2>2, <2>3, <2>4, GoesOn
  <1>7. ASSUME Note(Current, "deferred", FALSE), op' = [op EXCEPT !.at = "create"],
               ~cand[Current].ticket, ~Represented(Current), ~Full
        PROVE  IInv'
    <2>1. /\ op' \in Op /\ op'.at = "create" /\ op'.todo = op.todo /\ op'.count = op.count
          /\ op'.kind = op.kind /\ op'.found = op.found
      BY <1>7 DEF TypeOK, Op
    <2>2. TypeOK'
      BY <1>1, <1>4, <1>7, <2>1 DEF TypeOK
    <2>3. Counted' /\ DayLimitKept'
      BY <1>5, <1>7, <2>1
    <2>4. NoDuplicateTickets' /\ (op.count + Len(op.todo) <= MaxFacts)'
      BY <1>1, <2>1, <2>2 DEF IInv, NoDuplicateTickets
    <2>5. Admits'
      <3>1. Current' = Current
        BY <2>1 DEF Current
      <3>2. ~cand'[Current].ticket
        BY <1>4, <1>7
      <3>3. tickets.made[Current] = 0
        BY <1>2, <1>7 DEF Represented, TypeOK
      <3>4. AdmittedToday' < PerDay
        <4>1. AdmittedToday \in 0..MaxFacts
          BY Counting DEF AdmittedToday
        <4>2. AdmittedToday < PerDay
          BY <1>2, <1>7, <4>1, BoundAssumption DEF Full
        <4>3. QED
          BY <1>4, <1>7, <4>2
      <3>5. QED
        BY <1>1, <2>1, <3>1, <3>2, <3>3, <3>4 DEF Admits
    <2>6. Covers'
      <3>1. cursor \in 0..MaxFacts /\ run.before \in 0..MaxFacts /\ op.found \in 0..MaxFacts
        BY DEF TypeOK, Run, Op
      <3>2. /\ \A f \in 1..cursor : f \in Facts
            /\ \A f \in 1..run.before : f \in Facts
            /\ \A f \in 1..op.found : f \in Facts
        BY <3>1, BoundAssumption DEF Facts
      <3>3. \A f \in Facts : cand[f].decision # "none" => cand'[f].decision # "none"
        BY <1>4, <1>7
      <3>4. CursorCovers' /\ DecidedTo(run.before)'
        BY <1>1, <3>2, <3>3 DEF IInv, Covers, CursorCovers, DecidedTo
      <3>5. QED
        BY <1>1, <2>1, <3>2, <3>3, <3>4 DEF IInv, Covers
    <2>7. QED
      BY <2>3, <2>4, <2>5, <2>6 DEF IInv
  <1>8. QED
    BY <1>6, <1>7 DEF Decide

(* What creating a ticket adds up to.                                      *)
LEMMA CreateStep ==
  ASSUME IInv, Create
  PROVE  IInv'
  <1> TypeOK
    BY DEF IInv, NoDuplicateTickets
  <1> DEFINE S == {f \in Facts : tickets.made[f] > 0}
  <1>1. /\ op.kind # "none" /\ op.at = "create"
        /\ tickets' = [tickets EXCEPT !.made[Current] = @ + 1]
        /\ day' = [day EXCEPT !.made = @ + 1]
        /\ op' = [op EXCEPT !.at = "record"]
        /\ UNCHANGED <<Setup, facts, run, cursor, cand, worker>>
    BY DEF Create, Doing, Free
  <1>2. /\ op.todo # <<>> /\ ~cand[Current].ticket /\ tickets.made[Current] = 0
        /\ AdmittedToday < PerDay
    BY <1>1 DEF IInv, Admits
  <1>3. Current \in Facts
    BY <1>2, OpTyped
  <1>4. /\ tickets'.closed = tickets.closed
        /\ tickets'.made \in [Facts -> 0..2] /\ tickets'.made[Current] = 1
        /\ \A f \in Facts : f # Current => tickets'.made[f] = tickets.made[f]
    BY <1>1, <1>2, <1>3 DEF TypeOK
  <1>5. tickets' \in [made : [Facts -> 0..2], closed : SUBSET Facts]
    BY <1>1, <1>2, <1>3 DEF TypeOK
  <1>6. /\ op' \in Op /\ op'.at = "record" /\ op'.todo = op.todo /\ op'.count = op.count
        /\ op'.kind = op.kind /\ op'.found = op.found
    BY <1>1 DEF TypeOK, Op
  <1>7. /\ S' = S \cup {Current} /\ Current \notin S /\ S' \in SUBSET Facts /\ S \in SUBSET Facts
    BY <1>2, <1>3, <1>4 DEF TypeOK
  <1>8. Cardinality(S') = Cardinality(S) + 1 /\ Cardinality(S) \in Nat /\ Cardinality(S') <= MaxFacts
    BY <1>7, Counting, FS_AddElement, BoundAssumption
  <1>9. AdmittedToday' = AdmittedToday /\ AdmittedToday \in 0..MaxFacts
    BY <1>1, Counting DEF AdmittedToday
  <1>10. /\ day'.made = day.made + 1 /\ day'.cut = day.cut /\ day'.faults = day.faults
         /\ day.made \in Nat /\ day.cut \in Nat /\ day.faults \in Nat
    BY <1>1 DEF TypeOK
  <1>11. Counted'
    <2>1. day.made <= Cardinality(S) /\ day.made <= AdmittedToday + day.cut
          /\ day.cut <= day.faults
      <3>1. ~Doing("record")
        BY <1>1 DEF Doing
      <3> HIDE DEF S
      <3>2. QED
        BY <1>9, <1>10, <3>1 DEF IInv, Counted, S
    <2>2. Doing("record")'
      BY <1>1, <1>6 DEF Doing, Free
    <2>3. day'.made <= Cardinality(S') /\ day'.made <= AdmittedToday' + day'.cut + 1
      BY <1>8, <1>9, <1>10, <2>1
    <2>4. QED
      BY <1>1, <1>10, <2>1, <2>2, <2>3 DEF IInv, Counted
  <1>12. DayLimitKept'
    <2>1. day.made <= AdmittedToday + day.cut
      <3>1. ~Doing("record")
        BY <1>1 DEF Doing
      <3>2. QED
        BY <1>9, <1>10, <3>1 DEF IInv, Counted
    <2>2. QED
      BY <1>2, <1>9, <1>10, <2>1, BoundAssumption DEF DayLimitKept
  <1>13. TypeOK'
    <2>1. day'.made \in 0..MaxFacts
      BY <1>8, <1>10, <1>11, BoundAssumption DEF Counted
    <2>2. day' \in [made : 0..MaxFacts, cut : 0..MaxFaults, turns : 0..MaxDays,
                    faults : 0..MaxFaults]
      BY <1>1, <1>10, <2>1 DEF TypeOK
    <2>3. QED
      BY <1>1, <1>5, <1>6, <2>2 DEF TypeOK
  <1>14. NoDuplicateTickets' /\ (op.count + Len(op.todo) <= MaxFacts)'
    <2>1. \A f \in Facts : tickets'.made[f] <= 1
      BY <1>4 DEF IInv, NoDuplicateTickets
    <2>2. QED
      BY <1>6, <1>13, <2>1 DEF IInv, NoDuplicateTickets
  <1>15. Admits'
    BY <1>1, <1>2, <1>6 DEF Admits, Current
  <1>16. Covers'
    BY <1>1, <1>6 DEF IInv, Covers, CursorCovers, DecidedTo
  <1>17. QED
    BY <1>11, <1>12, <1>14, <1>15, <1>16 DEF IInv

LEMMA NothingDone ==
  ASSUME TypeOK, NEW pc \in {"idle", "fail"}, Answered(pc)
  PROVE  NoOp \in Op /\ worker' \in [Workers -> Loop]
  <1>1. NoOp \in Op
    BY NothingAtAll
  <1>2. worker' = worker \/ worker' = [worker EXCEPT ![run.holder].pc = pc]
    BY DEF Answered
  <1>3. worker' \in [Workers -> Loop]
    BY <1>2 DEF TypeOK, Loop
  <1>4. QED
    BY <1>1, <1>3

(* The ledger takes the ticket in.                                         *)
LEMMA RecordStep ==
  ASSUME IInv, Record
  PROVE  IInv'
  <1> TypeOK
    BY DEF IInv, NoDuplicateTickets
  <1> DEFINE r == [decision |-> "admitted", ticket |-> TRUE, today |-> TRUE]
             T == {f \in Facts : cand[f].today}
  <1>1. /\ op.kind # "none" /\ op.at = "record" /\ cand' = [cand EXCEPT ![Current] = r]
        /\ op' = [Onward(op) EXCEPT !.count = @ + 1]
        /\ UNCHANGED <<Setup, facts, run, cursor, tickets, worker, day>>
    BY DEF Record, Doing, Free
  <1>2. op.todo # <<>> /\ ~cand[Current].ticket
    BY <1>1 DEF IInv, Admits
  <1>3. /\ Current \in Facts /\ Tail(op.todo) \in SeqOf(Facts, MaxFacts)
        /\ Len(op.todo) \in 1..MaxFacts /\ op.count \in 0..MaxFacts /\ MaxFacts \in Nat
    BY <1>2, OpTyped
  <1>4. op.count + 1 \in 0..MaxFacts /\ op \in Op
    BY SMTT(60), <1>3 DEF IInv, TypeOK
  <1>5. op' = [Onward(op) EXCEPT !.count = op.count + 1] /\ op' \in Op /\ op'.at = "decide"
    <2>1. Onward(op).count = op.count
      BY <1>3, <1>4, OnwardTyped
    <2>2. op' = [Onward(op) EXCEPT !.count = op.count + 1]
      BY <1>1, <2>1
    <2>3. QED
      BY <1>3, <1>4, <2>2, OnwardTyped
  <1>6. r \in Candidate
    BY DEF Candidate
  <1>7. /\ cand' \in [Facts -> Candidate]
        /\ \A f \in Facts : cand'[f] = IF f = Current THEN r ELSE cand[f]
    BY <1>1, <1>6 DEF TypeOK
  <1>8. T' = T \cup {Current} /\ Current \notin T /\ T \in SUBSET Facts
    BY <1>2, <1>3, <1>7 DEF IInv, Counted
  <1>9. AdmittedToday' = AdmittedToday + 1 /\ AdmittedToday \in Nat
    BY <1>8, Counting, FS_AddElement DEF AdmittedToday
  <1>10. Counted'
    <2>1. /\ Doing("record") /\ ~Doing("record")'
      BY <1>1, <1>5 DEF Doing, Free
    <2>2. day.made \in Nat /\ day.cut \in Nat
      BY DEF TypeOK
    <2>3. day.made <= AdmittedToday + day.cut + 1
      BY <2>1 DEF IInv, Counted
    <2>4. day'.made <= AdmittedToday' + day'.cut + (IF Doing("record")' THEN 1 ELSE 0)
      BY <1>1, <1>9, <2>1, <2>2, <2>3
    <2>5. \A f \in Facts : cand'[f].today => cand'[f].ticket
      BY <1>7 DEF IInv, Counted
    <2>6. QED
      BY <1>1, <2>4, <2>5 DEF IInv, Counted
  <1>11. DayLimitKept'
    BY <1>1 DEF IInv, DayLimitKept
  <1>12. TypeOK'
    BY <1>1, <1>5, <1>7 DEF TypeOK
  <1>13. /\ \A f \in Facts : cand[f].decision # "none" => cand'[f].decision # "none"
         /\ cand'[Current].decision # "none"
    BY <1>3, <1>7
  <1> HIDE DEF r, T
  <1>14. QED
    BY <1>1, <1>2, <1>5, <1>10, <1>11, <1>12, <1>13, GoesOn

(* An error of one candidate: the submission ends, or the other look goes  *)
(* on with the next.                                                       *)
LEMMA CreateFailsStep ==
  ASSUME IInv, CreateFails
  PROVE  IInv'
  <1> TypeOK
    BY DEF IInv, NoDuplicateTickets
  <1>1. /\ op.kind # "none" /\ op.at \in {"create", "record"} /\ MayFail
        /\ day' = IF op.at = "record" THEN [Fault(day) EXCEPT !.cut = @ + 1] ELSE Fault(day)
        /\ UNCHANGED <<Setup, facts, run, cursor, cand, tickets>>
    BY DEF CreateFails, Doing, Free, Failing, Ledger
  <1>2. /\ day.made \in Nat /\ day.cut \in Nat /\ day.faults \in Nat /\ day.cut <= day.faults
        /\ day.faults < MaxFaults /\ MaxFaults \in Nat
    BY <1>1, BoundAssumption DEF TypeOK, IInv, Counted, MayFail
  <1>3. /\ day' \in [made : 0..MaxFacts, cut : 0..MaxFaults, turns : 0..MaxDays, faults : 0..MaxFaults]
        /\ day'.made = day.made /\ day'.faults = day.faults + 1
        /\ day'.cut = day.cut + IF op.at = "record" THEN 1 ELSE 0
    <2>1. /\ Fault(day) \in [made : 0..MaxFacts, cut : 0..MaxFaults, turns : 0..MaxDays,
                             faults : 0..MaxFaults]
          /\ Fault(day).made = day.made /\ Fault(day).cut = day.cut
          /\ Fault(day).faults = day.faults + 1
      BY <1>1, FaultTyped
    <2>2. day.cut + 1 \in 0..MaxFaults
      BY <1>2
    <2>3. QED
      BY <1>1, <1>2, <2>1, <2>2
  <1>4. op.todo # <<>>
    BY <1>1 DEF IInv, Admits
  <1>5. CASE op.kind = "reconcile"
    <2>1. op' = Onward(op) /\ UNCHANGED worker
      BY <1>5 DEF CreateFails, GiveUp
    <2>2. /\ Tail(op.todo) \in SeqOf(Facts, MaxFacts) /\ op.count \in 0..MaxFacts
          /\ op.count + 0 = op.count /\ op \in Op
      BY <1>4, OpTyped DEF TypeOK
    <2>3. op' = [Onward(op) EXCEPT !.count = op.count + 0] /\ op' \in Op /\ op'.at = "decide"
      BY <2>1, <2>2, OnwardTyped
    <2>4. TypeOK'
      BY <1>1, <1>3, <2>1, <2>3 DEF TypeOK
    <2>5. AdmittedToday' = AdmittedToday /\ AdmittedToday \in Nat
      BY <1>1, Counting DEF AdmittedToday
    <2>6. Counted'
      <3>1. day.made <= AdmittedToday + day.cut + (IF op.at = "record" THEN 1 ELSE 0)
        BY <1>1 DEF IInv, Counted, Doing, Free
      <3>2. ~Doing("record")'
        BY <2>3 DEF Doing
      <3>3. day'.made <= AdmittedToday' + day'.cut + (IF Doing("record")' THEN 1 ELSE 0)
        BY <1>1, <1>2, <1>3, <2>5, <3>1, <3>2
      <3>4. day'.cut <= day'.faults
        BY <1>2, <1>3
      <3>5. QED
        BY <1>1, <1>3, <3>3, <3>4 DEF IInv, Counted
    <2>7. DayLimitKept'
      BY SMTT(60), <1>2, <1>3, BoundAssumption DEF IInv, DayLimitKept
    <2>8. QED
      BY <1>1, <1>4, <1>5, <2>3, <2>4, <2>6, <2>7, GoesOn
  <1>6. CASE op.kind # "reconcile"
    <2>1. op' = NoOp /\ Answered("fail")
      BY <1>6 DEF CreateFails, GiveUp
    <2>2. TypeOK'
      BY <1>1, <1>3, <2>1, NothingDone DEF TypeOK
    <2>3. day'.cut >= day.cut + (IF Doing("record") THEN 1 ELSE 0) /\ day'.cut <= day'.faults
      BY <1>1, <1>2, <1>3 DEF Doing, Free
    <2>4. UNCHANGED Ledger /\ day'.faults >= day.faults
      BY <1>1, <1>2, <1>3 DEF Ledger
    <2>5. QED
      BY <1>1, <1>3, <2>1, <2>2, <2>3, <2>4, OperationEnds
  <1>7. QED
    BY <1>5, <1>6

(* The candidates are through.                                             *)
LEMMA FinishStep ==
  ASSUME IInv, Finish
  PROVE  IInv'
  <1> TypeOK
    BY DEF IInv, NoDuplicateTickets
  <1>1. /\ op.kind # "none" /\ op.at = "decide" /\ op.todo = <<>>
        /\ UNCHANGED <<Setup, facts, run, cand, tickets, worker, day>>
    BY DEF Finish, Doing, Free
  <1>2. day.faults \in Nat /\ day.cut \in Nat /\ day.cut <= day.faults
    BY DEF TypeOK, IInv, Counted
  <1>3. CASE op.kind # "complete"
    <2>1. op' = NoOp /\ UNCHANGED cursor
      BY <1>3 DEF Finish
    <2>2. NoOp \in Op
      BY NothingAtAll
    <2>3. TypeOK'
      BY <1>1, <2>1, <2>2 DEF TypeOK
    <2>4. ~Doing("record")
      BY <1>1 DEF Doing
    <2>5. QED
      BY <1>1, <1>2, <2>1, <2>3, <2>4, OperationEnds DEF Ledger
  <1>4. CASE op.kind = "complete"
    <2>1. cursor' = op.found /\ op' = [op EXCEPT !.at = "run"]
      BY <1>4 DEF Finish
    <2>2. /\ op' \in Op /\ op'.at = "run" /\ op'.todo = op.todo /\ op'.count = op.count
          /\ op.found \in 0..MaxFacts
      BY <2>1 DEF TypeOK, Op
    <2>3. TypeOK'
      BY <1>1, <2>1, <2>2 DEF TypeOK
    <2>4. NoDuplicateTickets' /\ (op.count + Len(op.todo) <= MaxFacts)'
      BY <1>1, <2>2, <2>3 DEF IInv, NoDuplicateTickets
    <2>5. Admits'
      BY <2>2 DEF Admits
    <2>6. Covers'
      <3>1. \A f \in 1..op.found : cand[f].decision # "none"
        <4>1. Len(op.todo) = 0
          BY <1>1, EmptyBounded
        <4>2. \A i : ~(i \in 1..Len(op.todo))
          BY <4>1
        <4>3. QED
          BY <1>1, <1>4, <4>2 DEF IInv, Covers
      <3>2. QED
        BY <1>1, <2>1, <2>2, <3>1 DEF IInv, Covers, CursorCovers, DecidedTo
    <2>7. Counted' /\ DayLimitKept'
      <3>1. ~Doing("record") /\ ~Doing("record")' /\ AdmittedToday' = AdmittedToday
        BY <1>1, <2>2 DEF Doing, AdmittedToday
      <3>2. QED
        BY <1>1, <3>1 DEF IInv, Counted, DayLimitKept
    <2>8. QED
      BY <2>4, <2>5, <2>6, <2>7 DEF IInv
  <1>5. QED
    BY <1>3, <1>4

(* The run is through; or the tracker dies, whatever it was doing.         *)
LEMMA EndStep ==
  ASSUME IInv, FinishRun \/ Crash
  PROVE  IInv'
  <1> TypeOK
    BY DEF IInv, NoDuplicateTickets
  <1>1. /\ op' = NoOp /\ (Answered("idle") \/ Answered("fail"))
        /\ UNCHANGED <<enabled, kept, facts, Ledger>> /\ (run' = NoRun \/ run' = run)
        /\ timer' \in BOOLEAN
    BY DEF FinishRun, Crash, TypeOK
  <1>2. /\ day.made \in Nat /\ day.cut \in Nat /\ day.faults \in Nat /\ day.cut <= day.faults
        /\ MaxFaults \in Nat
    BY BoundAssumption DEF TypeOK, IInv, Counted
  <1>3. /\ day' \in [made : 0..MaxFacts, cut : 0..MaxFaults, turns : 0..MaxDays, faults : 0..MaxFaults]
        /\ day'.made = day.made /\ day'.faults >= day.faults /\ day'.cut <= day'.faults
        /\ day'.cut >= day.cut + IF Doing("record") THEN 1 ELSE 0
    <2>1. CASE FinishRun
      <3>1. day' = day \/ (MayFail /\ day' = Fault(day))
        BY <2>1 DEF FinishRun, Failing
      <3>2. ~Doing("record")
        BY <2>1 DEF FinishRun, Doing
      <3>3. CASE day' = day
        BY <1>2, <3>2, <3>3 DEF TypeOK
      <3>4. CASE MayFail /\ day' = Fault(day)
        BY <1>2, <3>2, <3>4, FaultTyped
      <3>5. QED
        BY <3>1, <3>3, <3>4
    <2>2. CASE Crash
      <3>1. MayFail /\ day' = [Fault(day) EXCEPT !.cut = @ + IF op.at = "record" THEN 1 ELSE 0]
        BY <2>2 DEF Crash
      <3>2. day.faults < MaxFaults
        BY <3>1 DEF MayFail
      <3> DEFINE n == IF op.at = "record" THEN 1 ELSE 0
      <3>3. n \in {0, 1} /\ day.cut + n \in 0..MaxFaults /\ day.cut + n <= day.faults + 1
        BY <1>2, <3>2
      <3>4. n >= IF Doing("record") THEN 1 ELSE 0
        BY DEF Doing
      <3> HIDE DEF n
      <3>5. day' = [Fault(day) EXCEPT !.cut = Fault(day).cut + n]
        BY <3>1 DEF n
      <3>6. QED
        BY <1>2, <3>1, <3>3, <3>4, <3>5, FaultTyped
    <2>3. QED
      BY <2>1, <2>2
  <1>4. TypeOK'
    <2>1. op' \in Op /\ worker' \in [Workers -> Loop]
      BY <1>1, NothingDone
    <2>2. run' \in Run /\ (run'.status = "running") = (run'.holder # NoWorker)
      <3>1. CASE run' = run
        BY <3>1 DEF TypeOK
      <3>2. CASE run' = NoRun
        BY <3>2, BoundAssumption DEF Run, NoRun
      <3>3. QED
        BY <1>1, <3>1, <3>2
    <2>3. QED
      BY <1>1, <1>3, <2>1, <2>2 DEF TypeOK, Ledger
  <1>5. UNCHANGED Ledger
    BY <1>1
  <1>6. QED
    BY <1>1, <1>3, <1>4, <1>5, OperationEnds

-----------------------------------------------------------------------------
(***************************************************************************)
(* The theorems.                                                           *)
(***************************************************************************)

LEMMA NextStep == IInv /\ [Next]_vars => IInv'
  <1> SUFFICES ASSUME IInv, [Next]_vars PROVE IInv'
    OBVIOUS
  <1>1. CASE \E preview \in BOOLEAN : Trigger(preview)
    BY <1>1, RunStep
  <1>2. CASE \E due \in BOOLEAN : Pass(due)
    BY <1>2, BeginStep
  <1>3. CASE PassFails \/ Restart \/ Expire \/ Appear
    BY <1>3, RunStep
  <1>4. ASSUME NEW w \in Workers, Works(w) \/ ScriptFails(w) \/ LoopFails(w)
        PROVE  IInv'
    BY <1>4, WorkerStep, CompleteStep DEF Works
  <1>5. ASSUME NEW f \in Facts, External(f) \/ Close(f) PROVE IInv'
    BY <1>5, BeginStep, CloseStep
  <1>6. CASE Operates
    BY <1>6, DecideStep, CreateStep, CreateFailsStep, RecordStep, FinishStep, EndStep, SaveStep
    DEF Operates
  <1>7. CASE Crash
    BY <1>7, EndStep
  <1>8. CASE Midnight
    BY <1>8, MidnightStep
  <1>9. CASE UNCHANGED vars
    <2>1. TypeOK'
      BY <1>9 DEF IInv, NoDuplicateTickets, TypeOK, vars
    <2>2. UNCHANGED <<Ledger, op, run, day>> /\ day.faults \in Nat
      BY <1>9 DEF IInv, NoDuplicateTickets, TypeOK, vars, Ledger
    <2>3. QED
      BY <2>1, <2>2, LedgerStays
  <1>10. CASE \E what \in What, content \in BOOLEAN : Save(what, content)
    BY <1>10, SaveStep
  <1>11. QED
    BY <1>1, <1>2, <1>3, <1>4, <1>5, <1>6, <1>7, <1>8, <1>9, <1>10 DEF Next

LEMMA Invariant == Spec => []IInv
  BY Initially, NextStep, PTL DEF Spec

(* Whatever is cut short, retried, submitted twice or discovered again     *)
(* after a crash, an expiry or a lost reply: a fact has one ticket at      *)
(* most.                                                                   *)
THEOREM OneTicketPerFact == Spec => []NoDuplicateTickets
  <1>1. IInv => NoDuplicateTickets
    BY DEF IInv
  <1>2. QED
    BY <1>1, Invariant, PTL

(* The cursor only passes facts the candidate ledger has an entry for, for *)
(* any interleaving of runs, workers that come too late, and crashes.      *)
THEOREM CursorNeverAhead == Spec => []CursorCovers
  <1>1. IInv => CursorCovers
    BY DEF IInv, Covers
  <1>2. QED
    BY <1>1, Invariant, PTL

(* The limit per day holds of the tickets made, up to those whose          *)
(* admission was cut short after their creation.                           *)
THEOREM DayLimited == Spec => []DayLimitKept
  <1>1. IInv => DayLimitKept
    BY DEF IInv
  <1>2. QED
    BY <1>1, Invariant, PTL
=============================================================================
