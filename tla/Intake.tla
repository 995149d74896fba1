------------------------------- MODULE Intake -------------------------------
(***************************************************************************)
(* Continuous intake: one source of a campaign, whose script discovers     *)
(* facts on a supervisor, and the tracker's intake store, which turns each *)
(* fact into at most one ticket.                                           *)
(*                                                                         *)
(* The store runs one operation at a time (its queue), but an operation is *)
(* many file writes: the candidate, the ticket, the cursor, the run.  They *)
(* are steps of the operation "op", and the tracker may die between any    *)
(* two.  Facts appear upstream in order; the cursor is the number of facts *)
(* a successful run has handed over.  A fact is also its external key.     *)
(*                                                                         *)
(* Only the run that is ready or running matters to the store, so it alone *)
(* is kept.  A lease is the worker that holds it: a worker claims again    *)
(* only after it has let go.  A definition is whether it enables its       *)
(* source or campaign, and that is its revision too, a digest: a run pins  *)
(* the revisions it was scheduled with, and reads them in the archive.     *)
(* Outputs, metrics and the syntax of candidates and YAML are left out.    *)
(***************************************************************************)
EXTENDS Integers, Sequences, FiniteSets, SequencesExt

CONSTANTS
    Workers,    \* supervisors with an intake loop
    MaxFacts,   \* bound: facts that appear upstream
    PerRun, PerDay, MaxOpen,  \* the limits, of source and campaign together
    MaxDays,    \* bound: midnights
    MaxFaults,  \* bound: crashes, failed requests and scripts, lost replies
    NoWorker

Facts == 1..MaxFacts

ASSUME BoundAssumption ==
    /\ MaxFacts \in Nat /\ PerRun \in Nat /\ PerDay \in Nat /\ MaxOpen \in Nat
    /\ MaxFaults \in Nat /\ MaxDays \in Nat
    /\ NoWorker \notin Workers

VARIABLES
    enabled,  \* the current definitions: source and campaign
    kept,     \* the revisions of each in its archive
    timer,    \* the tracker's intake timer is armed
    facts,    \* how many facts there are upstream
    run,      \* the source run that is ready or running
    cursor,   \* the durable cursor
    cand,     \* the candidate ledger
    tickets,  \* tickets created for a fact, and the facts of closed tickets
    op,       \* the operation the store is carrying out
    worker,   \* the intake loops of the supervisors
    day       \* tickets created today, admissions cut short, midnights, faults

vars == <<enabled, kept, timer, facts, run, cursor, cand, tickets, op, worker, day>>

What == {"source", "campaign"}

(* A run, with the revisions it pins.                                      *)
Run == [status : {"none", "ready", "running"}, preview : BOOLEAN,
        holder : Workers \cup {NoWorker}, before : 0..MaxFacts,
        source : BOOLEAN, campaign : BOOLEAN]

Candidate == [decision : {"none", "deferred", "duplicate", "admitted"},
              ticket : BOOLEAN,     \* ticket_id is set
              today : BOOLEAN]      \* admitted_at is today

Op == [kind : {"none", "complete", "external", "reconcile", "save"},
       at : {"decide", "create", "record", "run", "write", "archive"},
       todo : SeqOf(Facts, MaxFacts), count : 0..MaxFacts, found : 0..MaxFacts,
       what : What, content : BOOLEAN]   \* of a save

Loop == [pc : {"idle", "exec", "send", "await", "fail"}, found : 0..MaxFacts]

NoRun == [status |-> "none", preview |-> FALSE, holder |-> NoWorker, before |-> 0,
          source |-> FALSE, campaign |-> FALSE]
NoOp == [kind |-> "none", at |-> "decide", todo |-> <<>>, count |-> 0, found |-> 0,
         what |-> "source", content |-> FALSE]
Idle == [pc |-> "idle", found |-> 0]

(* Both definitions have been saved, disabled.                             *)
Init == /\ enabled = [source |-> FALSE, campaign |-> FALSE]
        /\ kept = [what \in What |-> {FALSE}] /\ timer = TRUE
        /\ facts = 0 /\ run = NoRun /\ cursor = 0
        /\ cand = [f \in Facts |-> [decision |-> "none", ticket |-> FALSE, today |-> FALSE]]
        /\ tickets = [made |-> [f \in Facts |-> 0], closed |-> {}]
        /\ op = NoOp /\ worker = [w \in Workers |-> Idle]
        /\ day = [made |-> 0, cut |-> 0, turns |-> 0, faults |-> 0]

Free == op.kind = "none"
MayFail == day.faults < MaxFaults
Fault(d) == [d EXCEPT !.faults = @ + 1]
Failing == MayFail /\ day' = Fault(day)
Ledger == <<cursor, cand, tickets>>
Setup == <<enabled, kept, timer>>

-----------------------------------------------------------------------------
(***************************************************************************)
(* Runs of the source.                                                     *)
(***************************************************************************)
NewRun(preview) == [status |-> "ready", preview |-> preview,
                    holder |-> NoWorker, before |-> cursor,
                    source |-> enabled.source, campaign |-> enabled.campaign]

Trigger(preview) == /\ Free /\ run.status = "none"
                    /\ preview \/ (enabled.source /\ enabled.campaign)
                    /\ run' = NewRun(preview)
                    /\ UNCHANGED <<Setup, facts, Ledger, op, worker, day>>

Deferred == {f \in Facts : cand[f].decision = "deferred" /\ ~cand[f].ticket}

Scheduled(due) == IF due /\ run.status = "none" /\ enabled.source /\ enabled.campaign
                  THEN NewRun(FALSE) ELSE run

(* scheduleDue: a run, if its interval is over and none is active, and     *)
(* another look at what was deferred, in the order it was first seen,      *)
(* which is left open here.                                                *)
Pass(due) ==
    /\ Free /\ timer
    /\ run' = Scheduled(due)
    /\ IF Deferred = {} \/ ~enabled.campaign THEN UNCHANGED op
       ELSE \E order \in SetToSeqs(Deferred) :
                op' = [NoOp EXCEPT !.kind = "reconcile", !.todo = order]
    /\ UNCHANGED <<Setup, facts, Ledger, worker, day>>

(* A pass that throws, a file it could not read or write: the timer is     *)
(* armed again only after a pass that went well, or by a restart.          *)
PassFails == /\ Free /\ timer /\ Failing /\ timer' = FALSE
             /\ \E due \in BOOLEAN : run' = Scheduled(due)
             /\ UNCHANGED <<enabled, kept, facts, Ledger, op, worker>>

Restart == /\ Free /\ ~timer /\ timer' = TRUE
           /\ UNCHANGED <<enabled, kept, facts, run, Ledger, op, worker, day>>

Abandoned == run.status = "running" /\ worker[run.holder].pc = "idle"

(* Fault: the run is not written.                                          *)
RequeuedLost == run

Requeued == [run EXCEPT !.status = "ready", !.holder = NoWorker]

(* A lease nobody renews; or its holder's heartbeats did not get through.  *)
(* Every pass and every claim begins with it.                              *)
Expire == /\ Free /\ run.status = "running"
          /\ \/ Abandoned /\ UNCHANGED day
             \/ ~Abandoned /\ Failing
          /\ run' = Requeued
          /\ UNCHANGED <<Setup, facts, Ledger, op, worker>>

(* A run whose source revision is not in the archive is passed over.  A    *)
(* preview runs whatever is disabled.                                      *)
Claim(w) == /\ Free /\ worker[w].pc = "idle" /\ run.status = "ready"
            /\ run.source \in kept["source"]
            /\ run.preview \/ (run.source /\ enabled.campaign)
            /\ run' = [run EXCEPT !.status = "running", !.holder = w]
            /\ worker' = [worker EXCEPT ![w] = [pc |-> "exec", found |-> 0]]
            /\ UNCHANGED <<Setup, facts, Ledger, op, day>>

-----------------------------------------------------------------------------
(***************************************************************************)
(* The supervisor's intake loop.                                           *)
(***************************************************************************)
Loops(w, pc) == worker' = [worker EXCEPT ![w] = [pc |-> pc, found |-> 0]]

(* The script has written its result: all facts beyond the cursor it got.  *)
Discover(w) == /\ worker[w].pc = "exec"
               /\ worker' = [worker EXCEPT ![w] = [pc |-> "send", found |-> facts]]
               /\ UNCHANGED <<Setup, facts, run, Ledger, op, day>>

ScriptFails(w) == /\ worker[w].pc = "exec" /\ Failing /\ Loops(w, "fail")
                  /\ UNCHANGED <<Setup, facts, run, Ledger, op>>

(* Fault: the cursor moves before the candidates are recorded.             *)
CompleteAhead(w) ==
    LET found == worker[w].found
        new == [i \in 1..(found - run.before) |-> run.before + i]
    IN  /\ worker[w].pc = "send" /\ Free
        /\ IF run.holder = w /\ run.campaign \in kept["campaign"]
           THEN /\ Loops(w, "await") /\ cursor' = found
                /\ op' = [NoOp EXCEPT !.kind = "complete", !.found = found, !.todo = new]
           ELSE Loops(w, "fail") /\ UNCHANGED <<cursor, op>>
        /\ UNCHANGED <<Setup, facts, run, cand, tickets, day>>

(* The tracker takes the result of a lease it still knows, if it can read  *)
(* the campaign revision of the run.  A preview admits nothing and leaves  *)
(* the cursor.                                                             *)
Complete(w) ==
    LET found == worker[w].found
        new == [i \in 1..(found - run.before) |-> run.before + i]
    IN  /\ worker[w].pc = "send" /\ Free
        /\ IF run.holder = w /\ run.campaign \in kept["campaign"]
           THEN /\ Loops(w, "await")
                /\ op' = [NoOp EXCEPT !.kind = "complete", !.found = found,
                                      !.at = IF run.preview THEN "run" ELSE "decide",
                                      !.todo = IF run.preview THEN <<>> ELSE new]
           ELSE Loops(w, "fail") /\ UNCHANGED op
        /\ UNCHANGED <<Setup, facts, run, Ledger, day>>

(* A request fails on its way; the supervisor is restarted.                *)
LoopFails(w) == /\ worker[w].pc # "idle" /\ Failing
                /\ \/ worker[w].pc = "send" /\ Loops(w, "fail")
                   \/ Loops(w, "idle")
                /\ UNCHANGED <<Setup, facts, run, Ledger, op>>

Fail(w) == /\ worker[w].pc = "fail" /\ Free /\ Loops(w, "idle")
           /\ run' = IF run.holder = w THEN NoRun ELSE run
           /\ UNCHANGED <<Setup, facts, Ledger, op, day>>

-----------------------------------------------------------------------------
(***************************************************************************)
(* Admission: the steps of an operation of the store.                      *)
(***************************************************************************)
External(f) == /\ Free /\ f <= facts /\ enabled.source /\ enabled.campaign
               /\ op' = [NoOp EXCEPT !.kind = "external", !.todo = <<f>>]
               /\ UNCHANGED <<Setup, facts, run, Ledger, worker, day>>

Doing(at) == ~Free /\ op.at = at
Current == Head(op.todo)

Open == Cardinality({f \in Facts : tickets.made[f] > 0} \ tickets.closed)
AdmittedToday == Cardinality({f \in Facts : cand[f].today})

(* Fault: the limit per day is checked after the day's last ticket.        *)
FullLate == AdmittedToday > PerDay \/ Open >= MaxOpen

Full == AdmittedToday >= PerDay \/ Open >= MaxOpen

Onward(o) == [o EXCEPT !.at = "decide", !.todo = Tail(@)]

Note(f, decision, ticket) ==
    cand' = [cand EXCEPT ![f].decision = decision, ![f].ticket = @ \/ ticket]

Decided(decision, ticket) == /\ Note(Current, decision, ticket)
                             /\ op' = Onward(op)

(* Fault: a ticket that was closed no longer represents its fact.          *)
RepresentedOpen(f) == tickets.made[f] > 0 /\ f \notin tickets.closed

(* Whether a ticket of the source carries the fact as its external key.    *)
Represented(f) == tickets.made[f] > 0

Decide ==
    LET f == Current
        limited == op.kind # "reconcile" /\ op.count >= PerRun
    IN  /\ Doing("decide") /\ op.todo # <<>>
        /\ CASE cand[f].ticket -> Decided("duplicate", TRUE)
             [] ~cand[f].ticket /\ limited -> Decided("deferred", FALSE)
             [] ~cand[f].ticket /\ ~limited /\ Represented(f) -> Decided("duplicate", TRUE)
             [] ~cand[f].ticket /\ ~limited /\ ~Represented(f) /\ Full -> Decided("deferred", FALSE)
             [] OTHER -> /\ Note(f, "deferred", FALSE)
                         /\ op' = [op EXCEPT !.at = "create"]
        /\ UNCHANGED <<Setup, facts, run, cursor, tickets, worker, day>>

Create == /\ Doing("create")
          /\ tickets' = [tickets EXCEPT !.made[Current] = @ + 1]
          /\ day' = [day EXCEPT !.made = @ + 1]
          /\ op' = [op EXCEPT !.at = "record"]
          /\ UNCHANGED <<Setup, facts, run, cursor, cand, worker>>

Answered(pc) == worker' = IF op.kind = "complete" /\ run.holder # NoWorker
                             /\ worker[run.holder].pc = "await"
                          THEN [worker EXCEPT ![run.holder].pc = pc] ELSE worker

(* An error of one candidate ends the submission it came with, but not the *)
(* reconciliation.  It may come after the ticket's creation (the commands  *)
(* that mark the ticket admitted and ready).                               *)
GiveUp(pc) == IF op.kind = "reconcile" THEN op' = Onward(op) /\ UNCHANGED worker
                 ELSE op' = NoOp /\ Answered(pc)

CreateFails == /\ \/ Doing("create") /\ Failing
                  \/ /\ Doing("record") /\ MayFail
                     /\ day' = [Fault(day) EXCEPT !.cut = @ + 1]
               /\ GiveUp("fail")
               /\ UNCHANGED <<Setup, facts, run, Ledger>>

Record == /\ Doing("record")
          /\ cand' = [cand EXCEPT ![Current] = [decision |-> "admitted", ticket |-> TRUE,
                                                today |-> TRUE]]
          /\ op' = [Onward(op) EXCEPT !.count = @ + 1]
          /\ UNCHANGED <<Setup, facts, run, cursor, tickets, worker, day>>

(* The candidates are through: the cursor, then the run.                   *)
Finish == /\ Doing("decide") /\ op.todo = <<>>
          /\ IF op.kind = "complete"
             THEN /\ cursor' = op.found
                  /\ op' = [op EXCEPT !.at = "run"]
             ELSE op' = NoOp /\ UNCHANGED cursor
          /\ UNCHANGED <<Setup, facts, run, cand, tickets, worker, day>>

(* The reply to the worker may be lost; it then reports a failure.         *)
FinishRun == /\ Doing("run") /\ run' = NoRun /\ op' = NoOp
             /\ \/ Answered("idle") /\ UNCHANGED day
                \/ Answered("fail") /\ Failing
             /\ UNCHANGED <<Setup, facts, Ledger>>

-----------------------------------------------------------------------------
(* The tracker dies in the middle of an operation and comes back.          *)
Crash == /\ ~Free /\ MayFail /\ op' = NoOp /\ timer' = TRUE
         /\ day' = [Fault(day) EXCEPT !.cut = @ + IF op.at = "record" THEN 1 ELSE 0]
         /\ Answered("fail")
         /\ UNCHANGED <<enabled, kept, facts, run, Ledger>>

Appear == /\ facts < MaxFacts /\ facts' = facts + 1
          /\ UNCHANGED <<Setup, run, Ledger, op, worker, day>>

Close(f) == /\ tickets.made[f] > 0 /\ f \notin tickets.closed
            /\ tickets' = [tickets EXCEPT !.closed = @ \cup {f}]
            /\ UNCHANGED <<Setup, facts, run, cursor, cand, op, worker, day>>

(* A definition is saved: what it replaces goes to the archive, then the   *)
(* file is written, then what it says goes to the archive.                 *)
Save(what, content) ==
    /\ Free /\ kept' = [kept EXCEPT ![what] = @ \cup {enabled[what]}]
    /\ op' = [NoOp EXCEPT !.kind = "save", !.at = "write", !.what = what, !.content = content]
    /\ UNCHANGED <<enabled, timer, facts, run, Ledger, worker, day>>

Write == /\ Doing("write") /\ enabled' = [enabled EXCEPT ![op.what] = op.content]
         /\ op' = [op EXCEPT !.at = "archive"]
         /\ UNCHANGED <<kept, timer, facts, run, Ledger, worker, day>>

Archive == /\ Doing("archive") /\ op' = NoOp
           /\ kept' = [kept EXCEPT ![op.what] = @ \cup {op.content}]
           /\ UNCHANGED <<enabled, timer, facts, run, Ledger, worker, day>>

Midnight == /\ day.turns < MaxDays
            /\ day' = [day EXCEPT !.made = 0, !.cut = 0, !.turns = @ + 1]
            /\ cand' = [f \in Facts |-> [cand[f] EXCEPT !.today = FALSE]]
            /\ UNCHANGED <<Setup, facts, run, cursor, tickets, op, worker>>

Operates == \/ Decide \/ Create \/ CreateFails \/ Record \/ Finish \/ FinishRun
            \/ Write \/ Archive

Works(w) == Claim(w) \/ Discover(w) \/ Complete(w) \/ Fail(w)

Next == \/ \E preview \in BOOLEAN : Trigger(preview)
        \/ \E due \in BOOLEAN : Pass(due)
        \/ PassFails \/ Restart \/ Expire
        \/ \E w \in Workers : Works(w) \/ ScriptFails(w) \/ LoopFails(w)
        \/ \E f \in Facts : External(f) \/ Close(f)
        \/ Operates \/ Crash \/ Appear \/ Midnight
        \/ \E what \in What, content \in BOOLEAN : Save(what, content)

(* The tracker's timer, while it is armed, and its queue, which serves     *)
(* every request that waits; supervisors that run and claim.               *)
Spec == /\ Init /\ [][Next]_vars
        /\ WF_vars(Operates) /\ SF_vars(Pass(TRUE)) /\ SF_vars(Expire /\ Abandoned)
        /\ \A w \in Workers : SF_vars(Works(w))

TypeOK == /\ enabled \in [source : BOOLEAN, campaign : BOOLEAN]
          /\ kept \in [What -> SUBSET BOOLEAN] /\ timer \in BOOLEAN
          /\ facts \in 0..MaxFacts /\ run \in Run
          /\ (run.status = "running") = (run.holder # NoWorker) /\ cursor \in 0..MaxFacts
          /\ cand \in [Facts -> Candidate]
          /\ tickets \in [made : [Facts -> 0..2], closed : SUBSET Facts]
          /\ op \in Op /\ worker \in [Workers -> Loop]
          /\ day \in [made : 0..MaxFacts, cut : 0..MaxFaults, turns : 0..MaxDays,
                      faults : 0..MaxFaults]

-----------------------------------------------------------------------------
(***************************************************************************)
(* Properties.                                                             *)
(***************************************************************************)

(* Repeated observations of a fact never create a second ticket            *)
(* (v3.md:287), whatever is cut short, retried or submitted twice.         *)
NoDuplicateTickets == TypeOK /\ \A f \in Facts : tickets.made[f] <= 1

(* The cursor never passes a fact the ledger does not know: what a crash,  *)
(* an error or a lost lease cuts short is discovered again.                *)
CursorCovers == \A f \in 1..cursor : cand[f].decision # "none"

(* A day's new tickets stay within the limit, except that an admission cut *)
(* short after its ticket was created does not count.                      *)
DayLimitKept == day.made <= PerDay + day.cut

Disabled == ~enabled.source \/ ~enabled.campaign

(* Every fact is recorded in the end, unless somebody stands in the way    *)
(* for ever: the source is disabled again and again, the timer died and    *)
(* the tracker is not restarted, or a save was cut short before its last   *)
(* write and nobody saves again.  No failure, expiry or lost reply does.   *)
FactsRecorded ==
    \/ []<>Disabled
    \/ <>[]~timer
    \/ <>[](\E what \in What : enabled[what] \notin kept[what])
    \/ []<>(\A f \in 1..facts : cand[f].decision # "none")

(* v3.md:214: "Script sources run periodically on a supervisor".  An       *)
(* enabled source gets its next run; the run is carried out.               *)
SourcesScheduled == run.status = "none" ~> run.status # "none" \/ Disabled
RunsClaimed == run.status = "ready" ~> run.status # "ready" \/ Disabled

(* README.md:88: "Disabled campaigns/sources stop new execution".          *)
DisabledStops ==
    [][\A w \in Workers : Claim(w) /\ ~run.preview
         => enabled.source /\ enabled.campaign]_vars
=============================================================================
