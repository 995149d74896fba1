--------------------------- MODULE ExecutionTrace ---------------------------
(***************************************************************************)
(* What is kept of one agent run: the operational trace a recorder in the  *)
(* supervisor streams to the tracker in batches, the session evidence it   *)
(* uploads when the run ends or asks, and the manifest that closes it.     *)
(*                                                                         *)
(* Recorder and assignment call the tracker independently.  A call may be  *)
(* given up while the tracker still serves it later, or its reply may be   *)
(* lost; the supervisor may crash and begin again on the same lease with a *)
(* recorder of a new identity.  An event is its sequence number: batches   *)
(* of one trace with the same bounds have the same bytes.                  *)
(*                                                                         *)
(* A batch is stored in two writes, its record and then the ticket.  The   *)
(* tracker may die between them; maintenance finds the record without a    *)
(* ticket a grace period later and reattaches it.                          *)
(*                                                                         *)
(* The spool file, which nothing reads back, and the limits on the bytes   *)
(* of a request are left out, as are other uploads, for which Capacity is  *)
(* small, and records that evidence or a manifest leave in such a crash.   *)
(***************************************************************************)
EXTENDS Integers, Sequences, FiniteSets

CONSTANTS
    Kinds,        \* kinds of session evidence
    Contents,     \* what the agent's session may hold when it is captured
    BatchSize,    \* events a batch may hold
    Capacity,     \* artifacts the ticket may refer to
    MaxEvents,    \* bound: events before a run is wound up
    MaxTraces,    \* bound: recorders the run may have
    MaxFaults,    \* bound: calls given up, replies lost, crashes of either side
    None

ASSUME BoundAssumption == /\ BatchSize \in Nat \ {0} /\ Capacity \in Nat
                          /\ MaxEvents \in Nat /\ MaxTraces \in Nat /\ MaxFaults \in Nat
ASSUME KindsAssumption == IsFiniteSet(Kinds)

VARIABLES
    run,        \* the node run on the tracker: its status, its manifest
    chunks,     \* batches the ticket refers to
    orphans,    \* records of batches that no ticket refers to
    evidence,   \* session evidence stored
    rec,        \* the recorder
    flushes,    \* flushes under way: the first runs, the others wait for it
    pc, todo,   \* the assignment: where it is, evidence still to upload
    why,        \* the disposition it winds up with
    calls,      \* the call each part of the supervisor waits for
    late,       \* calls given up that the tracker may still serve
    faults

vars == <<run, chunks, orphans, evidence, rec, flushes, pc, todo, why, calls, late, faults>>
tracker == <<run, chunks, orphans, evidence>>
supervisor == <<pc, todo, why>>

Callers == {"flush", "main"}
Traces == 1..MaxTraces
Sequence == 1..(MaxEvents + 2 * Cardinality(Kinds) + 4)
Orphan == [trace : Traces, first : Sequence, last : Sequence, completed : BOOLEAN,
            crash : 1..MaxFaults]

(* place is where the ticket lists the batch, among the others.            *)
Chunk == [trace : Traces, first : Sequence, last : Sequence, completed : BOOLEAN,
          recovered : BOOLEAN, place : 1..Capacity]
Dispositions == {"question", "callback", "interrupted", "delivery_failed", "agent_disappeared"}
Evidence == [kind : Kinds, key : Dispositions, content : Contents]

(* The dispositions of a run that has ended; of some a manifest is made.   *)
Ends == {"callback", "interrupted", "delivery_failed"}
Manifested == {"callback", "interrupted"}

Recorder(t) == [trace |-> t, next |-> 1, pending |-> <<>>, closed |-> FALSE, timer |-> FALSE]

Init == /\ run = [status |-> "running", manifest |-> None]
        /\ chunks = {} /\ orphans = {} /\ evidence = {}
        /\ rec = Recorder(0) /\ flushes = <<>>
        /\ pc = "off" /\ todo = {} /\ why = None
        /\ calls = [c \in Callers |-> None] /\ late = {}
        /\ faults = 0

-----------------------------------------------------------------------------
(***************************************************************************)
(* The recorder.                                                           *)
(***************************************************************************)

(* The recorder with one more event, and the flushes with the one that a   *)
(* full batch starts; otherwise a timer will start it.                     *)
Filled(r) == Len(r.pending) >= BatchSize
Noted(r) == LET s == [r EXCEPT !.next = @ + 1, !.pending = Append(@, r.next)]
            IN  [s EXCEPT !.timer = ~Filled(s)]
Record == /\ rec' = Noted(rec)
          /\ flushes' = IF Filled(rec') THEN Append(flushes, FALSE) ELSE flushes

Timer == /\ rec.timer
         /\ rec' = [rec EXCEPT !.timer = FALSE] /\ flushes' = Append(flushes, FALSE)
         /\ UNCHANGED <<tracker, supervisor, calls, late, faults>>

(* Fault: only the flush that closes the recorder marks its batch.         *)
FinalAsked(batch) == Head(flushes) /\ Len(batch) = Len(rec.pending)

(* A batch that empties the recorder is the last one when the recorder is  *)
(* being closed or the batch holds the closing event.                      *)
Final(batch) == /\ Len(batch) = Len(rec.pending)
                /\ Head(flushes) \/ (rec.closed /\ batch[Len(batch)] = rec.next - 1)

Batch == SubSeq(rec.pending, 1, IF Filled(rec) THEN BatchSize ELSE Len(rec.pending))

Send == LET batch == Batch
        IN  /\ flushes # <<>> /\ rec.pending # <<>> /\ calls["flush"] = None
            /\ calls' = [calls EXCEPT !["flush"] =
                            [op |-> "append", at |-> "sent", trace |-> rec.trace,
                             first |-> Head(batch), last |-> batch[Len(batch)],
                             completed |-> Final(batch)]]
            /\ UNCHANGED <<tracker, rec, flushes, supervisor, late, faults>>

Flushed == /\ flushes # <<>> /\ rec.pending = <<>> /\ calls["flush"] = None
           /\ flushes' = Tail(flushes)
           /\ UNCHANGED <<tracker, rec, supervisor, calls, late, faults>>

(* Fault: a flush that fails tries again.                                  *)
BrokenOff(fs) == fs

(* A flush that fails ends, and leaves its events to the next one.         *)
Broken(fs) == Tail(fs)

Acknowledged ==
    LET f == calls["flush"]
    IN  /\ f # None /\ f.at # "sent"
        /\ IF f.at = "done"
           THEN /\ rec' = [rec EXCEPT !.pending = SubSeq(@, f.last - f.first + 2, Len(@))]
                /\ UNCHANGED flushes
           ELSE flushes' = Broken(flushes) /\ UNCHANGED rec
        /\ calls' = [calls EXCEPT !["flush"] = None]
        /\ UNCHANGED <<tracker, supervisor, late, faults>>

-----------------------------------------------------------------------------
(***************************************************************************)
(* The assignment.                                                         *)
(***************************************************************************)

(* The first event is flushed before anything else.                        *)
Start == /\ pc = "off" /\ run.status = "running" /\ rec.trace < MaxTraces
         /\ rec' = [Noted(Recorder(rec.trace + 1)) EXCEPT !.timer = FALSE]
         /\ flushes' = IF Filled(rec') THEN <<FALSE, FALSE>> ELSE <<FALSE>>
         /\ pc' = "starting" /\ todo' = {} /\ why' = None
         /\ UNCHANGED <<tracker, calls, late, faults>>

Started == /\ pc = "starting" /\ flushes = <<>> /\ pc' = "working"
           /\ UNCHANGED <<tracker, rec, flushes, todo, why, calls, late, faults>>

(* Commands, observations and decisions leave events.                      *)
Work == /\ pc = "working" /\ rec.next <= MaxEvents /\ Record
        /\ UNCHANGED <<tracker, supervisor, calls, late, faults>>

Question == /\ pc = "working" /\ run.status = "running" /\ rec.next <= MaxEvents
            /\ pc' = "capture" /\ todo' = Kinds /\ why' = "question"
            /\ UNCHANGED <<tracker, rec, flushes, calls, late, faults>>

(* The end is observed, or brought about, and evidence is captured of it.  *)
WindUp(d) == /\ pc = "working"
             /\ d \in Ends => (d = "callback") = (run.status = "completed")
             /\ run' = IF d \in Ends THEN [run EXCEPT !.status = "completed"] ELSE run
             /\ Record
             /\ pc' = "capture" /\ todo' = Kinds /\ why' = d
             /\ UNCHANGED <<chunks, orphans, evidence, calls, late, faults>>

Upload(k) == /\ pc = "capture" /\ k \in todo /\ calls["main"] = None
             /\ \E x \in Contents :
                  calls' = [calls EXCEPT !["main"] = [op |-> "upload", at |-> "sent", of |->
                               [kind |-> k, key |-> why, content |-> x]]]
             /\ UNCHANGED <<tracker, rec, flushes, supervisor, late, faults>>

(* There is no pane, no session file, or nothing in it.                    *)
Unavailable(k) == /\ pc = "capture" /\ k \in todo /\ calls["main"] = None
                  /\ todo' = todo \ {k} /\ Record
                  /\ UNCHANGED <<tracker, pc, why, calls, late, faults>>

(* Stored or not, the outcome is an event, and the rest is still tried.    *)
Uploaded == LET f == calls["main"]
            IN  /\ f # None /\ f.op = "upload" /\ f.at # "sent"
                /\ todo' = todo \ {f.of.kind} /\ Record
                /\ calls' = [calls EXCEPT !["main"] = None]
                /\ UNCHANGED <<tracker, pc, why, late, faults>>

Captured == /\ pc = "capture" /\ todo = {}
            /\ \/ why = "question" /\ pc' = "working" /\ UNCHANGED calls
               \/ /\ why \notin Manifested \cup {"question"}
                  /\ pc' = "close" /\ UNCHANGED calls
               \/ /\ why \in Manifested /\ pc' = "finalize"
                  /\ calls' = [calls EXCEPT !["main"] = [op |-> "finalize", at |-> "sent"]]
            /\ why' = None
            /\ UNCHANGED <<tracker, rec, flushes, todo, late, faults>>

Finalized == /\ pc = "finalize" /\ calls["main"].at # "sent"
             /\ pc' = "close" /\ calls' = [calls EXCEPT !["main"] = None]
             /\ UNCHANGED <<tracker, rec, flushes, todo, why, late, faults>>

(* Any other failure winds up without evidence.                            *)
Fail == /\ pc = "working" /\ Record /\ pc' = "close"
        /\ UNCHANGED <<tracker, todo, why, calls, late, faults>>

(* The last event, and the flush that the assignment waits for.            *)
Close == /\ pc = "close"
         /\ rec' = [Noted(rec) EXCEPT !.closed = TRUE, !.timer = FALSE]
         /\ flushes' = (IF Filled(rec') THEN Append(flushes, FALSE) ELSE flushes) \o <<TRUE>>
         /\ pc' = "closing"
         /\ UNCHANGED <<tracker, todo, why, calls, late, faults>>

Closed == /\ pc = "closing" /\ flushes = <<>> /\ pc' = "off"
          /\ UNCHANGED <<tracker, rec, flushes, todo, why, calls, late, faults>>

-----------------------------------------------------------------------------
(***************************************************************************)
(* The tracker.  Result is what a call is answered; a refused call changes *)
(* nothing.                                                                *)
(***************************************************************************)

Of(t) == {c \in chunks : c.trace = t}

(* The trace goes on after the batch that begins last; of several, after   *)
(* the one listed last.                                                    *)
Latest(t) == {c \in Of(t) : \A d \in Of(t) : d.first <= c.first}
Expected(t) == IF Of(t) = {} THEN 1
               ELSE 1 + (CHOOSE c \in Latest(t) : \A d \in Latest(t) : d.place <= c.place).last
Stored == Cardinality(chunks) + Cardinality(evidence) + (IF run.manifest = None THEN 0 ELSE 1)
Full == Stored >= Capacity

(* Fault: a batch that begins like a stored one is taken for it.           *)
RepeatedFirst(f) == \E c \in Of(f.trace) : c.first = f.first

(* A batch already stored, with the same bounds and bytes.                 *)
Repeated(f) == \E c \in Of(f.trace) : c.first = f.first /\ c.last = f.last

(* Fault: a batch may begin anywhere before the end.                       *)
FollowsLoosely(f) == f.first <= Expected(f.trace)

(* The trace may only be continued where it ends.                          *)
Follows(f) == f.first = Expected(f.trace)

Appended(f) ==
    IF Repeated(f) THEN "done"
    ELSE IF ~Follows(f) THEN "conflict"
    ELSE IF Full THEN "failed" ELSE "stored"

(* The same evidence twice is stored once.                                 *)
Attach(f) == IF f.of \in evidence THEN "done" ELSE IF Full THEN "failed" ELSE "stored"

(* A run in progress has no manifest, and none is written twice.           *)
Manifest == IF run.status = "running" THEN "failed"
            ELSE IF run.manifest # None THEN "done" ELSE IF Full THEN "failed" ELSE "stored"

Result(f) == CASE f.op = "append" -> Appended(f)
               [] f.op = "upload" -> Attach(f)
               [] f.op = "finalize" -> Manifest

Listed(f, recovered) ==
    chunks \cup {[trace |-> f.trace, first |-> f.first, last |-> f.last,
                  completed |-> f.completed, recovered |-> recovered,
                  place |-> Cardinality(chunks) + 1]}
StoreChunk(f) == chunks' = IF f.op = "append" /\ Result(f) = "stored" THEN Listed(f, FALSE)
                           ELSE chunks
StoreEvidence(f) ==
    evidence' = IF f.op = "upload" /\ Result(f) = "stored" THEN evidence \cup {f.of} ELSE evidence

(* The manifest lists what is stored of the run.                           *)
StoreManifest(f) ==
    run' = IF f.op = "finalize" /\ Result(f) = "stored" THEN [run EXCEPT !.manifest = evidence]
           ELSE run

Effect(f) == StoreChunk(f) /\ StoreEvidence(f) /\ StoreManifest(f) /\ UNCHANGED orphans

Serve(c) == LET f == calls[c]
            IN  /\ f # None /\ f.at = "sent" /\ Effect(f)
                /\ calls' = [calls EXCEPT ![c].at = IF Result(f) = "stored" THEN "done"
                                                    ELSE Result(f)]
                /\ UNCHANGED <<rec, flushes, supervisor, late, faults>>

(* A call the supervisor no longer waits for.                              *)
ServeLate(f) == /\ f \in late /\ Effect(f) /\ late' = late \ {f}
                /\ UNCHANGED <<rec, flushes, supervisor, calls, faults>>

(* Maintenance reattaches a record older than the grace period, whatever   *)
(* has been stored since; in a full ticket it stays where it is.           *)
Reattach(o) == /\ ~Full /\ chunks' = Listed(o, TRUE) /\ orphans' = orphans \ {o}
               /\ UNCHANGED <<run, evidence, rec, flushes, supervisor, calls, late, faults>>

(* The agent's callback ends the run, whether the supervisor is there or   *)
(* not.                                                                    *)
Callback == /\ run.status = "running" /\ rec.trace > 0
            /\ run' = [run EXCEPT !.status = "completed"]
            /\ UNCHANGED <<chunks, orphans, evidence, rec, flushes, supervisor, calls, late, faults>>

-----------------------------------------------------------------------------
(***************************************************************************)
(* Faults.                                                                 *)
(***************************************************************************)

(* A call is given up before or after the tracker has served it.           *)
GiveUp(c) == /\ faults < MaxFaults /\ faults' = faults + 1
             /\ calls[c] # None /\ calls[c].at \in {"sent", "done"}
             /\ late' = IF calls[c].at = "sent" THEN late \cup {calls[c]} ELSE late
             /\ calls' = [calls EXCEPT ![c].at = "failed"]
             /\ UNCHANGED <<tracker, rec, flushes, supervisor>>

Crash == /\ faults < MaxFaults /\ faults' = faults + 1 /\ pc # "off"
         /\ late' = late \cup {f \in {calls[c] : c \in Callers} : f # None /\ f.at = "sent"}
         /\ calls' = [c \in Callers |-> None]
         /\ rec' = Recorder(rec.trace) /\ flushes' = <<>>
         /\ pc' = "off" /\ todo' = {} /\ why' = None
         /\ UNCHANGED tracker

(* The tracker dies after it has written the record of a batch and before  *)
(* it has written the ticket; with it all calls that it had not answered.  *)
Asked == {f \in late \cup {calls[c] : c \in Callers} : f # None /\ f.at = "sent"}
TrackerCrash(f) ==
    /\ faults < MaxFaults /\ faults' = faults + 1
    /\ f.op = "append" /\ Result(f) = "stored"
    /\ orphans' = orphans \cup {[trace |-> f.trace, first |-> f.first, last |-> f.last,
                                 completed |-> f.completed, crash |-> faults + 1]}
    /\ calls' = [c \in Callers |-> IF calls[c] \in Asked THEN [calls[c] EXCEPT !.at = "failed"]
                                   ELSE calls[c]]
    /\ late' = {}
    /\ UNCHANGED <<run, chunks, evidence, rec, flushes, supervisor>>

Recording == Send \/ Flushed \/ Acknowledged
Assignment == \/ \E k \in Kinds : Upload(k) \/ Unavailable(k)
              \/ Started \/ Uploaded \/ Captured \/ Finalized \/ Close \/ Closed

Next == \/ Start \/ Work \/ Question \/ Fail \/ Callback \/ Timer
        \/ \E d \in Dispositions \ {"question"} : WindUp(d)
        \/ Recording \/ Assignment
        \/ \E c \in Callers : Serve(c) \/ GiveUp(c)
        \/ \E f \in late : ServeLate(f)
        \/ \E o \in orphans : Reattach(o)
        \/ Crash \/ \E f \in Asked : TrackerCrash(f)

(* The tracker answers, and the supervisor goes on with what it is told.   *)
Spec == /\ Init /\ [][Next]_vars
        /\ WF_vars(Recording) /\ WF_vars(Assignment) /\ \A c \in Callers : WF_vars(Serve(c))

-----------------------------------------------------------------------------
(***************************************************************************)
(* Properties.                                                             *)
(***************************************************************************)

TypeOK == /\ run.status \in {"running", "completed"}
          /\ run.manifest = None \/ run.manifest \subseteq Evidence
          /\ chunks \subseteq Chunk /\ orphans \subseteq Orphan /\ evidence \subseteq Evidence
          /\ rec.pending \in Seq(Sequence) /\ Stored <= Capacity
          /\ flushes \in Seq(BOOLEAN)
          /\ pc \in {"off", "starting", "working", "capture", "finalize", "close", "closing"}
          /\ todo \subseteq Kinds

(* Whatever calls are lost, repeated, served late or cut short, each batch *)
(* of a trace begins with its first event or right after another one, and  *)
(* an event the recorder no longer holds is in one of them.  No event is   *)
(* stored twice, but for batches that maintenance reattached: such a one   *)
(* may repeat a batch, or its beginning, and never cuts into one.          *)
TraceWhole ==
    /\ TypeOK
    /\ \A c \in chunks :
         /\ c.first = 1 \/ \E d \in Of(c.trace) : d.last = c.first - 1
         /\ \A d \in Of(c.trace) : \/ c = d \/ c.last < d.first \/ d.last < c.first
                                   \/ c.first = d.first /\ (c.recovered \/ d.recovered)
    /\ \A e \in 1..(rec.next - 1) :
         \/ \E i \in 1..Len(rec.pending) : rec.pending[i] = e
         \/ \E c \in Of(rec.trace) : c.first <= e /\ e <= c.last

(* A trace is marked complete exactly when its closing event is stored,    *)
(* whichever flush happened to carry it.                                   *)
CompleteMarked ==
    \A c \in chunks :
        /\ c.completed => \A d \in Of(c.trace) : d.last <= c.last
        /\ c.trace = rec.trace /\ rec.trace # 0 /\ rec.next > 1
             => (c.completed <=> rec.closed /\ c.last = rec.next - 1)

(* A trace the tracker refuses, or cannot be reached with, does not keep   *)
(* the supervisor's slot; and without a fault the whole trace has arrived  *)
(* when the slot is free, unless the ticket is full.                       *)
SlotFreed == pc = "closing" ~> pc = "off" /\ (rec.pending = <<>> \/ faults > 0 \/ Full)

(* v3.md:170: "Exact batch retries are idempotent": no event is stored     *)
(* twice.                                                                  *)
StoredOnce == \A c, d \in chunks :
    c.trace = d.trace /\ c # d => c.last < d.first \/ d.last < c.first

(* v3.md:170, the same: the recorder, the only writer of its trace, is     *)
(* never told that it conflicts with itself.                               *)
RetriesAccepted == calls["flush"] = None \/ calls["flush"].at # "conflict"
=============================================================================
