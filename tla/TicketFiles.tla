---------------------------- MODULE TicketFiles ----------------------------
(***************************************************************************)
(* The files of one ticket: its Markdown file, which the tracker and       *)
(* people's editors both write, the run ledger the file refers to, and the *)
(* artifacts it references: records and content blobs, shared by digest.   *)
(*                                                                         *)
(* The store runs one operation at a time: "op".  An operation works on    *)
(* the copy in the index, writes the ledger of the next revision, compares *)
(* the file, renames over it, prunes the older ledgers and reads the file  *)
(* again; each is a step, the tracker may die between any two, and an      *)
(* editor may save between any two.  Two texts are equal when all they     *)
(* say here is.  The artifact store has a queue of its own; uploads and    *)
(* maintenance passes run beside the ticket's queue and wait for both.     *)
(*                                                                         *)
(* Time is the age of a record or blob: young, past the orphan grace, past *)
(* the retention (the longer of the two, as collect takes it).  An upload  *)
(* or a pass takes far less than an hour: nothing ages during one.         *)
(* Quotas, names, types and the contents of events are left out.           *)
(***************************************************************************)
EXTENDS Integers, FiniteSets

CONSTANTS
    Attachments, Uploads,   \* artifacts an operator attaches, a lease uploads
    Blobs, BlobOf(_),       \* contents, and the content of an artifact
    MaxEdits,               \* bound: changes people save to the file
    Keepers, Timer,         \* maintenance passes that may overlap: the timer's, others by hand
    MaxCrashes,             \* bound: crashes
    NoArtifact

Artifacts == Attachments \cup Uploads
Edits == 1..MaxEdits

ASSUME BlobAssumption == \A a \in Artifacts : BlobOf(a) \in Blobs
ASSUME BoundAssumption == MaxCrashes \in Nat /\ MaxEdits \in Nat
ASSUME TimerAssumption == Timer \in Keepers
ASSUME NoArtifactAssumption == NoArtifact \notin Artifacts

VARIABLES
    file,     \* the ticket's Markdown file
    ledgers,  \* the ledger files of the ticket, by revision
    index,    \* the store's copy: the text, and whether it could be read
    known,    \* the text whose digest the store remembers
    op,       \* the operation of the ticket's queue
    records, blobs,   \* the age of each, or Absent
    upload,   \* the upload of a lease
    keeper,   \* maintenance passes
    up,       \* the tracker is running
    log       \* history: see Log

vars == <<file, ledgers, index, known, op, records, blobs, upload, keeper, up, log>>
shelf == <<records, blobs>>
others == <<upload, keeper, up>>

Absent == -1
Ages == {Absent, 0, 1, 2}

Text == [rev : Nat, stamp : Nat,    \* the revision and written_at of its ledger
         arts : SUBSET Artifacts, edits : SUBSET Edits]

Op == [kind : {"none", "attach", "remove", "refer", "recover", "scan"},
       at : {"record", "ledger", "expect", "check", "rename", "prune", "load", "delete"},
       art : Artifacts \cup {NoArtifact}, read : Text, base : Text, next : Text]

Pass == [at : {"idle", "recover", "collect", "report", "dead"}, todo : SUBSET Artifacts,
         refs : SUBSET Artifacts, blind : BOOLEAN]

(* What happened: artifacts made, those acknowledged to their author and   *)
(* not removed since, changes saved, those saved since a command that has  *)
(* compared the file did so; crashes.                                      *)
Log == [born : SUBSET Artifacts, acked : SUBSET Artifacts, saved : 0..MaxEdits,
        unseen : SUBSET Edits, crashes : 0..MaxCrashes]

First == [rev |-> 1, stamp |-> 1, arts |-> {}, edits |-> {}]
NoOp == [kind |-> "none", at |-> "ledger", art |-> NoArtifact,
         read |-> First, base |-> First, next |-> First]
Resting == [at |-> "idle", todo |-> {}, refs |-> {}, blind |-> FALSE]
Dead == [Resting EXCEPT !.at = "dead"]
NoUpload == [at |-> "idle", art |-> NoArtifact]

Init == /\ file = First /\ ledgers = {[rev |-> 1, stamp |-> 1]}
        /\ index = [text |-> First, valid |-> TRUE] /\ known = First
        /\ op = NoOp
        /\ records = [a \in Artifacts |-> Absent] /\ blobs = [b \in Blobs |-> Absent]
        /\ upload = NoUpload /\ keeper = [k \in Keepers |-> Resting]
        /\ up = TRUE
        /\ log = [born |-> {}, acked |-> {}, saved |-> 0, unseen |-> {},
                  crashes |-> 0]

LedgerOf(t) == [rev |-> t.rev, stamp |-> t.stamp]
Readable(t) == LedgerOf(t) \in ledgers
Copied(t) == [text |-> t, valid |-> Readable(t)]
Free == up /\ op.kind = "none"
ReferencedOrStored == {a \in Artifacts : records[a] # Absent}
Referenced == IF index.valid THEN index.text.arts ELSE {}
Stored(a) == records[a] # Absent /\ blobs[BlobOf(a)] # Absent

-----------------------------------------------------------------------------
(***************************************************************************)
(* The artifact store: blob, then record; neither while another put or a   *)
(* collection has the store.                                               *)
(***************************************************************************)

Putting == op.at = "record" \/ upload.at = "record"

PutBlob(a) == /\ ~Putting
              /\ blobs' = [blobs EXCEPT ![BlobOf(a)] = IF @ = Absent THEN 0 ELSE @]
PutRecord(a) == records' = [records EXCEPT ![a] = 0]

-----------------------------------------------------------------------------
(***************************************************************************)
(* Operations of the ticket's queue.  Each builds its next text from the   *)
(* index; a ticket whose copy could not be read refuses them.  Attaching   *)
(* and removing stand for every command of the ticket (TicketLease).       *)
(***************************************************************************)

Begin(kind, at, a, arts) ==
    /\ Free /\ index.valid
    /\ op' = [kind |-> kind, at |-> at, art |-> a, read |-> index.text, base |-> index.text,
              next |-> [index.text EXCEPT !.rev = @ + 1, !.arts = arts]]

Attach(a) == /\ a \notin log.born
             /\ Begin("attach", "record", a, index.text.arts \cup {a}) /\ PutBlob(a)
             /\ log' = [log EXCEPT !.born = @ \cup {a}]
             /\ UNCHANGED <<file, ledgers, index, known, records, others>>

Remove(a) == /\ a \in index.text.arts
             /\ Begin("remove", "ledger", a, index.text.arts \ {a})
             /\ log' = [log EXCEPT !.acked = @ \ {a}]
             /\ UNCHANGED <<file, ledgers, index, known, shelf, others>>

(* The artifact is stored before its reference, and not in the queue.      *)
Upload(a) == /\ up /\ upload = NoUpload /\ index.valid /\ a \notin log.born
             /\ upload' = [at |-> "record", art |-> a] /\ PutBlob(a)
             /\ log' = [log EXCEPT !.born = @ \cup {a}]
             /\ UNCHANGED <<file, ledgers, index, known, op, records, keeper, up>>

Refer == /\ upload.at = "queued"
         /\ Begin("refer", "ledger", upload.art, index.text.arts \cup {upload.art})
         /\ UNCHANGED <<file, ledgers, index, known, shelf, others, log>>

(* The lease has ended, or the ticket cannot be read: no reference.        *)
ReferFails == /\ Free /\ upload.at = "queued"
              /\ records' = [records EXCEPT ![upload.art] = Absent] /\ upload' = NoUpload
              /\ UNCHANGED <<file, ledgers, index, known, op, blobs, keeper, up, log>>

-----------------------------------------------------------------------------
AttachRecord == /\ up /\ op.at = "record"
                /\ PutRecord(op.art) /\ op' = [op EXCEPT !.at = "ledger"]
                /\ UNCHANGED <<file, ledgers, index, known, blobs, others, log>>

UploadRecord == /\ up /\ upload.at = "record"
                /\ PutRecord(upload.art) /\ upload' = [upload EXCEPT !.at = "queued"]
                /\ UNCHANGED <<file, ledgers, index, known, op, blobs, keeper, up, log>>

-----------------------------------------------------------------------------
(***************************************************************************)
(* The steps of an operation.                                              *)
(***************************************************************************)

(* The rest of a command that failed: an attachment or upload deletes the  *)
(* record it has just stored; a scan keeps the ticket as unreadable.       *)
Fails == /\ op' = IF op.kind \in {"attach", "refer"} THEN [op EXCEPT !.at = "delete"] ELSE NoOp
         /\ IF op.kind = "scan"
            THEN index' = [text |-> op.read, valid |-> FALSE] /\ known' = op.read
            ELSE UNCHANGED <<index, known>>

(* The time of writing tells a ledger from every other of its revision     *)
(* that a text may still refer to.                                         *)
FreshStamp(rev) ==
    LET texts == {file, known, index.text, op.read, op.base, op.next}
        used == {t.stamp : t \in {u \in texts : LedgerOf(u).rev = rev}}
                \cup {l.stamp : l \in {m \in ledgers : m.rev = rev}}
    IN CHOOSE n \in 1..9 : n \notin used /\ \A m \in 1..n - 1 : m \in used

ExternalizeOver ==
    /\ up /\ op.kind # "none" /\ op.at = "ledger"
    /\ ledgers' = {[rev |-> op.next.rev, stamp |-> FreshStamp(op.next.rev)]}
    /\ op' = [op EXCEPT !.next.stamp = FreshStamp(op.next.rev), !.at = IF op.kind = "scan" THEN "expect" ELSE "check"]
    /\ UNCHANGED <<file, index, known, shelf, others, log>>

Externalize ==
    /\ up /\ op.kind # "none" /\ op.at = "ledger"
    /\ LET stamp == FreshStamp(op.next.rev) IN
       /\ ledgers' = {l \in ledgers : l.rev # op.next.rev} \cup {[rev |-> op.next.rev, stamp |-> stamp]}
       /\ op' = [op EXCEPT !.next.stamp = stamp, !.at = IF op.kind = "scan" THEN "expect" ELSE "check"]
    /\ UNCHANGED <<file, index, known, shelf, others, log>>

(* A scan replaces whatever it finds now, not the text it has read.        *)
Expect == /\ up /\ op.at = "expect"
          /\ op' = [op EXCEPT !.base = file, !.at = "check"]
          /\ UNCHANGED <<file, ledgers, index, known, shelf, others, log>>

CheckTrusting ==
    /\ up /\ op.at = "check" /\ op' = [op EXCEPT !.at = "rename"]
    /\ UNCHANGED <<file, ledgers, index, known, shelf, others, log>>

Check == /\ up /\ op.at = "check"
         /\ IF file = op.base
            THEN op' = [op EXCEPT !.at = "rename"] /\ UNCHANGED <<index, known>>
            ELSE Fails
         /\ UNCHANGED <<file, ledgers, shelf, others, log>>

Rename == /\ up /\ op.at = "rename"
          /\ file' = op.next /\ op' = [op EXCEPT !.at = "prune"]
          /\ log' = [log EXCEPT !.unseen = {}]
          /\ UNCHANGED <<ledgers, index, known, shelf, others>>

Prune == /\ up /\ op.at = "prune"
         /\ ledgers' = {l \in ledgers : l.rev = op.next.rev}
         /\ known' = op.next /\ op' = [op EXCEPT !.at = "load"]
         /\ UNCHANGED <<file, index, shelf, others, log>>

Load == /\ up /\ op.at = "load"
        /\ IF Readable(file)
           THEN /\ index' = Copied(file) /\ UNCHANGED known
                /\ op' = IF op.kind = "remove" THEN [op EXCEPT !.at = "delete"] ELSE NoOp
                /\ log' = IF op.kind \in {"attach", "refer"}
                          THEN [log EXCEPT !.acked = @ \cup {op.art}] ELSE log
                /\ upload' = IF op.kind = "refer" THEN NoUpload ELSE upload
           ELSE Fails /\ UNCHANGED <<log, upload>>
        /\ UNCHANGED <<file, ledgers, shelf, keeper, up>>

Delete == /\ up /\ op.at = "delete"
          /\ records' = [records EXCEPT ![op.art] = Absent] /\ op' = NoOp
          /\ upload' = IF op.kind = "refer" THEN NoUpload ELSE upload
          /\ UNCHANGED <<file, ledgers, index, known, blobs, keeper, up, log>>

Steps == Externalize \/ Expect \/ Check \/ Rename \/ Prune \/ Load \/ Delete
         \/ AttachRecord

(* The watcher has seen a change.  Only a text that differs from the one   *)
(* the store wrote, and that can be read, is an external edit.             *)
Scan == /\ Free /\ (file # known \/ file # index.text)
        /\ IF file # known /\ Readable(file)
           THEN /\ op' = [NoOp EXCEPT !.kind = "scan", !.read = file, !.base = file,
                                      !.next = [file EXCEPT !.rev = @ + 1]]
                /\ UNCHANGED <<index, known>>
           ELSE index' = Copied(file) /\ known' = file /\ UNCHANGED op
        /\ UNCHANGED <<file, ledgers, shelf, others, log>>

-----------------------------------------------------------------------------
(***************************************************************************)
(* Maintenance: recover old orphan records, then collect what is past      *)
(* retention and not referenced, then report.  The timer is set again when *)
(* its pass has ended well: it is dead after one that failed.              *)
(***************************************************************************)

Turn(k, s) == keeper' = [keeper EXCEPT ![k] = s]

Diagnose(k) == /\ Free /\ keeper[k].at = "idle"
               /\ \E a \in Artifacts : records[a] > 0 \/ blobs[BlobOf(a)] = 2
               /\ Turn(k, [keeper[k] EXCEPT !.at = "recover",
                        !.todo = {a \in Artifacts \ Referenced : records[a] > 0}])
               /\ UNCHANGED <<file, ledgers, index, known, op, shelf, upload, up, log>>

Recover(k, a) ==
    /\ a \in keeper[k].todo /\ Free
    /\ IF Stored(a) /\ index.valid
       THEN Begin("recover", "ledger", a, index.text.arts \cup {a})
       ELSE UNCHANGED op
    /\ Turn(k, [keeper[k] EXCEPT !.todo = @ \ {a}])
    /\ UNCHANGED <<file, ledgers, index, known, shelf, upload, up, log>>

List(k) == /\ keeper[k].at = "recover" /\ keeper[k].todo = {} /\ Free
           /\ Turn(k, [keeper[k] EXCEPT !.at = "collect", !.refs = Referenced,
                                        !.blind = ~index.valid])
           /\ UNCHANGED <<file, ledgers, index, known, op, shelf, upload, up, log>>

(* Faults, each of the definition that follows it.                         *)
ExpiredYoung(refs) == {a \in Artifacts \ refs : records[a] # Absent}
Expired(refs) == {a \in Artifacts \ refs : records[a] = 2}
Kept(refs) == {a \in Artifacts : records[a] # Absent} \ Expired(refs)

Collect(k) ==
    /\ up /\ keeper[k].at = "collect" /\ ~Putting
    /\ records' = [a \in Artifacts |-> IF a \in Expired(keeper[k].refs) THEN Absent ELSE records[a]]
    /\ blobs' = [b \in Blobs |-> IF blobs[b] = 2 /\ ~\E a \in Kept(keeper[k].refs) : BlobOf(a) = b
                                 THEN Absent ELSE blobs[b]]
    /\ Turn(k, [Resting EXCEPT !.at = "report"])
    /\ UNCHANGED <<file, ledgers, index, known, op, upload, up, log>>

Report(k) == /\ up /\ keeper[k].at = "report" /\ Turn(k, Resting)
             /\ UNCHANGED <<file, ledgers, index, known, op, shelf, upload, up, log>>

(* A diagnosis, the first of a pass or the one of its report, asks for the *)
(* size of a file it has listed and that is gone: the temporary file of a  *)
(* blob that has just been put, or a blob another pass has removed.        *)
JustPut(a) == a # NoArtifact /\ blobs[BlobOf(a)] = 0
Vanishes(k) == \/ op.at = "record" /\ JustPut(op.art)
               \/ upload.at = "record" /\ JustPut(upload.art)
               \/ \E j \in Keepers \ {k} : keeper[j].at = "report"

PassFails(k) == /\ up /\ keeper[k].at \in {"idle", "report"} /\ Vanishes(k)
                /\ Turn(k, IF k = Timer THEN Dead ELSE Resting)
                /\ UNCHANGED <<file, ledgers, index, known, op, shelf, upload, up, log>>

Maintain(k) == Diagnose(k) \/ (\E a \in Artifacts : Recover(k, a)) \/ List(k) \/ Collect(k)
               \/ Report(k)

-----------------------------------------------------------------------------
(***************************************************************************)
(* The environment.                                                        *)
(***************************************************************************)

Older(x) == IF x \in {0, 1} THEN x + 1 ELSE x
Age == /\ up => op.kind = "none" /\ upload = NoUpload /\ \A k \in Keepers : keeper[k].at \in {"idle", "dead"}
       /\ records' = [a \in Artifacts |-> Older(records[a])]
       /\ blobs' = [b \in Blobs |-> Older(blobs[b])] /\ <<records, blobs>>' # <<records, blobs>>
       /\ UNCHANGED <<file, ledgers, index, known, op, others, log>>

(* Somebody saves a change to the file as it is.                           *)
Save == /\ log.saved < MaxEdits
        /\ LET e == log.saved + 1 IN
           /\ file' = [file EXCEPT !.edits = @ \cup {e}]
           /\ log' = [log EXCEPT !.saved = e, !.unseen = IF op.at = "rename" THEN @ \cup {e} ELSE @]
        /\ UNCHANGED <<ledgers, index, known, op, shelf, others>>

Crash == /\ up /\ log.crashes < MaxCrashes
         /\ up' = FALSE /\ log' = [log EXCEPT !.crashes = @ + 1, !.unseen = {}]
         /\ op' = NoOp /\ upload' = NoUpload /\ keeper' = [k \in Keepers |-> Resting]
         /\ UNCHANGED <<file, ledgers, index, known, shelf>>

(* The first scan takes the file as it is.                                 *)
Restart == /\ ~up /\ up' = TRUE
           /\ index' = Copied(file) /\ known' = file
           /\ UNCHANGED <<file, ledgers, op, shelf, upload, keeper, log>>

Uploading == UploadRecord \/ Refer \/ ReferFails

Next == \/ Steps \/ Scan \/ Uploading
        \/ \E a \in Attachments : Attach(a) \/ Remove(a)
        \/ \E a \in Uploads : Upload(a)
        \/ \E k \in Keepers : Maintain(k) \/ PassFails(k)
        \/ Save \/ Age \/ Crash \/ Restart

(* The tracker's queues, watcher and timer as long as it is set, passes    *)
(* that end once begun, a tracker that is started again, and time that     *)
(* passes.  Nobody must run a pass by hand.                                *)
Spec == /\ Init /\ [][Next]_vars
        /\ WF_vars(Steps) /\ SF_vars(Scan) /\ WF_vars(Uploading) /\ WF_vars(Restart)
        /\ \A k \in Keepers : SF_vars(Maintain(k) /\ (k = Timer \/ keeper[k].at # "idle"))
        /\ SF_vars(Age)

-----------------------------------------------------------------------------
(***************************************************************************)
(* Properties.                                                             *)
(***************************************************************************)

TypeOK == /\ file \in Text
          /\ ledgers \subseteq [rev : Nat, stamp : Nat] /\ IsFiniteSet(ledgers)
          /\ \A l, m \in ledgers : l.rev = m.rev => l = m
          /\ index \in [text : Text, valid : BOOLEAN] /\ known \in Text
          /\ op \in Op
          /\ records \in [Artifacts -> Ages] /\ blobs \in [Blobs -> Ages]
          /\ upload \in [at : {"idle", "record", "queued"}, art : Artifacts \cup {NoArtifact}]
          /\ keeper \in [Keepers -> Pass] /\ up \in BOOLEAN /\ log \in Log

(* The tracker never leaves, at any step, a file whose run ledger is       *)
(* missing or another's: a crash anywhere can be restarted from; and no    *)
(* revision has two ledgers that could be taken for each other.            *)
LedgerReadable == TypeOK /\ Readable(file)

(* What is stored for an acknowledged artifact goes only when a pass       *)
(* listed the references while the tracker could not read the ticket.      *)
EvidenceKept == [][\A a \in log.acked : Stored(a) /\ ~Stored(a)'
                     => \E k \in Keepers : keeper[k].blind /\ keeper[k].at = "collect"]_vars

(* v3.md:168: "it never silently deletes referenced evidence".             *)
EvidenceNeverDeleted == [][\A a \in log.acked : Stored(a) => Stored(a)']_vars

(* A command overwrites a change people saved only if it was saved after   *)
(* the command last compared the file.                                     *)
EditsKept == [][op.at = "rename" /\ op.kind # "scan" /\ file' # file
                  => file.edits \ file'.edits \subseteq log.unseen]_vars

(* init.md:848: "A concurrent edit produces a clean retry or 409, never a  *)
(* silent overwrite".                                                      *)
ScanKeepsEdits == [][op.at = "rename" /\ op.kind = "scan" /\ file' # file
                       => file.edits \ file'.edits \subseteq log.unseen]_vars

(* A record no ticket references is recovered or removed in the end,       *)
(* unless the timer has died for good: until the tracker is started again. *)
OrphansSettle == <>[](keeper[Timer].at = "dead") \/ \A a \in Artifacts :
    records[a] # Absent /\ a \notin file.arts ~> records[a] = Absent \/ a \in file.arts

(* v3.md:168: "Automatic maintenance waits out a configurable crash-grace  *)
(* period, reattaches valid orphan records when ownership can be proven,   *)
(* and garbage-collects" the others, as long as the tracker runs.          *)
MaintenanceGoesOn == \A a \in Artifacts :
    records[a] # Absent /\ a \notin file.arts ~> records[a] = Absent \/ a \in file.arts
=============================================================================
