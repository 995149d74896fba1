-------------------------- MODULE TicketFiles_proofs --------------------------
(***************************************************************************)
(* Theorems about TicketFiles, for every set of artifacts, contents and    *)
(* maintenance passes, and every number of changes and crashes.            *)
(***************************************************************************)
EXTENDS TicketFiles, FiniteSetTheorems, TLAPS

(***************************************************************************)
(* The inductive invariant.                                                *)
(***************************************************************************)

Making == {"attach", "refer"}
Unwritten == {"record", "ledger", "expect", "check", "rename"}
Written == {"prune", "load"}

(* The queue is idle, or at a step of its operation; nothing survives the  *)
(* tracker's death.                                                        *)
Queue == /\ op.kind = "none" => op = NoOp
         /\ op.at = "record" => op.kind = "attach"
         /\ op.at = "expect" => op.kind = "scan"
         /\ op.at = "delete" => op.kind \in Making \cup {"remove"}
         /\ op.kind = "refer" => upload.at = "queued" /\ upload.art = op.art
         /\ op.kind \in Making \cup {"remove"} => op.art \in Artifacts
         /\ upload # NoUpload => upload.at # "idle" /\ upload.art \in Artifacts
         /\ ~ up => op = NoOp /\ upload = NoUpload /\ \A k \in Keepers : keeper[k] = Resting

(* The file's ledger is there, and that of the text to come beside it: the *)
(* index is at the file's revision, but between a rename and the load.     *)
Ledgers == /\ Readable(file)
           /\ op.at \in {"expect", "check", "rename"} \cup Written => Readable(op.next)
           /\ op.at \in Written => LedgerOf(file) = LedgerOf(op.next)
           /\ op.kind # "none" /\ op.at \in Unwritten => op.next.rev = file.rev + 1
           /\ op.kind = "scan" /\ op.at \in Unwritten => op.read.rev = file.rev
           /\ up /\ op.at \notin Written => index.text.rev = file.rev

(* A command writes what it has compared.                                  *)
Compared == /\ op.kind \notin {"none", "scan"} => op.next.edits = op.base.edits
            /\ op.kind # "scan" /\ op.at = "rename"
               => file.edits \ op.next.edits \subseteq log.unseen

(* Whatever is acknowledged is in every text; what is being made is new.   *)
Acknowledged ==
    /\ log.acked \subseteq log.born
    /\ log.acked \subseteq file.arts /\ log.acked \subseteq index.text.arts
    /\ op.kind # "none" => log.acked \subseteq op.next.arts
    /\ op.kind = "scan" => log.acked \subseteq op.read.arts
    /\ op.kind \in Making => op.art \in op.next.arts
    /\ op.kind \in Making /\ op.at \in Written => op.art \in file.arts
    /\ op.kind \in Making \cup {"remove"} => op.art \notin log.acked
    /\ op.kind = "attach" => op.art \in log.born
    /\ upload # NoUpload => upload.art \in log.born \ log.acked
    /\ upload # NoUpload /\ op.kind = "attach" => upload.art # op.art

(* Nothing past its retention is being made, and nothing acknowledged is   *)
(* missing from the list of a pass that could read the ticket.             *)
Retained == /\ op.kind \in Making /\ op.at # "record" => records[op.art] # 2
            /\ upload.at = "queued" => records[upload.art] # 2
            /\ \A k \in Keepers : \A a \in log.acked :
                 keeper[k].at = "collect" /\ ~ keeper[k].blind
                   => a \in keeper[k].refs \/ records[a] # 2

IInv == TypeOK /\ Queue /\ Ledgers /\ Compared /\ Acknowledged /\ Retained

-----------------------------------------------------------------------------
(***************************************************************************)
(* There is always a fresh time of writing: a revision has one ledger, and *)
(* six texts may refer to another.                                         *)
(***************************************************************************)

LEMMA OneMore ==
  ASSUME NEW S, NEW n \in Nat, IsFiniteSet(S), Cardinality(S) <= n, NEW x
  PROVE  IsFiniteSet(S \cup {x}) /\ Cardinality(S \cup {x}) <= n + 1
  <1>1. Cardinality(S) \in Nat
    BY FS_CardinalityType
  <1>2. IsFiniteSet(S \cup {x})
        /\ Cardinality(S \cup {x}) \in {Cardinality(S), Cardinality(S) + 1}
    BY FS_AddElement
  <1>3. QED
    BY <1>1, <1>2

LEMMA Pigeonhole ==
  ASSUME NEW a, NEW b, NEW c, NEW d, NEW e, NEW f, NEW g
  PROVE  \E n \in 1..9 : n \notin {a, b, c, d, e, f, g}
  <1> DEFINE T == {a} \cup {b} \cup {c} \cup {d} \cup {e} \cup {f} \cup {g}
  <1>1. IsFiniteSet(T) /\ Cardinality(T) <= 7
    <2>1. IsFiniteSet({a}) /\ Cardinality({a}) <= 1
      BY SMTT(60), FS_Singleton
    <2> DEFINE S2 == {a} \cup {b}
    <2>2. IsFiniteSet(S2) /\ Cardinality(S2) <= 2
      <3>1. 1 \in Nat
        OBVIOUS
      <3>2. IsFiniteSet({a} \cup {b}) /\ Cardinality({a} \cup {b}) <= 1 + 1
        BY <2>1, <3>1, OneMore, Zenon
      <3>3. QED
        BY <3>2
    <2> DEFINE S3 == S2 \cup {c}
    <2> HIDE DEF S2
    <2>3. IsFiniteSet(S3) /\ Cardinality(S3) <= 3
      <3>1. 2 \in Nat
        OBVIOUS
      <3>2. IsFiniteSet(S2 \cup {c}) /\ Cardinality(S2 \cup {c}) <= 2 + 1
        BY <2>2, <3>1, OneMore, Zenon
      <3>3. QED
        BY <3>2
    <2> DEFINE S4 == S3 \cup {d}
    <2> HIDE DEF S3
    <2>4. IsFiniteSet(S4) /\ Cardinality(S4) <= 4
      <3>1. 3 \in Nat
        OBVIOUS
      <3>2. IsFiniteSet(S3 \cup {d}) /\ Cardinality(S3 \cup {d}) <= 3 + 1
        BY <2>3, <3>1, OneMore, Zenon
      <3>3. QED
        BY <3>2
    <2> DEFINE S5 == S4 \cup {e}
    <2> HIDE DEF S4
    <2>5. IsFiniteSet(S5) /\ Cardinality(S5) <= 5
      <3>1. 4 \in Nat
        OBVIOUS
      <3>2. IsFiniteSet(S4 \cup {e}) /\ Cardinality(S4 \cup {e}) <= 4 + 1
        BY <2>4, <3>1, OneMore, Zenon
      <3>3. QED
        BY <3>2
    <2> DEFINE S6 == S5 \cup {f}
    <2> HIDE DEF S5
    <2>6. IsFiniteSet(S6) /\ Cardinality(S6) <= 6
      <3>1. 5 \in Nat
        OBVIOUS
      <3>2. IsFiniteSet(S5 \cup {f}) /\ Cardinality(S5 \cup {f}) <= 5 + 1
        BY <2>5, <3>1, OneMore, Zenon
      <3>3. QED
        BY <3>2
    <2> DEFINE S7 == S6 \cup {g}
    <2> HIDE DEF S6
    <2>7. IsFiniteSet(S7) /\ Cardinality(S7) <= 7
      <3>1. 6 \in Nat
        OBVIOUS
      <3>2. IsFiniteSet(S6 \cup {g}) /\ Cardinality(S6 \cup {g}) <= 6 + 1
        BY <2>6, <3>1, OneMore, Zenon
      <3>3. QED
        BY <3>2
    <2>8. S7 = T
      BY DEF S2, S3, S4, S5, S6
    <2>9. QED
      BY <2>7, <2>8
  <1>2. T = {a, b, c, d, e, f, g}
    OBVIOUS
  <1> HIDE DEF T
  <1>3. Cardinality(1..9) = 9
    <2>1. 1 \in Int /\ 9 \in Int
      OBVIOUS
    <2>2. Cardinality(1..9) = IF 1 > 9 THEN 0 ELSE 9 - 1 + 1
      BY <2>1, FS_Interval, Zenon
    <2>3. QED
      BY <2>2
  <1>4. SUFFICES ASSUME 1..9 \subseteq T PROVE FALSE
    BY <1>2
  <1>5. Cardinality(1..9) <= Cardinality(T)
    BY <1>1, <1>4, FS_Subset
  <1>6. QED
    BY <1>1, <1>3, <1>5, FS_CardinalityType

LEMMA Least ==
  ASSUME NEW U, NEW n \in 1..9, n \notin U
  PROVE  \E l \in 1..9 : l \notin U /\ \A m \in 1..l - 1 : m \in U
  <1>1. CASE 1 \notin U
    BY <1>1
  <1>2. CASE 1 \in U /\ 2 \notin U
    BY <1>2
  <1>3. CASE {1, 2} \subseteq U /\ 3 \notin U
    BY <1>3
  <1>4. CASE {1, 2, 3} \subseteq U /\ 4 \notin U
    BY <1>4
  <1>5. CASE {1, 2, 3, 4} \subseteq U /\ 5 \notin U
    BY <1>5
  <1>6. CASE {1, 2, 3, 4, 5} \subseteq U /\ 6 \notin U
    BY <1>6
  <1>7. CASE {1, 2, 3, 4, 5, 6} \subseteq U /\ 7 \notin U
    BY <1>7
  <1>8. CASE {1, 2, 3, 4, 5, 6, 7} \subseteq U /\ 8 \notin U
    BY <1>8
  <1>9. CASE {1, 2, 3, 4, 5, 6, 7, 8} \subseteq U
    BY <1>9
  <1>10. QED
    BY <1>1, <1>2, <1>3, <1>4, <1>5, <1>6, <1>7, <1>8, <1>9

(* The time of writing is one no text of the revision was written at.      *)
LEMMA FreshStampTyped ==
  ASSUME TypeOK, NEW rev \in Nat
  PROVE  FreshStamp(rev) \in Nat
  <1> DEFINE texts == {file, known, index.text, op.read, op.base, op.next}
             old == {t.stamp : t \in {u \in texts : LedgerOf(u).rev = rev}}
             kept == {l.stamp : l \in {m \in ledgers : m.rev = rev}}
             used == old \cup kept
  <1>1. PICK x : kept \subseteq {x}
    BY DEF TypeOK
  <1>2. old \subseteq {file.stamp, known.stamp, index.text.stamp, op.read.stamp,
                       op.base.stamp, op.next.stamp}
    OBVIOUS
  <1> HIDE DEF old, kept
  <1>3. PICK n \in 1..9 : n \notin used
    <2>1. PICK n \in 1..9 : n \notin {file.stamp, known.stamp, index.text.stamp, op.read.stamp,
                                      op.base.stamp, op.next.stamp, x}
      BY Pigeonhole
    <2>2. QED
      BY <1>1, <1>2, <2>1
  <1> HIDE DEF used
  <1>4. \E l \in 1..9 : l \notin used /\ \A m \in 1..l - 1 : m \in used
    BY <1>3, Least
  <1>5. FreshStamp(rev) = CHOOSE l \in 1..9 : l \notin used /\ \A m \in 1..l - 1 : m \in used
    BY DEF FreshStamp, used, old, kept
  <1>6. FreshStamp(rev) \in 1..9
    BY <1>4, <1>5
  <1>7. QED
    BY <1>6

-----------------------------------------------------------------------------
(***************************************************************************)
(* Types, and how an operation begins and goes on.                         *)
(***************************************************************************)

LEMMA Typed ==
  ASSUME TypeOK
  PROVE  /\ file \in Text /\ index.text \in Text /\ known \in Text /\ op \in Op
         /\ op.read \in Text /\ op.base \in Text /\ op.next \in Text
         /\ index \in [text : Text, valid : BOOLEAN]
         /\ file.rev \in Nat /\ index.text.rev \in Nat /\ op.next.rev \in Nat
         /\ file.arts \subseteq Artifacts /\ index.text.arts \subseteq Artifacts
         /\ log \in Log /\ keeper \in [Keepers -> Pass]
         /\ records \in [Artifacts -> Ages] /\ blobs \in [Blobs -> Ages]
         /\ First \in Text /\ NoOp \in Op /\ NoOp.kind = "none" /\ NoOp.at = "ledger"
         /\ NoUpload.at = "idle" /\ Resting.at = "idle" /\ Resting \in Pass
         /\ NoUpload \in [at : {"idle", "record", "queued"}, art : Artifacts \cup {NoArtifact}]
  <1>1. First \in Text
    BY DEF First, Text
  <1>2. NoOp \in Op /\ NoOp.kind = "none" /\ NoOp.at = "ledger"
    BY <1>1 DEF NoOp, Op
  <1>3. NoUpload.at = "idle" /\ Resting.at = "idle" /\ Resting \in Pass
    BY DEF NoUpload, Resting, Pass
  <1>4. op.read \in Text /\ op.base \in Text /\ op.next \in Text
    BY DEF TypeOK, Op
  <1>5. QED
    BY <1>1, <1>2, <1>3, <1>4 DEF TypeOK, Text, NoUpload

LEMMA Begun ==
  ASSUME IInv, NEW kind \in {"attach", "remove", "refer", "recover"},
         NEW at \in {"record", "ledger"}, NEW a \in Artifacts, NEW arts \in SUBSET Artifacts,
         Begin(kind, at, a, arts)
  PROVE  /\ op' \in Op /\ op'.kind = kind /\ op'.at = at /\ op'.art = a
         /\ op'.next.rev = file.rev + 1 /\ op'.next.arts = arts
         /\ op'.next.edits = op'.base.edits
         /\ up /\ op = NoOp /\ op.at = "ledger" /\ index.valid
  <1>1. op = NoOp /\ op.at = "ledger" /\ up /\ index.valid
    BY Typed DEF Begin, Free, IInv, Queue
  <1>2. PICK t \in Text : t = index.text /\ t.rev = file.rev
    BY <1>1, Typed DEF IInv, Ledgers, Written
  <1> DEFINE next == [t EXCEPT !.rev = @ + 1, !.arts = arts]
  <1>3. next \in Text /\ next.rev = file.rev + 1 /\ next.arts = arts
        /\ next.edits = t.edits
    <2>1. t.rev + 1 \in Nat
      BY <1>2 DEF Text
    <2>2. QED
      BY <1>2, <2>1 DEF Text
  <1>4. op' = [kind |-> kind, at |-> at, art |-> a, read |-> index.text, base |-> index.text,
               next |-> next]
    BY <1>2 DEF Begin
  <1> HIDE DEF next
  <1>5. QED
    BY <1>1, <1>2, <1>3, <1>4 DEF Op

LEMMA WentOn ==
  ASSUME TypeOK,
         NEW at \in {"record", "ledger", "expect", "check", "rename", "prune", "load", "delete"},
         op' = [op EXCEPT !.at = at]
  PROVE  /\ op' \in Op /\ op'.at = at /\ op'.kind = op.kind /\ op'.art = op.art
         /\ op'.read = op.read /\ op'.base = op.base /\ op'.next = op.next
  BY Typed DEF Op

-----------------------------------------------------------------------------
(***************************************************************************)
(* Steps beside the queue of the ticket.                                   *)
(***************************************************************************)

LEMMA AsideKeeps ==
  ASSUME IInv, UNCHANGED <<file, ledgers, index, known, op, up>>,
         records' \in [Artifacts -> Ages], blobs' \in [Blobs -> Ages],
         keeper' \in [Keepers -> Pass],
         upload' \in [at : {"idle", "record", "queued"}, art : Artifacts \cup {NoArtifact}],
         log' \in Log, log'.acked = log.acked, log'.unseen = log.unseen,
         log.born \subseteq log'.born,
         up \/ (upload' = upload /\ keeper' = keeper),
         op.kind = "refer" => upload' = upload,
         upload' # NoUpload => /\ upload'.at # "idle" /\ upload'.art \in Artifacts
                               /\ upload'.art \in log'.born \ log.acked
                               /\ op.kind = "attach" => upload'.art # op.art,
         Retained'
  PROVE  IInv'
  <1>1. TypeOK'
    BY DEF IInv, TypeOK
  <1>2. Queue'
    BY DEF IInv, Queue
  <1>3. Ledgers'
    BY DEF IInv, Ledgers, Readable
  <1>4. Compared'
    BY DEF IInv, Compared
  <1>5. Acknowledged'
    BY DEF IInv, Acknowledged
  <1>6. QED
    BY <1>1, <1>2, <1>3, <1>4, <1>5 DEF IInv

(***************************************************************************)
(* Steps that begin an operation.                                          *)
(***************************************************************************)

(* A pass has the list it had, or none.                                    *)
SameList(k) == keeper'[k].at = "collect"
               => /\ keeper[k].at = "collect"
                  /\ keeper'[k].refs = keeper[k].refs /\ keeper'[k].blind = keeper[k].blind

(* An operation of the queue has begun; the file is as it was.             *)
LEMMA BegunKeeps ==
  ASSUME IInv, NEW kind \in {"attach", "remove", "refer", "recover"},
         NEW at \in {"record", "ledger"}, NEW a \in Artifacts, NEW arts \in SUBSET Artifacts,
         Begin(kind, at, a, arts), at = "record" <=> kind = "attach",
         UNCHANGED <<file, ledgers, index, known, records, upload, up>>,
         blobs' \in [Blobs -> Ages], keeper' \in [Keepers -> Pass], log' \in Log,
         log'.acked \subseteq log.acked \cap arts, log.born \subseteq log'.born,
         kind = "refer" => upload.at = "queued" /\ upload.art = a,
         kind = "attach" => a \in log'.born \ log.born,
         kind \in Making => a \in arts,
         kind = "remove" => a \notin log'.acked,
         \A k \in Keepers : SameList(k)
  PROVE  IInv'
  <1>1. /\ op' \in Op /\ op'.kind = kind /\ op'.at = at /\ op'.art = a
        /\ op'.next.rev = file.rev + 1 /\ op'.next.arts = arts
        /\ op'.next.edits = op'.base.edits
        /\ up /\ op = NoOp /\ op.at = "ledger"
    BY Begun
  <1>2. TypeOK'
    BY <1>1 DEF IInv, TypeOK
  <1>3. Queue'
    BY <1>1 DEF IInv, Queue, Making
  <1>4. Ledgers'
    BY <1>1 DEF IInv, Ledgers, Unwritten, Written, Readable
  <1>5. Compared'
    BY <1>1 DEF IInv, Compared
  <1>6. Acknowledged'
    <2>1. kind \in Making \cup {"remove"} => a \notin log'.acked
      <3>1. kind = "refer" => upload # NoUpload
        BY Typed DEF IInv
      <3>2. QED
        BY <3>1 DEF IInv, Acknowledged, Making
    <2>2. upload # NoUpload => upload.art \in log'.born \ log'.acked
                               /\ (kind = "attach" => upload.art # a)
      BY DEF IInv, Acknowledged
    <2>3. log'.acked \subseteq log'.born /\ log'.acked \subseteq file.arts
          /\ log'.acked \subseteq index.text.arts
      BY DEF IInv, Acknowledged
    <2>4. QED
      BY <1>1, <2>1, <2>2, <2>3 DEF Acknowledged, Making, Written
  <1>7. Retained'
    BY <1>1 DEF IInv, Retained, Making, SameList
  <1>8. QED
    BY <1>2, <1>3, <1>4, <1>5, <1>6, <1>7 DEF IInv

LEMMA SameListStays ==
  ASSUME UNCHANGED keeper
  PROVE  \A k \in Keepers : SameList(k)
  BY DEF SameList

LEMMA BlobsTyped ==
  ASSUME TypeOK, NEW a \in Artifacts, PutBlob(a)
  PROVE  blobs' \in [Blobs -> Ages]
  BY Typed, BlobAssumption DEF PutBlob, Ages

LEMMA AttachKeeps ==
  ASSUME IInv, NEW a \in Attachments, Attach(a)
  PROVE  IInv'
  <1>1. a \in Artifacts /\ TypeOK /\ blobs' \in [Blobs -> Ages]
    BY BlobsTyped DEF Attach, Artifacts, IInv
  <1> DEFINE arts == index.text.arts \cup {a}
  <1>2. arts \in SUBSET Artifacts /\ Begin("attach", "record", a, arts) /\ a \in arts
    BY <1>1, Typed DEF Attach
  <1>3. log' \in Log /\ log'.acked = log.acked /\ log'.born = log.born \cup {a}
    BY <1>1, Typed DEF Attach, Log
  <1>4. log.acked \subseteq arts
    BY DEF IInv, Acknowledged
  <1> HIDE DEF arts
  <1>5. UNCHANGED <<file, ledgers, index, known, records, upload, keeper, up>>
    BY DEF Attach, others
  <1>6. keeper' \in [Keepers -> Pass] /\ a \notin log.born
    BY <1>1, <1>5, Typed DEF Attach
  <1>7. QED
    BY <1>1, <1>2, <1>3, <1>4, <1>5, <1>6, BegunKeeps, SameListStays

LEMMA RemoveKeeps ==
  ASSUME IInv, NEW a \in Attachments, Remove(a)
  PROVE  IInv'
  <1>1. a \in Artifacts /\ TypeOK
    BY DEF Artifacts, IInv
  <1> DEFINE arts == index.text.arts \ {a}
  <1>2. arts \in SUBSET Artifacts /\ Begin("remove", "ledger", a, arts)
    BY <1>1, Typed DEF Remove
  <1>3. log' \in Log /\ log'.acked = log.acked \ {a} /\ log'.born = log.born
    BY <1>1, Typed DEF Remove, Log
  <1>4. log'.acked \subseteq log.acked \cap arts
    BY <1>3 DEF IInv, Acknowledged
  <1> HIDE DEF arts
  <1>5. UNCHANGED <<file, ledgers, index, known, records, blobs, upload, keeper, up>>
    BY DEF Remove, others, shelf
  <1>6. keeper' \in [Keepers -> Pass] /\ blobs' \in [Blobs -> Ages]
    BY <1>1, <1>5, Typed
  <1>7. QED
    BY <1>1, <1>2, <1>3, <1>4, <1>5, <1>6, BegunKeeps, SameListStays DEF Making

LEMMA ReferKeeps ==
  ASSUME IInv, Refer
  PROVE  IInv'
  <1> DEFINE a == upload.art
             arts == index.text.arts \cup {a}
  <1>1. a \in Artifacts /\ TypeOK /\ upload.at = "queued"
    BY Typed DEF IInv, Queue, Refer
  <1>2. arts \in SUBSET Artifacts /\ Begin("refer", "ledger", a, arts) /\ a \in arts
    BY <1>1, Typed DEF Refer
  <1>3. log.acked \subseteq arts
    BY DEF IInv, Acknowledged
  <1>4. upload.art = a
    OBVIOUS
  <1> HIDE DEF a, arts
  <1>5. UNCHANGED <<file, ledgers, index, known, records, blobs, upload, keeper, up, log>>
    BY DEF Refer, others, shelf
  <1>6. keeper' \in [Keepers -> Pass] /\ blobs' \in [Blobs -> Ages] /\ log' \in Log
    BY <1>1, <1>5, Typed
  <1>7. QED
    BY <1>1, <1>2, <1>3, <1>4, <1>5, <1>6, BegunKeeps, SameListStays

LEMMA RecoverKeeps ==
  ASSUME IInv, NEW k \in Keepers, NEW a \in Artifacts, Recover(k, a)
  PROVE  IInv'
  <1>1. TypeOK /\ keeper[k] \in Pass
    BY Typed DEF IInv
  <1>2. PICK p : p = [keeper[k] EXCEPT !.todo = @ \ {a}]
    OBVIOUS
  <1>3. p \in Pass /\ p.at = keeper[k].at /\ p.refs = keeper[k].refs
        /\ p.blind = keeper[k].blind
    BY <1>1, <1>2 DEF Pass
  <1>4. keeper' = [keeper EXCEPT ![k] = p]
    BY <1>2 DEF Recover, Turn
  <1>5. keeper' \in [Keepers -> Pass] /\ \A q \in Keepers : SameList(q)
    BY <1>1, <1>3, <1>4, Typed DEF SameList
  <1>6. UNCHANGED <<file, ledgers, index, known, records, blobs, upload, up, log>>
        /\ up
    BY DEF Recover, shelf, Free
  <1>7. CASE Stored(a) /\ index.valid
    <2> DEFINE arts == index.text.arts \cup {a}
    <2>1. arts \in SUBSET Artifacts /\ Begin("recover", "ledger", a, arts)
      BY <1>1, <1>7, Typed DEF Recover
    <2>2. log.acked \subseteq arts
      BY DEF IInv, Acknowledged
    <2> HIDE DEF arts
    <2>3. blobs' \in [Blobs -> Ages] /\ log' \in Log
      BY <1>1, <1>6, Typed
    <2>4. QED
      BY <1>5, <1>6, <2>1, <2>2, <2>3, BegunKeeps DEF Making
  <1>8. CASE ~ (Stored(a) /\ index.valid)
    <2>1. UNCHANGED op
      BY <1>8 DEF Recover
    <2>2. Retained'
      BY <1>5, <1>6, <2>1 DEF IInv, Retained, SameList
    <2>3. /\ upload \in [at : {"idle", "record", "queued"}, art : Artifacts \cup {NoArtifact}]
          /\ records \in [Artifacts -> Ages] /\ blobs \in [Blobs -> Ages] /\ log \in Log
      BY <1>1 DEF TypeOK
    <2>4. upload # NoUpload => /\ upload.at # "idle" /\ upload.art \in Artifacts
                               /\ upload.art \in log.born \ log.acked
                               /\ op.kind = "attach" => upload.art # op.art
      BY DEF IInv, Queue, Acknowledged
    <2>5. UNCHANGED <<file, ledgers, index, known, op, up>> /\ up
      BY <1>6, <2>1
    <2>6. /\ upload' = upload /\ log' = log /\ records' \in [Artifacts -> Ages]
          /\ blobs' \in [Blobs -> Ages] /\ log' \in Log
          /\ upload' \in [at : {"idle", "record", "queued"}, art : Artifacts \cup {NoArtifact}]
      BY <1>6, <2>3
    <2>7. QED
      BY <1>5, <2>2, <2>4, <2>5, <2>6, AsideKeeps
  <1>9. QED
    BY <1>7, <1>8

-----------------------------------------------------------------------------
(***************************************************************************)
(* Uploads, passes and time.                                               *)
(***************************************************************************)

LEMMA UploadKeeps ==
  ASSUME IInv, NEW a \in Uploads, Upload(a)
  PROVE  IInv'
  <1>1. a \in Artifacts /\ TypeOK
    BY DEF Artifacts, IInv
  <1>2. /\ UNCHANGED <<file, ledgers, index, known, op, up>> /\ UNCHANGED <<records, keeper>>
        /\ up /\ upload = NoUpload /\ upload' = [at |-> "record", art |-> a]
        /\ PutBlob(a) /\ a \notin log.born
    BY DEF Upload
  <1>3. log' \in Log /\ log'.acked = log.acked /\ log'.unseen = log.unseen
        /\ log'.born = log.born \cup {a}
    BY <1>1, Typed DEF Upload, Log
  <1>4. /\ records' \in [Artifacts -> Ages] /\ blobs' \in [Blobs -> Ages]
        /\ keeper' \in [Keepers -> Pass]
        /\ upload' \in [at : {"idle", "record", "queued"}, art : Artifacts \cup {NoArtifact}]
    BY <1>1, <1>2, Typed, BlobsTyped
  <1>5. op.kind # "refer"
    BY <1>1, <1>2, Typed DEF IInv, Queue
  <1>6. upload'.at = "record" /\ upload'.art = a
    BY <1>2
  <1>7. a \notin log.acked /\ (op.kind = "attach" => op.art # a)
    BY <1>2 DEF IInv, Acknowledged
  <1>8. Retained'
    BY <1>2, <1>3, <1>6 DEF IInv, Retained
  <1>9. QED
    BY <1>1, <1>2, <1>3, <1>4, <1>5, <1>6, <1>7, <1>8, AsideKeeps

LEMMA UploadRecordKeeps ==
  ASSUME IInv, UploadRecord
  PROVE  IInv'
  <1>1. /\ UNCHANGED <<file, ledgers, index, known, op, up>>
        /\ UNCHANGED <<blobs, keeper, log>>
        /\ up /\ upload.at = "record" /\ TypeOK
        /\ upload' = [upload EXCEPT !.at = "queued"]
        /\ records' = [records EXCEPT ![upload.art] = 0]
    BY DEF UploadRecord, PutRecord, others, IInv
  <1>2. /\ upload # NoUpload /\ upload.art \in Artifacts
        /\ upload.art \in log.born \ log.acked
        /\ op.kind = "attach" => upload.art # op.art
        /\ op.kind # "refer"
    BY <1>1, Typed DEF IInv, Queue, Acknowledged
  <1>3. /\ upload' \in [at : {"idle", "record", "queued"}, art : Artifacts \cup {NoArtifact}]
        /\ upload'.at = "queued" /\ upload'.art = upload.art
    BY <1>1, <1>2 DEF TypeOK
  <1>4. records' \in [Artifacts -> Ages] /\ records'[upload.art] = 0
        /\ \A a \in Artifacts : records'[a] = 2 => records[a] = 2
    BY <1>1, <1>2, Typed DEF Ages
  <1>5. blobs' \in [Blobs -> Ages] /\ keeper' \in [Keepers -> Pass] /\ log' \in Log
    BY <1>1, Typed
  <1>6. Retained'
    <2>1. op.kind \in Making => op.art \in Artifacts
      BY DEF IInv, Queue
    <2>2. log.acked \subseteq Artifacts
      BY <1>1, Typed DEF Log
    <2>3. QED
      BY <1>1, <1>3, <1>4, <2>1, <2>2 DEF IInv, Retained
  <1>7. QED
    BY <1>1, <1>2, <1>3, <1>4, <1>5, <1>6, AsideKeeps

LEMMA ReferFailsKeeps ==
  ASSUME IInv, ReferFails
  PROVE  IInv'
  <1>1. /\ UNCHANGED <<file, ledgers, index, known, op, up>>
        /\ UNCHANGED <<blobs, keeper, log>>
        /\ up /\ op.kind = "none" /\ TypeOK /\ upload' = NoUpload
        /\ records' = [records EXCEPT ![upload.art] = Absent]
    BY DEF ReferFails, Free, IInv
  <1>2. records' \in [Artifacts -> Ages]
        /\ \A a \in Artifacts : records'[a] = 2 => records[a] = 2
    <2>1. Absent \in Ages /\ Absent # 2 /\ records \in [Artifacts -> Ages]
      BY <1>1, Typed DEF Ages, Absent
    <2>2. QED
      BY <1>1, <2>1
  <1>3. /\ blobs' \in [Blobs -> Ages] /\ keeper' \in [Keepers -> Pass] /\ log' \in Log
        /\ upload' \in [at : {"idle", "record", "queued"}, art : Artifacts \cup {NoArtifact}]
    BY <1>1, Typed
  <1>4. Retained'
    <2>1. log.acked \subseteq Artifacts
      BY <1>1, Typed DEF Log
    <2>2. QED
      BY <1>1, <1>2, <2>1, Typed DEF IInv, Retained, Making
  <1>5. QED
    BY <1>1, <1>2, <1>3, <1>4, AsideKeeps

(* A step of a pass that deletes no more than it leaves.                   *)
LEMMA PassKeeps ==
  ASSUME IInv, NEW k \in Keepers, NEW p \in Pass, keeper' = [keeper EXCEPT ![k] = p], up,
         UNCHANGED <<file, ledgers, index, known, op, upload, up, log>>,
         records' \in [Artifacts -> Ages], blobs' \in [Blobs -> Ages],
         \A a \in Artifacts : records'[a] \in {records[a], Absent},
         p.at = "collect" /\ ~ p.blind => log.acked \subseteq p.refs
  PROVE  IInv'
  <1>1. TypeOK
    BY DEF IInv
  <1>2. keeper' \in [Keepers -> Pass] /\ keeper'[k] = p
        /\ \A q \in Keepers \ {k} : keeper'[q] = keeper[q]
    BY <1>1, Typed
  <1>3. \A a \in Artifacts : records'[a] = 2 => records[a] = 2
    BY DEF Absent
  <1>4. Retained'
    <2>1. log.acked \subseteq Artifacts /\ (op.kind \in Making => op.art \in Artifacts)
          /\ (upload.at = "queued" => upload.art \in Artifacts)
      BY <1>1, Typed DEF Log, IInv, Queue
    <2>2. QED
      BY <1>2, <1>3, <2>1 DEF IInv, Retained
  <1>5. /\ upload \in [at : {"idle", "record", "queued"}, art : Artifacts \cup {NoArtifact}]
        /\ log \in Log
    BY <1>1, Typed DEF TypeOK
  <1>6. upload # NoUpload => /\ upload.at # "idle" /\ upload.art \in Artifacts
                             /\ upload.art \in log.born \ log.acked
                             /\ op.kind = "attach" => upload.art # op.art
    BY DEF IInv, Queue, Acknowledged
  <1>7. QED
    BY <1>2, <1>4, <1>5, <1>6, AsideKeeps

LEMMA DiagnoseKeeps ==
  ASSUME IInv, NEW k \in Keepers, Diagnose(k)
  PROVE  IInv'
  <1> DEFINE todo == {a \in Artifacts \ Referenced : records[a] > 0}
  <1>1. TypeOK /\ keeper[k] \in Pass /\ todo \in SUBSET Artifacts
    BY Typed DEF IInv
  <1>2. keeper' = [keeper EXCEPT ![k] = [keeper[k] EXCEPT !.at = "recover", !.todo = todo]]
    BY DEF Diagnose, Turn
  <1> HIDE DEF todo
  <1>3. PICK p : p = [keeper[k] EXCEPT !.at = "recover", !.todo = todo]
    OBVIOUS
  <1>3a. p \in Pass /\ p.at = "recover"
    BY <1>1, <1>3 DEF Pass
  <1>4. UNCHANGED <<file, ledgers, index, known, op, upload, up, log>> /\ up
        /\ UNCHANGED <<records, blobs>>
    BY DEF Diagnose, Free, shelf
  <1>5. keeper' = [keeper EXCEPT ![k] = p]
    BY <1>2, <1>3
  <1>6. records' \in [Artifacts -> Ages] /\ blobs' \in [Blobs -> Ages]
    BY <1>1, <1>4, Typed
  <1>7. QED
    BY <1>3a, <1>4, <1>5, <1>6, PassKeeps

LEMMA ListKeeps ==
  ASSUME IInv, NEW k \in Keepers, List(k)
  PROVE  IInv'
  <1>1. TypeOK /\ keeper[k] \in Pass /\ Referenced \in SUBSET Artifacts
    BY Typed DEF IInv, Referenced
  <1>1a. PICK blind \in BOOLEAN : blind = ~ index.valid
    OBVIOUS
  <1>2. keeper' = [keeper EXCEPT ![k] = [keeper[k] EXCEPT !.at = "collect", !.refs = Referenced,
                                                          !.blind = blind]]
    BY <1>1a DEF List, Turn
  <1>3. PICK p : p = [keeper[k] EXCEPT !.at = "collect", !.refs = Referenced, !.blind = blind]
    OBVIOUS
  <1>3a. p \in Pass /\ p.refs = Referenced /\ p.blind = blind
    BY <1>1, <1>3 DEF Pass
  <1>4. UNCHANGED <<file, ledgers, index, known, op, upload, up, log>> /\ up
        /\ UNCHANGED <<records, blobs>>
    BY DEF List, Free, shelf
  <1>5. keeper' = [keeper EXCEPT ![k] = p]
    BY <1>2, <1>3
  <1>6. records' \in [Artifacts -> Ages] /\ blobs' \in [Blobs -> Ages]
    BY <1>1, <1>4, Typed
  <1>7. ~ p.blind => log.acked \subseteq p.refs
    BY <1>1a, <1>3a, Typed DEF Referenced, IInv, Acknowledged
  <1>8. QED
    BY <1>3a, <1>4, <1>5, <1>6, <1>7, PassKeeps

LEMMA CollectKeeps ==
  ASSUME IInv, NEW k \in Keepers, Collect(k)
  PROVE  IInv'
  <1>1. TypeOK
    BY DEF IInv
  <1>1a. PICK p : p = [Resting EXCEPT !.at = "report"]
    OBVIOUS
  <1>2. keeper' = [keeper EXCEPT ![k] = p] /\ up
        /\ UNCHANGED <<file, ledgers, index, known, op, upload, up, log>>
    BY <1>1a DEF Collect, Turn
  <1>3. /\ records' = [a \in Artifacts |-> IF a \in Expired(keeper[k].refs) THEN Absent
                                                                            ELSE records[a]]
        /\ blobs' = [b \in Blobs |-> IF blobs[b] = 2 /\ ~\E a \in Kept(keeper[k].refs) :
                                                           BlobOf(a) = b
                                     THEN Absent ELSE blobs[b]]
    BY DEF Collect
  <1>4. records' \in [Artifacts -> Ages]
        /\ \A a \in Artifacts : records'[a] \in {records[a], Absent}
    BY <1>1, <1>3, Typed DEF Ages
  <1>5. blobs' \in [Blobs -> Ages]
    BY <1>1, <1>3, Typed DEF Ages
  <1>6. p \in Pass /\ p.at = "report"
    BY <1>1a DEF Resting, Pass
  <1>7. QED
    BY <1>2, <1>4, <1>5, <1>6, PassKeeps

(* The end of a pass, good or bad.                                         *)
LEMMA EndKeeps ==
  ASSUME IInv, NEW k \in Keepers, Report(k) \/ PassFails(k)
  PROVE  IInv'
  <1>1. TypeOK
    BY DEF IInv
  <1>2. /\ Resting \in Pass /\ Resting.at = "idle"
        /\ Dead \in Pass /\ Dead.at = "dead"
    BY DEF Resting, Dead, Pass
  <1>3. PICK p \in Pass : p.at # "collect" /\ keeper' = [keeper EXCEPT ![k] = p]
    BY <1>2 DEF Report, PassFails, Turn
  <1>4. UNCHANGED <<file, ledgers, index, known, op, upload, up, log>> /\ up
        /\ UNCHANGED <<records, blobs>>
    BY DEF Report, PassFails, shelf
  <1>5. records' \in [Artifacts -> Ages] /\ blobs' \in [Blobs -> Ages]
    BY <1>1, <1>4, Typed
  <1>6. QED
    BY <1>3, <1>4, <1>5, PassKeeps

LEMMA AgeKeeps ==
  ASSUME IInv, Age
  PROVE  IInv'
  <1>1. TypeOK /\ op.kind = "none" /\ upload = NoUpload
        /\ \A k \in Keepers : keeper[k].at # "collect"
    BY Typed DEF Age, IInv, Queue
  <1>2. /\ UNCHANGED <<file, ledgers, index, known, op, up>>
        /\ UNCHANGED <<keeper, upload, log>>
        /\ records' = [a \in Artifacts |-> Older(records[a])]
        /\ blobs' = [b \in Blobs |-> Older(blobs[b])]
    BY DEF Age, others
  <1>3. \A x \in Ages : Older(x) \in Ages
    BY DEF Ages, Older, Absent
  <1>4. records' \in [Artifacts -> Ages] /\ blobs' \in [Blobs -> Ages]
    BY <1>1, <1>2, <1>3, Typed
  <1>5. /\ upload' \in [at : {"idle", "record", "queued"}, art : Artifacts \cup {NoArtifact}]
        /\ keeper' \in [Keepers -> Pass] /\ log' \in Log
    BY <1>1, <1>2, Typed
  <1>6. Retained'
    BY <1>1, <1>2, Typed DEF Retained, Making
  <1>7. QED
    BY <1>1, <1>2, <1>4, <1>5, <1>6, AsideKeeps

-----------------------------------------------------------------------------
(***************************************************************************)
(* The steps of an operation.                                              *)
(***************************************************************************)

LEMMA AttachRecordKeeps ==
  ASSUME IInv, AttachRecord
  PROVE  IInv'
  <1>1. /\ TypeOK /\ op.at = "record" /\ op.kind = "attach" /\ op.art \in Artifacts /\ up
        /\ records' = [records EXCEPT ![op.art] = 0]
        /\ op' = [op EXCEPT !.at = "ledger"]
        /\ UNCHANGED <<file, ledgers, index, known, blobs, upload, keeper, up, log>>
    BY DEF AttachRecord, PutRecord, others, IInv, Queue, Making
  <1>2. /\ op' \in Op /\ op'.at = "ledger" /\ op'.kind = op.kind /\ op'.art = op.art
        /\ op'.read = op.read /\ op'.base = op.base /\ op'.next = op.next
    BY <1>1, WentOn
  <1>3. records' \in [Artifacts -> Ages] /\ records'[op.art] = 0
        /\ \A a \in Artifacts : records'[a] = 2 => records[a] = 2
    BY <1>1, Typed DEF Ages
  <1>4. TypeOK'
    BY <1>1, <1>2, <1>3 DEF TypeOK
  <1>5. Queue'
    BY <1>1, <1>2 DEF IInv, Queue
  <1>6. Ledgers'
    BY <1>1, <1>2 DEF IInv, Ledgers, Readable, Unwritten, Written
  <1>7. Compared'
    BY <1>1, <1>2 DEF IInv, Compared
  <1>8. Acknowledged'
    BY <1>1, <1>2 DEF IInv, Acknowledged, Written
  <1>9. Retained'
    <2>1. log.acked \subseteq Artifacts
      BY <1>1, Typed DEF Log
    <2>2. upload.at = "queued" => upload.art \in Artifacts
      BY <1>1, Typed DEF IInv, Queue
    <2>3. QED
      BY <1>1, <1>2, <1>3, <2>1, <2>2 DEF IInv, Retained
  <1>10. QED
    BY <1>4, <1>5, <1>6, <1>7, <1>8, <1>9 DEF IInv

LEMMA ExternalizeKeeps ==
  ASSUME IInv, Externalize
  PROVE  IInv'
  <1>1. TypeOK /\ op.kind # "none" /\ op.at = "ledger" /\ op.next.rev = file.rev + 1
        /\ UNCHANGED <<file, index, known, records, blobs, upload, keeper, up, log>> /\ up
    BY DEF Externalize, IInv, Ledgers, Unwritten, shelf, others
  <1>2. PICK stamp \in Nat : stamp = FreshStamp(op.next.rev)
    BY <1>1, Typed, FreshStampTyped
  <1>3. PICK new : new = [rev |-> op.next.rev, stamp |-> stamp]
    OBVIOUS
  <1>4. /\ ledgers' = {l \in ledgers : l.rev # op.next.rev} \cup {new}
        /\ op' = [op EXCEPT !.next.stamp = stamp,
                            !.at = IF op.kind = "scan" THEN "expect" ELSE "check"]
    BY <1>2, <1>3 DEF Externalize
  <1>5. new \in [rev : Nat, stamp : Nat] /\ new.rev = op.next.rev
    BY <1>1, <1>3, Typed
  <1>6. PICK next \in Text : next = [op.next EXCEPT !.stamp = stamp]
    BY <1>1, Typed DEF Text
  <1>7. /\ next.rev = op.next.rev /\ next.arts = op.next.arts /\ next.edits = op.next.edits
        /\ LedgerOf(next) = new
    BY <1>1, <1>3, <1>6, Typed DEF Text, LedgerOf
  <1>8. PICK at \in {"expect", "check"} : at = IF op.kind = "scan" THEN "expect" ELSE "check"
    OBVIOUS
  <1>9. op' = [op EXCEPT !.next = next, !.at = at]
    BY <1>1, <1>4, <1>6, <1>8, Typed DEF Op
  <1>10. /\ op' \in Op /\ op'.at = at /\ op'.kind = op.kind /\ op'.art = op.art
         /\ op'.read = op.read /\ op'.base = op.base /\ op'.next = next
    BY <1>1, <1>9, Typed DEF Op
  <1>11. TypeOK'
    <2>1. ledgers' \subseteq [rev : Nat, stamp : Nat]
      BY <1>1, <1>4, <1>5 DEF TypeOK
    <2>2. \A l, m \in ledgers' : l.rev = m.rev => l = m
      BY <1>1, <1>4, <1>5 DEF TypeOK
    <2>3. IsFiniteSet(ledgers')
      <3> DEFINE rest == {l \in ledgers : l.rev # op.next.rev}
      <3>1. IsFiniteSet(ledgers) /\ rest \subseteq ledgers
        BY <1>1 DEF TypeOK
      <3>2. ledgers' = rest \cup {new}
        BY <1>4
      <3> HIDE DEF rest
      <3>3. IsFiniteSet(rest)
        BY <3>1, FS_Subset
      <3>4. QED
        BY <3>2, <3>3, FS_AddElement
    <2>4. QED
      BY <1>1, <1>10, <2>1, <2>2, <2>3 DEF TypeOK
  <1>12. Queue'
    BY <1>1, <1>8, <1>10, Typed DEF IInv, Queue
  <1>13. Ledgers'
    <2>1. LedgerOf(file) \in ledgers /\ LedgerOf(file).rev # op.next.rev
      BY <1>1, Typed DEF IInv, Ledgers, Readable, LedgerOf
    <2>2. LedgerOf(file) \in ledgers' /\ LedgerOf(next) \in ledgers'
      BY <1>4, <1>7, <2>1
    <2>3. Readable(file)' /\ Readable(op.next)'
      BY <1>1, <1>10, <2>2 DEF Readable
    <2>4. QED
      BY <1>1, <1>7, <1>8, <1>10, <2>3 DEF IInv, Ledgers, Unwritten, Written
  <1>14. Compared'
    BY <1>1, <1>7, <1>8, <1>10 DEF IInv, Compared
  <1>15. Acknowledged'
    BY <1>1, <1>7, <1>8, <1>10 DEF IInv, Acknowledged, Written
  <1>16. Retained'
    BY <1>1, <1>8, <1>10 DEF IInv, Retained
  <1>17. QED
    BY <1>11, <1>12, <1>13, <1>14, <1>15, <1>16 DEF IInv

(* A step of the operation that writes nothing.                            *)
LEMMA ExpectKeeps ==
  ASSUME IInv, Expect
  PROVE  IInv'
  <1>1. TypeOK /\ op.at = "expect" /\ op.kind = "scan" /\ op' = [op EXCEPT !.base = file, !.at = "check"]
        /\ UNCHANGED <<file, ledgers, index, known, records, blobs, upload, keeper, up, log>> /\ up
    BY DEF Expect, IInv, Queue, shelf, others
  <1>2. /\ op' \in Op /\ op'.at = "check" /\ op'.kind = op.kind /\ op'.art = op.art
        /\ op'.read = op.read /\ op'.next = op.next
    BY <1>1, Typed DEF Op
  <1>3. TypeOK'
    BY <1>1, <1>2 DEF TypeOK
  <1>4. Queue' /\ Compared' /\ Retained'
    BY <1>1, <1>2 DEF IInv, Queue, Compared, Retained
  <1>5. Ledgers'
    BY <1>1, <1>2 DEF IInv, Ledgers, Readable, Unwritten, Written
  <1>6. Acknowledged'
    BY <1>1, <1>2 DEF IInv, Acknowledged, Written
  <1>7. QED
    BY <1>3, <1>4, <1>5, <1>6 DEF IInv

(* An operation ends: the index is of the file's revision.                 *)
LEMMA EndsKeeps ==
  ASSUME IInv, up, op' = NoOp,
         UNCHANGED <<file, ledgers, up, keeper, blobs>>, log' \in Log,
         log'.acked \subseteq log'.born, log'.born = log.born,
         upload' \in {upload, NoUpload}, op.kind = "refer" => upload' = NoUpload,
         upload' # NoUpload => upload.art \notin log'.acked,
         log'.acked \subseteq file.arts \cap index'.text.arts,
         records' \in [Artifacts -> Ages],
         \A a \in Artifacts : records'[a] = 2 => records[a] = 2,
         \A a \in log'.acked : a \in log.acked \/ records[a] # 2,
         index' \in [text : Text, valid : BOOLEAN], known' \in Text,
         index'.text.rev = file.rev
  PROVE  IInv'
  <1>1. TypeOK /\ op'.kind = "none" /\ op'.at = "ledger" /\ op' \in Op
        /\ upload' \in [at : {"idle", "record", "queued"}, art : Artifacts \cup {NoArtifact}]
        /\ NoUpload.at = "idle"
    BY Typed DEF IInv, TypeOK
  <1>2. TypeOK'
    BY <1>1 DEF TypeOK
  <1>3. Queue'
    BY <1>1 DEF IInv, Queue, Making
  <1>4. Ledgers'
    BY <1>1 DEF IInv, Ledgers, Readable, Written
  <1>5. Compared'
    BY <1>1 DEF Compared
  <1>6. Acknowledged'
    BY <1>1 DEF IInv, Acknowledged, Making
  <1>7. Retained'
    <2>1. log'.acked \subseteq Artifacts
      BY Typed DEF Log
    <2>2. upload.at = "queued" => upload.art \in Artifacts
      BY <1>1, Typed DEF IInv, Queue
    <2>3. QED
      BY <1>1, <2>1, <2>2 DEF IInv, Retained, Making
  <1>8. QED
    BY <1>2, <1>3, <1>4, <1>5, <1>6, <1>7 DEF IInv

(* What is being made is deleted: the last step of the operation.          *)
LEMMA UndoKeeps ==
  ASSUME IInv, up, op.kind \in Making \cup {"remove"}, op' = [op EXCEPT !.at = "delete"],
         UNCHANGED <<file, ledgers, up, keeper, blobs, records, upload, log>>,
         index' \in [text : Text, valid : BOOLEAN], known' \in Text,
         index'.text.rev = file.rev, log.acked \subseteq index'.text.arts,
         op.at # "record"
  PROVE  IInv'
  <1>1. /\ TypeOK /\ op' \in Op /\ op'.at = "delete" /\ op'.kind = op.kind /\ op'.art = op.art
        /\ op'.read = op.read /\ op'.base = op.base /\ op'.next = op.next
    BY WentOn DEF IInv
  <1>2. TypeOK'
    BY <1>1 DEF TypeOK
  <1>3. Queue' /\ Compared' /\ Retained'
    BY <1>1 DEF IInv, Queue, Compared, Retained, Making
  <1>4. Ledgers'
    BY <1>1 DEF IInv, Ledgers, Readable, Unwritten, Written, Making
  <1>5. Acknowledged'
    BY <1>1 DEF IInv, Acknowledged, Written, Making
  <1>6. QED
    BY <1>2, <1>3, <1>4, <1>5 DEF IInv

(* The index keeps the file's revision and whatever is acknowledged.       *)
LEMMA IndexStays ==
  ASSUME IInv, up, op.at \notin Written, UNCHANGED <<file, index, known>>
  PROVE  /\ index' \in [text : Text, valid : BOOLEAN] /\ known' \in Text
         /\ index'.text.rev = file.rev /\ log.acked \subseteq file.arts \cap index'.text.arts
  BY Typed DEF IInv, TypeOK, Ledgers, Acknowledged

LEMMA NothingMade ==
  ASSUME IInv, op.kind \notin Making
  PROVE  /\ log \in Log /\ log.acked \subseteq log.born
         /\ records \in [Artifacts -> Ages]
         /\ upload # NoUpload => upload.art \notin log.acked
         /\ op.kind # "refer"
  BY DEF IInv, TypeOK, Acknowledged, Making

LEMMA FailsKeeps ==
  ASSUME IInv, up, op.at = "check", Fails,
         UNCHANGED <<file, ledgers, records, blobs, upload, keeper, up, log>>
  PROVE  IInv'
  <1>1. op.kind # "none" /\ op.at \notin Written /\ op.at # "record"
    BY Typed DEF IInv, Queue, Written
  <1>2. CASE op.kind \in Making
    <2>1. op' = [op EXCEPT !.at = "delete"] /\ UNCHANGED <<index, known>>
      BY <1>2 DEF Fails, Making
    <2>2. QED
      BY <1>1, <1>2, <2>1, IndexStays, UndoKeeps
  <1>3. CASE op.kind = "scan"
    <2>1. op' = NoOp /\ index' = [text |-> op.read, valid |-> FALSE] /\ known' = op.read
          /\ op.kind \notin Making
      BY <1>3 DEF Fails, Making
    <2>2. /\ op.read \in Text /\ op.read.rev = file.rev
          /\ log.acked \subseteq op.read.arts /\ log.acked \subseteq file.arts
      BY <1>3, Typed DEF IInv, Ledgers, Acknowledged, Unwritten
    <2>3. /\ index' \in [text : Text, valid : BOOLEAN] /\ known' \in Text
          /\ index'.text.rev = file.rev /\ log.acked \subseteq file.arts \cap index'.text.arts
      BY <2>1, <2>2
    <2>4. QED
      BY <2>1, <2>3, NothingMade, EndsKeeps
  <1>4. CASE op.kind \notin Making \cup {"scan"}
    <2>1. op' = NoOp /\ UNCHANGED <<index, known>> /\ op.kind \notin Making
      BY <1>4 DEF Fails, Making
    <2>2. QED
      BY <1>1, <2>1, IndexStays, NothingMade, EndsKeeps
  <1>5. QED
    BY <1>2, <1>3, <1>4

LEMMA CheckKeeps ==
  ASSUME IInv, Check
  PROVE  IInv'
  <1>1. TypeOK /\ op.at = "check" /\ up /\ op.kind # "none"
        /\ UNCHANGED <<file, ledgers, records, blobs, upload, keeper, up, log>>
    BY Typed DEF Check, IInv, Queue, shelf, others
  <1>2. CASE file = op.base /\ op' = [op EXCEPT !.at = "rename"] /\ UNCHANGED <<index, known>>
    <2>1. /\ op' \in Op /\ op'.at = "rename" /\ op'.kind = op.kind /\ op'.art = op.art
          /\ op'.read = op.read /\ op'.base = op.base /\ op'.next = op.next
      BY <1>1, <1>2, WentOn
    <2>2. TypeOK'
      BY <1>1, <1>2, <2>1 DEF TypeOK
    <2>3. Queue' /\ Retained'
      BY <1>1, <2>1 DEF IInv, Queue, Retained
    <2>4. Compared'
      BY <1>1, <1>2, <2>1 DEF IInv, Compared
    <2>5. Ledgers'
      BY <1>1, <1>2, <2>1 DEF IInv, Ledgers, Readable, Unwritten, Written
    <2>6. Acknowledged'
      BY <1>1, <1>2, <2>1 DEF IInv, Acknowledged, Written
    <2>7. QED
      BY <2>2, <2>3, <2>4, <2>5, <2>6 DEF IInv
  <1>3. CASE file # op.base /\ Fails
    BY <1>1, <1>3, FailsKeeps
  <1>4. QED
    BY <1>2, <1>3 DEF Check

LEMMA RenameKeeps ==
  ASSUME IInv, Rename
  PROVE  IInv'
  <1>1. TypeOK /\ op.at = "rename" /\ up /\ op.kind # "none" /\ file' = op.next
        /\ op' = [op EXCEPT !.at = "prune"] /\ log' = [log EXCEPT !.unseen = {}]
        /\ UNCHANGED <<ledgers, index, known, records, blobs, upload, keeper, up>>
    BY Typed DEF Rename, IInv, Queue, shelf, others
  <1>2. /\ op' \in Op /\ op'.at = "prune" /\ op'.kind = op.kind /\ op'.art = op.art
        /\ op'.read = op.read /\ op'.base = op.base /\ op'.next = op.next
    BY <1>1, WentOn
  <1>3. log' \in Log /\ log'.acked = log.acked /\ log'.born = log.born
    BY <1>1, Typed DEF Log
  <1>4. TypeOK'
    BY <1>1, <1>2, <1>3, Typed DEF TypeOK
  <1>5. Queue' /\ Compared' /\ Retained'
    BY <1>1, <1>2, <1>3 DEF IInv, Queue, Compared, Retained
  <1>6. Ledgers'
    BY <1>1, <1>2 DEF IInv, Ledgers, Readable, Unwritten, Written
  <1>7. Acknowledged'
    BY <1>1, <1>2, <1>3 DEF IInv, Acknowledged
  <1>8. QED
    BY <1>4, <1>5, <1>6, <1>7 DEF IInv

LEMMA PruneKeeps ==
  ASSUME IInv, Prune
  PROVE  IInv'
  <1>1. TypeOK /\ op.at = "prune" /\ up /\ op.kind # "none" /\ known' = op.next
        /\ op' = [op EXCEPT !.at = "load"]
        /\ ledgers' = {l \in ledgers : l.rev = op.next.rev}
        /\ UNCHANGED <<file, index, records, blobs, upload, keeper, up, log>>
    BY Typed DEF Prune, IInv, Queue, shelf, others
  <1>2. /\ op' \in Op /\ op'.at = "load" /\ op'.kind = op.kind /\ op'.art = op.art
        /\ op'.read = op.read /\ op'.base = op.base /\ op'.next = op.next
    BY <1>1, WentOn
  <1>3. ledgers' \subseteq ledgers /\ IsFiniteSet(ledgers')
    BY <1>1, FS_Subset DEF TypeOK
  <1>4. TypeOK'
    BY <1>1, <1>2, <1>3, Typed DEF TypeOK
  <1>5. Queue' /\ Compared' /\ Retained'
    BY <1>1, <1>2 DEF IInv, Queue, Compared, Retained
  <1>6. Ledgers'
    <2>1. LedgerOf(op.next) \in ledgers' /\ LedgerOf(file) = LedgerOf(op.next)
      BY <1>1 DEF IInv, Ledgers, Readable, LedgerOf, Written
    <2>2. Readable(file)' /\ Readable(op.next)'
      BY <1>1, <1>2, <2>1 DEF Readable
    <2>3. QED
      BY <1>1, <1>2, <2>1, <2>2 DEF Ledgers, Unwritten, Written
  <1>7. Acknowledged'
    BY <1>1, <1>2 DEF IInv, Acknowledged, Written
  <1>8. QED
    BY <1>4, <1>5, <1>6, <1>7 DEF IInv

LEMMA LoadKeeps ==
  ASSUME IInv, Load
  PROVE  IInv'
  <1>1. TypeOK /\ op.at = "load" /\ up /\ op.kind # "none" /\ Readable(file)
        /\ UNCHANGED <<file, ledgers, records, blobs, keeper, up>>
    BY Typed DEF Load, IInv, Queue, Ledgers, shelf
  <1>2. /\ index' = Copied(file) /\ UNCHANGED known
        /\ op' = IF op.kind = "remove" THEN [op EXCEPT !.at = "delete"] ELSE NoOp
        /\ log' = IF op.kind \in {"attach", "refer"}
                  THEN [log EXCEPT !.acked = @ \cup {op.art}] ELSE log
        /\ upload' = IF op.kind = "refer" THEN NoUpload ELSE upload
    BY <1>1 DEF Load
  <1>3. /\ index' \in [text : Text, valid : BOOLEAN] /\ index'.text = file /\ known' \in Text
    BY <1>1, <1>2, Typed DEF Copied, Readable
  <1>4. log.acked \subseteq file.arts
    BY DEF IInv, Acknowledged
  <1>5. CASE op.kind = "remove"
    <2>1. log' = log /\ upload' = upload /\ op' = [op EXCEPT !.at = "delete"]
      BY <1>2, <1>5
    <2>2. QED
      BY <1>1, <1>3, <1>4, <1>5, <2>1, UndoKeeps
  <1>6. CASE op.kind \in Making
    <2>1. /\ op' = NoOp /\ log' = [log EXCEPT !.acked = @ \cup {op.art}]
          /\ upload' = IF op.kind = "refer" THEN NoUpload ELSE upload
      BY <1>2, <1>6 DEF Making
    <2>2. op.art \in Artifacts /\ op.art \in log.born /\ op.art \in file.arts
          /\ records[op.art] # 2
      <3>1. op.art \in log.born
        BY <1>6, Typed DEF IInv, Acknowledged, Queue, Making
      <3>2. QED
        BY <1>1, <1>6, <3>1 DEF IInv, Acknowledged, Queue, Retained, Written
    <2>3. log' \in Log /\ log'.acked = log.acked \cup {op.art} /\ log'.born = log.born
      BY <1>1, <2>1, <2>2, Typed DEF Log
    <2>4. upload' \in {upload, NoUpload} /\ (op.kind = "refer" => upload' = NoUpload)
          /\ (upload' # NoUpload => upload.art \notin log'.acked)
      BY <1>6, <2>1, <2>3 DEF IInv, Acknowledged, Making
    <2>5. log'.acked \subseteq log'.born
      BY <2>2, <2>3 DEF IInv, Acknowledged
    <2>6. records' \in [Artifacts -> Ages] /\ \A a \in Artifacts : records'[a] = 2 => records[a] = 2
      BY <1>1, Typed
    <2>7. log'.acked \subseteq file.arts \cap index'.text.arts
          /\ \A a \in log'.acked : a \in log.acked \/ records[a] # 2
      BY <1>3, <1>4, <2>2, <2>3
    <2>8. QED
      BY <1>1, <1>3, <2>1, <2>3, <2>4, <2>5, <2>6, <2>7, EndsKeeps
  <1>7. CASE op.kind \notin Making \cup {"remove"}
    <2>1. op' = NoOp /\ log' = log /\ upload' = upload /\ op.kind \notin Making
      BY <1>2, <1>7 DEF Making
    <2>2. log'.acked \subseteq file.arts \cap index'.text.arts
      BY <1>3, <1>4, <2>1
    <2>3. QED
      BY <1>1, <1>3, <2>1, <2>2, NothingMade, EndsKeeps
  <1>8. QED
    BY <1>5, <1>6, <1>7

LEMMA DeleteKeeps ==
  ASSUME IInv, Delete
  PROVE  IInv'
  <1>1. /\ TypeOK /\ op.at = "delete" /\ up /\ op.art \in Artifacts /\ op' = NoOp
        /\ records' = [records EXCEPT ![op.art] = Absent]
        /\ upload' = IF op.kind = "refer" THEN NoUpload ELSE upload
        /\ UNCHANGED <<file, ledgers, index, known, blobs, keeper, up, log>>
    BY DEF Delete, IInv, Queue
  <1>2. Absent \in Ages /\ Absent # 2 /\ op.at \notin Written
    BY <1>1 DEF Ages, Absent, Written
  <1>3. /\ records' \in [Artifacts -> Ages]
        /\ \A a \in Artifacts : records'[a] = 2 => records[a] = 2
    BY <1>1, <1>2, Typed
  <1>4. /\ log \in Log /\ log.acked \subseteq log.born
        /\ upload # NoUpload => upload.art \notin log.acked
    BY <1>1, Typed DEF IInv, Acknowledged
  <1>5. QED
    BY <1>1, <1>2, <1>3, <1>4, IndexStays, EndsKeeps

LEMMA ScanKeeps ==
  ASSUME IInv, Scan
  PROVE  IInv'
  <1>1. TypeOK /\ up /\ op = NoOp /\ op.kind = "none" /\ op.at = "ledger"
        /\ UNCHANGED <<file, ledgers, records, blobs, upload, keeper, up, log>>
    BY Typed DEF Scan, Free, IInv, Queue, shelf, others
  <1>2. CASE /\ op' = [NoOp EXCEPT !.kind = "scan", !.read = file, !.base = file,
                                   !.next = [file EXCEPT !.rev = @ + 1]]
             /\ UNCHANGED <<index, known>>
    <2>1. PICK next : next = [file EXCEPT !.rev = @ + 1]
      OBVIOUS
    <2>2. next \in Text /\ next.rev = file.rev + 1 /\ next.arts = file.arts
      <3>1. file \in Text /\ file.rev + 1 \in Nat
        BY <1>1, Typed DEF Text
      <3>2. QED
        BY <2>1, <3>1 DEF Text
    <2>3. op' = [NoOp EXCEPT !.kind = "scan", !.read = file, !.base = file, !.next = next]
      BY <1>2, <2>1
    <2>4. op' \in Op /\ op'.kind = "scan" /\ op'.at = "ledger" /\ op'.read = file
          /\ op'.next = next
      BY <1>1, <2>2, <2>3, Typed DEF Op
    <2>5. TypeOK'
      BY <1>1, <1>2, <2>4 DEF TypeOK
    <2>6. Queue' /\ Compared' /\ Retained'
      BY <1>1, <2>4 DEF IInv, Queue, Compared, Retained, Making
    <2>7. Ledgers'
      BY <1>1, <1>2, <2>2, <2>4 DEF IInv, Ledgers, Readable, Unwritten, Written
    <2>8. Acknowledged'
      BY <1>1, <1>2, <2>2, <2>4 DEF IInv, Acknowledged, Making, Written
    <2>9. QED
      BY <2>5, <2>6, <2>7, <2>8 DEF IInv
  <1>3. CASE index' = Copied(file) /\ known' = file /\ UNCHANGED op
    <2>1. op' = NoOp /\ index' \in [text : Text, valid : BOOLEAN] /\ index'.text = file
          /\ known' \in Text /\ op.kind \notin Making
      BY <1>1, <1>3, Typed DEF Copied, Readable, Making
    <2>2. log.acked \subseteq file.arts \cap index'.text.arts
      BY <2>1 DEF IInv, Acknowledged
    <2>3. QED
      BY <1>1, <2>1, <2>2, NothingMade, EndsKeeps
  <1>4. QED
    BY <1>2, <1>3 DEF Scan

-----------------------------------------------------------------------------
(***************************************************************************)
(* The environment.                                                        *)
(***************************************************************************)

LEMMA SaveKeeps ==
  ASSUME IInv, Save
  PROVE  IInv'
  <1>1. TypeOK /\ UNCHANGED <<ledgers, index, known, op, records, blobs, upload, keeper, up>>
        /\ log.saved < MaxEdits
    BY DEF Save, IInv, shelf, others
  <1>2. PICK e : e = log.saved + 1
    OBVIOUS
  <1>3. e \in Edits /\ e \in 0..MaxEdits
    BY <1>1, <1>2, Typed, BoundAssumption DEF Log, Edits
  <1>4. /\ file' = [file EXCEPT !.edits = @ \cup {e}]
        /\ log' = [log EXCEPT !.saved = e, !.unseen = IF op.at = "rename" THEN @ \cup {e} ELSE @]
    BY <1>2 DEF Save
  <1>5. file' \in Text /\ file'.rev = file.rev /\ file'.stamp = file.stamp
        /\ file'.arts = file.arts /\ file'.edits = file.edits \cup {e}
    BY <1>1, <1>3, <1>4, Typed DEF Text
  <1>6. /\ log' \in Log /\ log'.acked = log.acked /\ log'.born = log.born
        /\ log'.unseen = IF op.at = "rename" THEN log.unseen \cup {e} ELSE log.unseen
    BY <1>1, <1>3, <1>4, Typed DEF Log
  <1>7. TypeOK'
    BY <1>1, <1>5, <1>6 DEF TypeOK
  <1>8. Queue' /\ Retained'
    BY <1>1, <1>6 DEF IInv, Queue, Retained
  <1>9. Compared'
    BY <1>1, <1>5, <1>6 DEF IInv, Compared
  <1>10. LedgerOf(file)' = LedgerOf(file)
    BY <1>5 DEF LedgerOf
  <1>11. Ledgers'
    BY <1>1, <1>5, <1>10 DEF IInv, Ledgers, Readable
  <1>12. Acknowledged'
    BY <1>1, <1>5, <1>6 DEF IInv, Acknowledged
  <1>13. QED
    BY <1>7, <1>8, <1>9, <1>11, <1>12 DEF IInv

LEMMA CrashKeeps ==
  ASSUME IInv, Crash
  PROVE  IInv'
  <1>1. /\ TypeOK /\ log.crashes < MaxCrashes /\ up' = FALSE /\ op' = NoOp /\ upload' = NoUpload
        /\ keeper' = [k \in Keepers |-> Resting]
        /\ log' = [log EXCEPT !.crashes = @ + 1, !.unseen = {}]
        /\ UNCHANGED <<file, ledgers, index, known, records, blobs>>
    BY DEF Crash, IInv, shelf
  <1>2. log.crashes + 1 \in 0..MaxCrashes
    BY <1>1, Typed, BoundAssumption DEF Log
  <1>3. log' \in Log /\ log'.acked = log.acked /\ log'.born = log.born
    BY <1>1, <1>2, Typed DEF Log
  <1>4. /\ op'.kind = "none" /\ op'.at = "ledger" /\ op' \in Op
        /\ upload' \in [at : {"idle", "record", "queued"}, art : Artifacts \cup {NoArtifact}]
        /\ NoUpload.at = "idle" /\ keeper' \in [Keepers -> Pass] /\ Resting.at = "idle"
    BY <1>1, Typed
  <1>5. TypeOK'
    BY <1>1, <1>3, <1>4 DEF TypeOK
  <1>6. Queue' /\ Compared' /\ Retained'
    BY <1>1, <1>4 DEF Queue, Compared, Retained, Making
  <1>7. Ledgers'
    BY <1>1, <1>4 DEF IInv, Ledgers, Readable, Written
  <1>8. Acknowledged'
    BY <1>1, <1>3, <1>4 DEF IInv, Acknowledged, Making
  <1>9. QED
    BY <1>5, <1>6, <1>7, <1>8 DEF IInv

LEMMA RestartKeeps ==
  ASSUME IInv, Restart
  PROVE  IInv'
  <1>1. /\ TypeOK /\ ~ up /\ up' = TRUE /\ index' = Copied(file) /\ known' = file
        /\ op = NoOp /\ upload = NoUpload /\ op.kind = "none" /\ op.at = "ledger"
        /\ UNCHANGED <<file, ledgers, op, records, blobs, upload, keeper, log>>
    BY Typed DEF Restart, IInv, Queue, shelf
  <1>2. /\ index' \in [text : Text, valid : BOOLEAN] /\ index'.text = file /\ known' \in Text
    BY <1>1, Typed DEF Copied, Readable
  <1>3. TypeOK'
    BY <1>1, <1>2 DEF TypeOK
  <1>4. Queue' /\ Compared' /\ Retained'
    BY <1>1 DEF IInv, Queue, Compared, Retained, Making
  <1>5. Ledgers'
    BY <1>1, <1>2 DEF IInv, Ledgers, Readable, Written
  <1>6. Acknowledged'
    BY <1>1, <1>2 DEF IInv, Acknowledged, Making
  <1>7. QED
    BY <1>3, <1>4, <1>5, <1>6 DEF IInv

-----------------------------------------------------------------------------
(***************************************************************************)
(* The invariant.                                                          *)
(***************************************************************************)

LEMMA Initially == Init => IInv
  <1> SUFFICES ASSUME Init PROVE IInv
    OBVIOUS
  <1>1. First \in Text /\ First.rev = 1 /\ First.stamp = 1 /\ First.arts = {}
    BY DEF First, Text
  <1>2. NoOp \in Op /\ NoOp.kind = "none" /\ NoOp.at = "ledger"
    BY <1>1 DEF NoOp, Op
  <1>3. Resting \in Pass /\ Resting.at = "idle" /\ NoUpload.at = "idle"
        /\ NoUpload \in [at : {"idle", "record", "queued"}, art : Artifacts \cup {NoArtifact}]
    BY DEF Resting, Pass, NoUpload
  <1>4. IsFiniteSet(ledgers)
    BY FS_Singleton DEF Init
  <1>5. log \in Log /\ log.acked = {} /\ log.born = {}
    BY BoundAssumption DEF Init, Log
  <1>6. Absent \in Ages
    BY DEF Ages
  <1>7. TypeOK
    BY <1>1, <1>2, <1>3, <1>4, <1>5, <1>6 DEF Init, TypeOK
  <1>8. Queue /\ Compared /\ Retained
    BY <1>2, <1>3, <1>5 DEF Init, Queue, Compared, Retained, Making
  <1>9. Ledgers
    BY <1>1, <1>2 DEF Init, Ledgers, Readable, LedgerOf, Written
  <1>10. Acknowledged
    BY <1>1, <1>2, <1>3, <1>5 DEF Init, Acknowledged, Making
  <1>11. QED
    BY <1>7, <1>8, <1>9, <1>10 DEF IInv

LEMMA NextStep == IInv /\ [Next]_vars => IInv'
  <1> SUFFICES ASSUME IInv, [Next]_vars PROVE IInv'
    OBVIOUS
  <1>1. CASE Steps
    BY <1>1, ExternalizeKeeps, ExpectKeeps, CheckKeeps, RenameKeeps, PruneKeeps, LoadKeeps,
       DeleteKeeps, AttachRecordKeeps DEF Steps
  <1>2. CASE Scan \/ Uploading
    BY <1>2, ScanKeeps, UploadRecordKeeps, ReferKeeps, ReferFailsKeeps DEF Uploading
  <1>3. ASSUME NEW a \in Attachments, Attach(a) \/ Remove(a) PROVE IInv'
    BY <1>3, AttachKeeps, RemoveKeeps
  <1>4. ASSUME NEW a \in Uploads, Upload(a) PROVE IInv'
    BY <1>4, UploadKeeps
  <1>5. ASSUME NEW k \in Keepers, Maintain(k) \/ PassFails(k) PROVE IInv'
    BY <1>5, DiagnoseKeeps, RecoverKeeps, ListKeeps, CollectKeeps, EndKeeps DEF Maintain
  <1>6. CASE Save \/ Age \/ Crash \/ Restart
    BY <1>6, SaveKeeps, AgeKeeps, CrashKeeps, RestartKeeps
  <1>7. CASE UNCHANGED vars
    <2>1. TypeOK' /\ Queue' /\ Compared' /\ Retained'
      BY <1>7 DEF vars, IInv, TypeOK, Queue, Compared, Retained
    <2>2. Ledgers' /\ Acknowledged'
      BY <1>7 DEF vars, IInv, Ledgers, Readable, Acknowledged
    <2>3. QED
      BY <2>1, <2>2 DEF IInv
  <1>8. QED
    BY <1>1, <1>2, <1>3, <1>4, <1>5, <1>6, <1>7 DEF Next

LEMMA Invariant == Spec => []IInv
  BY Initially, NextStep, PTL DEF Spec

(* The tracker never leaves, at any step, a file whose run ledger is       *)
(* missing or another's; and no revision has two ledgers.                  *)
THEOREM LedgerThere == Spec => []LedgerReadable
  <1>1. IInv => LedgerReadable
    BY DEF IInv, Ledgers, LedgerReadable
  <1>2. QED
    BY <1>1, Invariant, PTL

(* A command overwrites a change people saved only if it was saved after   *)
(* the command last compared the file.                                     *)
THEOREM CommandsCompare == Spec => EditsKept
  <1>1. IInv /\ [Next]_vars
        => [op.at = "rename" /\ op.kind # "scan" /\ file' # file
              => file.edits \ file'.edits \subseteq log.unseen]_vars
    <2> SUFFICES ASSUME IInv, [Next]_vars, op.at = "rename", op.kind # "scan", file' # file
                 PROVE  file.edits \ file'.edits \subseteq log.unseen
      OBVIOUS
    <2>1. CASE Rename
      BY <2>1 DEF Rename, IInv, Compared
    <2>2. CASE Save
      <3>1. PICK e : file' = [file EXCEPT !.edits = @ \cup {e}]
        BY <2>2 DEF Save
      <3>2. file \in Text
        BY Typed DEF IInv
      <3>3. file.edits \subseteq file'.edits
        BY <3>1, <3>2 DEF Text
      <3>4. QED
        BY <3>3
    <2>3. Rename \/ Save
      <3>1. Steps => Rename \/ UNCHANGED file
        BY DEF Steps, Externalize, Expect, Check, Prune, Load, Delete, AttachRecord
      <3>2. Scan \/ Uploading => UNCHANGED file
        BY DEF Scan, Uploading, UploadRecord, Refer, ReferFails
      <3>3. /\ \A a \in Attachments : Attach(a) \/ Remove(a) => UNCHANGED file
            /\ \A a \in Uploads : Upload(a) => UNCHANGED file
        BY DEF Attach, Remove, Upload
      <3>4. \A k \in Keepers : Maintain(k) \/ PassFails(k) => UNCHANGED file
        BY DEF Maintain, Diagnose, Recover, List, Collect, Report, PassFails
      <3>5. Age \/ Crash \/ Restart \/ UNCHANGED vars => UNCHANGED file
        BY DEF Age, Crash, Restart, vars
      <3>6. QED
        BY <3>1, <3>2, <3>3, <3>4, <3>5 DEF Next
    <2>4. QED
      BY <2>1, <2>2, <2>3
  <1>2. QED
    BY <1>1, Invariant, PTL DEF Spec, EditsKept

-----------------------------------------------------------------------------
(***************************************************************************)
(* What a step may delete.                                                 *)
(***************************************************************************)

LEMMA PutKeeps ==
  ASSUME IInv, NEW a \in Artifacts, PutBlob(a), UNCHANGED records, NEW x \in Artifacts, Stored(x)
  PROVE  Stored(x)'
  <1>1. blobs \in [Blobs -> Ages] /\ BlobOf(x) \in Blobs
    BY Typed, BlobAssumption DEF IInv
  <1>2. QED
    BY <1>1 DEF PutBlob, Stored

LEMMA RecordKeeps ==
  ASSUME IInv, NEW a \in Artifacts, NEW age \in Ages, records' = [records EXCEPT ![a] = age],
         UNCHANGED blobs, NEW x \in Artifacts, Stored(x), a # x \/ age # Absent
  PROVE  Stored(x)'
  <1>1. records \in [Artifacts -> Ages]
    BY Typed DEF IInv
  <1>2. QED
    BY <1>1 DEF Stored

(* A pass that could read the ticket deletes nothing acknowledged.         *)
LEMMA CollectSpares ==
  ASSUME IInv, NEW k \in Keepers, Collect(k), ~ keeper[k].blind, NEW a \in log.acked, Stored(a)
  PROVE  Stored(a)'
  <1>1. a \in Artifacts /\ BlobOf(a) \in Blobs
    BY Typed, BlobAssumption DEF IInv, Log
  <1>2. a \in keeper[k].refs \/ records[a] # 2
    BY DEF Collect, IInv, Retained
  <1>3. a \notin Expired(keeper[k].refs)
    BY <1>2 DEF Expired
  <1>4. a \in Kept(keeper[k].refs)
    BY <1>1, <1>3 DEF Kept, Stored
  <1>5. records'[a] = records[a]
    BY <1>1, <1>3 DEF Collect
  <1>6. blobs'[BlobOf(a)] = blobs[BlobOf(a)]
    BY <1>1, <1>4 DEF Collect
  <1>7. QED
    BY <1>5, <1>6 DEF Stored

(* What is stored for an acknowledged artifact goes only when a pass       *)
(* listed the references while the tracker could not read the ticket.      *)
THEOREM EvidenceStays == Spec => EvidenceKept
  <1>1. IInv /\ [Next]_vars
        => [\A a \in log.acked : Stored(a) /\ ~Stored(a)'
              => \E k \in Keepers : keeper[k].blind /\ keeper[k].at = "collect"]_vars
    <2> SUFFICES ASSUME IInv, [Next]_vars, NEW a \in log.acked, Stored(a),
                        \A k \in Keepers : keeper[k].at = "collect" => ~ keeper[k].blind
                 PROVE  Stored(a)'
      OBVIOUS
    <2>1. a \in Artifacts /\ TypeOK /\ Absent \in Ages /\ 0 \in Ages /\ Absent # 0
      BY Typed DEF IInv, Log, Ages, Absent
    <2>2. UNCHANGED <<records, blobs>> => Stored(a)'
      BY DEF Stored
    <2>3. CASE Steps
      <3>1. CASE AttachRecord
        <4>1. op.art \in Artifacts /\ records' = [records EXCEPT ![op.art] = 0] /\ UNCHANGED blobs
          BY <3>1 DEF AttachRecord, PutRecord, IInv, Queue, Making
        <4>2. QED
          BY <2>1, <4>1, RecordKeeps
      <3>2. CASE Delete
        <4>1. /\ op.art \in Artifacts /\ op.art # a /\ UNCHANGED blobs
              /\ records' = [records EXCEPT ![op.art] = Absent]
          BY <3>2 DEF Delete, IInv, Queue, Acknowledged
        <4>2. QED
          BY <2>1, <4>1, RecordKeeps
      <3>3. CASE Externalize \/ Expect \/ Check \/ Rename \/ Prune \/ Load
        BY <2>2, <3>3 DEF Externalize, Expect, Check, Rename, Prune, Load, shelf
      <3>4. QED
        BY <2>3, <3>1, <3>2, <3>3 DEF Steps
    <2>4. CASE Scan \/ Refer
      BY <2>2, <2>4 DEF Scan, Refer, shelf
    <2>5. CASE UploadRecord
      <3>1. upload.art \in Artifacts /\ records' = [records EXCEPT ![upload.art] = 0]
            /\ UNCHANGED blobs
        BY <2>1, <2>5, Typed DEF UploadRecord, PutRecord, IInv, Queue
      <3>2. QED
        BY <2>1, <3>1, RecordKeeps
    <2>6. CASE ReferFails
      <3>1. upload # NoUpload
        BY <2>1, <2>6, Typed DEF ReferFails
      <3>2. /\ upload.art \in Artifacts /\ upload.art # a /\ UNCHANGED blobs
            /\ records' = [records EXCEPT ![upload.art] = Absent]
        BY <2>6, <3>1 DEF ReferFails, IInv, Queue, Acknowledged
      <3>3. QED
        BY <2>1, <3>2, RecordKeeps
    <2>7. ASSUME NEW x \in Attachments, Attach(x) PROVE Stored(a)'
      BY <2>1, <2>7, PutKeeps DEF Attach, Artifacts
    <2>8. ASSUME NEW x \in Attachments, Remove(x) PROVE Stored(a)'
      BY <2>2, <2>8 DEF Remove, shelf
    <2>9. ASSUME NEW x \in Uploads, Upload(x) PROVE Stored(a)'
      BY <2>1, <2>9, PutKeeps DEF Upload, Artifacts
    <2>10. ASSUME NEW k \in Keepers, Maintain(k) \/ PassFails(k) PROVE Stored(a)'
      <3>1. CASE Diagnose(k) \/ List(k) \/ Report(k) \/ PassFails(k)
                 \/ \E x \in Artifacts : Recover(k, x)
        BY <2>2, <3>1 DEF Diagnose, List, Report, PassFails, Recover, shelf
      <3>2. CASE Collect(k)
        BY <3>2, CollectSpares DEF Collect
      <3>3. QED
        BY <2>10, <3>1, <3>2 DEF Maintain
    <2>11. CASE Age
      <3>1. records'[a] = Older(records[a]) /\ blobs'[BlobOf(a)] = Older(blobs[BlobOf(a)])
        BY <2>1, <2>11, BlobAssumption DEF Age
      <3>2. records[a] \in Ages /\ blobs[BlobOf(a)] \in Ages
        BY <2>1, Typed, BlobAssumption
      <3>3. QED
        BY <3>1, <3>2 DEF Stored, Older, Ages, Absent
    <2>12. CASE Save \/ Crash \/ Restart \/ UNCHANGED vars
      BY <2>2, <2>12 DEF Save, Crash, Restart, vars, shelf
    <2>13. QED
      BY <2>3, <2>4, <2>5, <2>6, <2>7, <2>8, <2>9, <2>10, <2>11, <2>12 DEF Next, Uploading
  <1>2. QED
    BY <1>1, Invariant, PTL DEF Spec, EvidenceKept
=============================================================================
