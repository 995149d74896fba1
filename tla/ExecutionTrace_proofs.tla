------------------------ MODULE ExecutionTrace_proofs ------------------------
(***************************************************************************)
(* Theorems about ExecutionTrace, for every size of a batch and a ticket,  *)
(* every content, and every number of events, recorders and faults.        *)
(***************************************************************************)
EXTENDS ExecutionTrace, FiniteSetTheorems, SequenceTheorems, WellFoundedInduction, TLAPS

(***************************************************************************)
(* The inductive invariant.                                                *)
(***************************************************************************)

Answers == {"sent", "done", "failed", "conflict"}
Append_ == [op : {"append"}, at : Answers, trace : Traces, first : Sequence, last : Sequence,
            completed : BOOLEAN]
Upload_ == [op : {"upload"}, at : Answers, of : Evidence]
Finalize_ == [op : {"finalize"}, at : Answers]
Call == Append_ \cup Upload_ \cup Finalize_

RecorderType == [trace : 0..MaxTraces, next : Nat \ {0}, pending : Seq(Sequence),
                 closed : BOOLEAN, timer : BOOLEAN]

Tracked == /\ run \in [status : {"running", "completed"}, manifest : (SUBSET Evidence) \cup {None}]
           /\ chunks \subseteq Chunk /\ orphans \subseteq Orphan /\ evidence \subseteq Evidence
           /\ IsFiniteSet(chunks) /\ IsFiniteSet(evidence) /\ Stored <= Capacity
Waiting == /\ calls \in [Callers -> Call \cup {None}]
           /\ calls["flush"] \in Append_ \cup {None}
           /\ calls["main"] \in Upload_ \cup Finalize_ \cup {None}
Shapes == /\ TypeOK /\ Tracked /\ rec \in RecorderType
          /\ why \in Dispositions \cup {None} /\ Waiting /\ late \subseteq Call

(* How many events the assignment may still record before it is over.      *)
E == MaxEvents
K == Cardinality(Kinds)
Counted ==
    /\ pc = "starting" => rec.next <= 2
    /\ pc = "working" => rec.next <= E + K + 2
    /\ pc = "capture" => rec.next + Cardinality(todo)
                         <= IF why = "question" THEN E + K + 2 ELSE E + 2 * K + 3
    /\ pc \in {"finalize", "close"} => rec.next <= E + 2 * K + 3
    /\ rec.next <= E + 2 * K + 4

(* The assignment and its recorder: nothing is under way when it is over,  *)
(* and nothing is recorded after the closing event.                        *)
Wound ==
    /\ pc = "off" => flushes = <<>>
    /\ pc # "off" => rec.next > 1 /\ rec.trace > 0
    /\ rec.timer => pc \notin {"off", "closing"}
    /\ pc = "capture" => why \in Dispositions
    /\ rec.closed => pc \in {"off", "closing"}
    /\ \A i \in 1..Len(flushes) : flushes[i] => rec.closed
    /\ calls["main"] # None /\ calls["main"].op = "upload"
       => pc = "capture" /\ calls["main"].of.kind \in todo

(* What the recorder holds is the end of its trace, and what it no longer  *)
(* holds is stored; the call under way carries what it holds first.        *)
Acked == rec.next - 1 - Len(rec.pending)
StoredAt(t, e) == \E c \in Of(t) : c.first <= e /\ e <= c.last
Pending ==
    /\ Acked \in Nat
    /\ \A i \in 1..Len(rec.pending) : rec.pending[i] = Acked + i
    /\ \A e \in 1..Acked : StoredAt(rec.trace, e)
    /\ calls["flush"] # None =>
         /\ flushes # <<>> /\ calls["flush"].trace = rec.trace
         /\ calls["flush"].first = Acked + 1
         /\ calls["flush"].last < rec.next
         /\ calls["flush"].at = "done" =>
              \E c \in Of(rec.trace) : /\ c.first = calls["flush"].first
                                       /\ c.last = calls["flush"].last

(* Batches stored, or that may still be.                                   *)
Batches == chunks \cup orphans \cup {f \in late : f.op = "append"} \cup ({calls["flush"]} \ {None})

(* Two of them that do not begin together do not overlap.                  *)
Current(f) == f.trace = rec.trace /\ rec.next > 1
Marked == /\ \A f \in Batches :
               /\ f.trace <= rec.trace /\ f.first <= f.last /\ f.last < f.first + BatchSize
               /\ Current(f) => /\ f.last < rec.next
                                /\ f.completed <=> rec.closed /\ f.last = rec.next - 1
          /\ \A f, g \in Batches : f.trace = g.trace /\ f.completed => g.last <= f.last
          /\ \A f, g \in Batches : f.trace = g.trace /\ f.first < g.first => f.last < g.first

(* A batch that begins with what the recorder holds first is at most as    *)
(* long as the call under way, and others have ended before.               *)
Grown == \A f \in Batches : Current(f) =>
             /\ f.first <= Acked + 1 /\ (f.first <= Acked => f.last <= Acked)
             /\ f.first = Acked + 1 /\ calls["flush"] # None => f.last <= calls["flush"].last

(* The batches of a trace follow one another, and where two overlap one of *)
(* them was reattached; what may be reattached follows one too.            *)
Follower(c) == c.first = 1 \/ \E d \in Of(c.trace) : d.last = c.first - 1
Apart(c, d) == \/ c = d \/ c.last < d.first \/ d.last < c.first
               \/ c.first = d.first /\ (c.recovered \/ d.recovered)
Chained == /\ \A c \in chunks \cup orphans : Follower(c)
           /\ \A c \in chunks : \A d \in Of(c.trace) : Apart(c, d)

IInv == Shapes /\ Counted /\ Wound /\ Pending /\ Marked /\ Grown /\ Chained

Faults == faults \in 0..MaxFaults

-----------------------------------------------------------------------------
(***************************************************************************)
(* Numbers, sets and sequences.                                            *)
(***************************************************************************)

LEMMA Typed ==
  ASSUME IInv
  PROVE  /\ BatchSize \in Nat \ {0} /\ Capacity \in Nat /\ E \in Nat /\ K \in Nat
         /\ Sequence = 1..(E + 2 * K + 4)
         /\ rec \in RecorderType /\ rec.next \in Nat \ {0} /\ rec.trace \in Nat
         /\ Len(rec.pending) \in Nat
         /\ \A i \in 1..Len(rec.pending) : rec.pending[i] \in Sequence
         /\ IsFiniteSet(todo) /\ Cardinality(todo) \in Nat /\ Cardinality(todo) <= K
         /\ Len(flushes) \in Nat
  <1>1. K \in Nat /\ IsFiniteSet(Kinds)
    BY KindsAssumption, FS_CardinalityType DEF K
  <1>2. IsFiniteSet(todo) /\ Cardinality(todo) <= K
    BY <1>1, FS_Subset DEF IInv, Shapes, TypeOK, K
  <1>3. Cardinality(todo) \in Nat
    BY <1>2, FS_CardinalityType
  <1>4. rec \in RecorderType /\ flushes \in Seq(BOOLEAN)
    BY DEF IInv, Shapes, TypeOK
  <1>5. rec.pending \in Seq(Sequence) /\ rec.next \in Nat \ {0} /\ rec.trace \in 0..MaxTraces
    BY <1>4 DEF RecorderType
  <1>6. Len(rec.pending) \in Nat /\ \A i \in 1..Len(rec.pending) : rec.pending[i] \in Sequence
    BY <1>5
  <1>7. Sequence = 1..(E + 2 * K + 4)
    BY DEF Sequence, E, K
  <1>8. QED
    BY <1>1, <1>2, <1>3, <1>4, <1>5, <1>6, <1>7, BoundAssumption DEF E

LEMMA Fixed == E' = E /\ K' = K
  BY DEF E, K

(* A bounded set of naturals that is not empty has a largest element.      *)
LEMMA LargestNatural ==
  ASSUME NEW S \in SUBSET Nat, S # {}, NEW n \in Nat, \A x \in S : x <= n
  PROVE  \E m \in S : \A x \in S : x <= m
  <1> DEFINE B == {b \in Nat : \A x \in S : x <= b}
             less == OpToRel(<, Nat)
  <1>1. IsWellFoundedOn(less, Nat)
    BY NatLessThanWellFounded
  <1>2. \A x, y \in Nat : x < y => <<x, y>> \in less
    BY DEF OpToRel
  <1>3. B \subseteq Nat /\ n \in B
    OBVIOUS
  <1> HIDE DEF B, less
  <1>4. PICK b \in B : \A c \in B : <<c, b>> \notin less
    BY <1>1, <1>3, WFMin
  <1>5. \A c \in B : b <= c
    <2>1. SUFFICES ASSUME NEW c \in B PROVE b <= c
      OBVIOUS
    <2>2. b \in Nat /\ c \in Nat
      BY <1>3
    <2>3. ~ (c < b)
      BY <1>2, <1>4, <2>2, Zenon
    <2>4. QED
      BY <2>2, <2>3
  <1>6. b \in S
    <2>1. SUFFICES ASSUME b \notin S PROVE FALSE
      OBVIOUS
    <2>2. b \in Nat /\ \A x \in S : x <= b /\ x # b /\ x \in Nat
      BY <2>1 DEF B
    <2>3. PICK x \in S : x \in Nat /\ x <= b /\ x # b
      BY <2>2
    <2>4. b - 1 \in Nat /\ \A y \in S : y <= b - 1
      BY <2>2, <2>3
    <2>5. b - 1 \in B
      BY <2>4 DEF B
    <2>6. QED
      BY <1>5, <2>2, <2>5
  <1>7. QED
    BY <1>6 DEF B

(* A trace is expected to go on after a batch that begins last.            *)
LEMMA ExpectedNext ==
  ASSUME IInv, NEW t
  PROVE  /\ Of(t) = {} => Expected(t) = 1
         /\ Of(t) # {} => \E d \in Of(t) : /\ Expected(t) = 1 + d.last
                                           /\ \A c \in Of(t) : c.first <= d.first
  <1>1. CASE Of(t) = {}
    BY <1>1 DEF Expected
  <1>2. CASE Of(t) # {}
    <2> DEFINE F == {c.first : c \in Of(t)}
               P == {c.place : c \in Latest(t)}
               n == E + 2 * K + 4
               m == CHOOSE c \in Latest(t) : \A d \in Latest(t) : d.place <= c.place
    <2>1. \A c \in Of(t) : c.first \in Sequence /\ c.place \in 1..Capacity
      BY DEF Of, IInv, Shapes, TypeOK, Chunk
    <2>2. n \in Nat /\ \A x \in Sequence : x \in Nat /\ x <= n
      BY SMTT(60), Typed
    <2>3. F \in SUBSET Nat /\ F # {} /\ \A x \in F : x <= n
      BY <1>2, <2>1, <2>2
    <2>4. \E x \in F : \A y \in F : y <= x
      BY <2>2, <2>3, LargestNatural
    <2>5. Latest(t) # {} /\ Latest(t) \subseteq Of(t)
      BY <2>4 DEF Latest
    <2>6. P \in SUBSET Nat /\ P # {} /\ Capacity \in Nat /\ \A x \in P : x <= Capacity
      BY <2>1, <2>5, BoundAssumption
    <2>7. \E x \in P : \A y \in P : y <= x
      BY <2>6, LargestNatural
    <2>8. \E c \in Latest(t) : \A d \in Latest(t) : d.place <= c.place
      BY <2>7
    <2>9. m \in Latest(t)
      BY <2>8
    <2>10. Expected(t) = 1 + m.last
      BY <1>2 DEF Expected
    <2> HIDE DEF m
    <2>11. QED
      BY <1>2, <2>5, <2>9, <2>10 DEF Latest
  <1>3. QED
    BY <1>1, <1>2

(* One more element makes a set larger by at most one.                     *)
LEMMA OneMore ==
  ASSUME NEW S, IsFiniteSet(S), NEW x
  PROVE  /\ IsFiniteSet(S \cup {x})
         /\ Cardinality(S) \in Nat /\ Cardinality(S \cup {x}) \in Nat
         /\ Cardinality(S \cup {x}) <= Cardinality(S) + 1
  <1>1. IsFiniteSet(S \cup {x})
    BY FS_AddElement
  <1>2. Cardinality(S) \in Nat /\ Cardinality(S \cup {x}) \in Nat
    BY <1>1, FS_CardinalityType
  <1>3. Cardinality(S \cup {x}) = Cardinality(S) \/ Cardinality(S \cup {x}) = Cardinality(S) + 1
    BY FS_AddElement
  <1>4. QED
    BY <1>1, <1>2, <1>3

(* Evidence that is dealt with leaves one less to upload.                  *)
LEMMA OneLess ==
  ASSUME IInv, NEW k \in todo
  PROVE  /\ todo \ {k} \subseteq Kinds
         /\ Cardinality(todo \ {k}) \in Nat
         /\ Cardinality(todo) = Cardinality(todo \ {k}) + 1
  <1>1. IsFiniteSet(todo) /\ Cardinality(todo) \in Nat
    BY Typed
  <1>2. IsFiniteSet(todo \ {k}) /\ Cardinality(todo \ {k}) = Cardinality(todo) - 1
    BY <1>1, FS_RemoveElement
  <1>3. Cardinality(todo \ {k}) \in Nat
    BY <1>2, FS_CardinalityType
  <1>4. QED
    BY <1>1, <1>2, <1>3 DEF IInv, Shapes, TypeOK

-----------------------------------------------------------------------------
(***************************************************************************)
(* What several actions do.                                                *)
(***************************************************************************)

(* A recorder that notes an event holds it last.                           *)
LEMMA NotedFields ==
  ASSUME NEW r \in RecorderType
  PROVE  /\ Noted(r).trace = r.trace /\ Noted(r).next = r.next + 1
         /\ Noted(r).pending = Append(r.pending, r.next) /\ Noted(r).closed = r.closed
         /\ Noted(r).timer \in BOOLEAN
         /\ r.next \in Sequence => Noted(r) \in RecorderType
  <1> DEFINE s == [r EXCEPT !.next = @ + 1, !.pending = Append(@, r.next)]
  <1>1. Noted(r) = [s EXCEPT !.timer = ~ Filled(s)]
    BY DEF Noted
  <1>2. (~ Filled(s)) \in BOOLEAN
    BY DEF Filled
  <1>3. PICK x, y, z : x = r.next + 1 /\ y = Append(r.pending, r.next) /\ z = (~ Filled(s))
    OBVIOUS
  <1>4. Noted(r) = [[r EXCEPT !.next = x, !.pending = y] EXCEPT !.timer = z]
    BY <1>1, <1>3
  <1>5. x \in Nat \ {0} /\ (r.next \in Sequence => y \in Seq(Sequence))
    BY <1>3 DEF RecorderType
  <1>6. /\ Noted(r).trace = r.trace /\ Noted(r).next = x
        /\ Noted(r).pending = y /\ Noted(r).closed = r.closed
        /\ Noted(r).timer = z
    BY <1>4 DEF RecorderType
  <1>7. y \in Seq(Sequence) => Noted(r) \in RecorderType
    BY <1>2, <1>3, <1>4, <1>5 DEF RecorderType
  <1>8. QED
    BY <1>2, <1>3, <1>5, <1>6, <1>7

(* An event more at the end of what the recorder holds.                    *)
LEMMA OneEvent ==
  ASSUME IInv, rec'.trace = rec.trace, rec'.next = rec.next + 1,
         rec'.pending = Append(rec.pending, rec.next),
         chunks' = chunks, calls'["flush"] = calls["flush"],
         flushes # <<>> => flushes' # <<>>
  PROVE  Pending'
  <1>1. /\ rec.pending \in Seq(Sequence) /\ rec.next \in Nat \ {0}
        /\ Len(rec.pending) \in Nat
    BY Typed DEF RecorderType
  <1>2. Len(rec'.pending) = Len(rec.pending) + 1
    BY <1>1, Typed
  <1>3. Acked' = Acked /\ Acked \in Nat
    BY <1>1, <1>2 DEF Acked, IInv, Pending
  <1>4. \A i \in 1..Len(rec'.pending) : rec'.pending[i] = Acked' + i
    <2>1. SUFFICES ASSUME NEW i \in 1..Len(rec'.pending)
                   PROVE  rec'.pending[i] = Acked + i
      BY <1>3
    <2>2. CASE i = Len(rec.pending) + 1
      <3>1. rec'.pending[i] = rec.next
        BY <1>1, <2>2
      <3>2. rec.next = Acked + i
        BY <1>1, <2>2 DEF Acked
      <3>3. QED
        BY <3>1, <3>2
    <2>3. CASE i # Len(rec.pending) + 1
      <3>1. i \in 1..Len(rec.pending)
        BY <1>1, <1>2, <2>3
      <3>2. rec'.pending[i] = rec.pending[i]
        BY <1>1, <3>1
      <3>3. QED
        BY <3>1, <3>2 DEF IInv, Pending
    <2>4. QED
      BY <2>2, <2>3
  <1>5. \A e \in 1..Acked' : StoredAt(rec.trace, e)'
    BY <1>3 DEF StoredAt, Of, IInv, Pending
  <1>6. calls["flush"] # None =>
         /\ flushes # <<>> /\ calls["flush"].trace = rec.trace
         /\ calls["flush"].first = Acked + 1
         /\ calls["flush"].last < rec.next /\ calls["flush"].last \in Nat
         /\ calls["flush"].at = "done" =>
              \E c \in Of(rec.trace) : /\ c.first = calls["flush"].first
                                       /\ c.last = calls["flush"].last
    <2>1. SUFFICES ASSUME calls["flush"] # None
                   PROVE  calls["flush"].last \in Nat
      BY DEF IInv, Pending
    <2>2. calls["flush"].last \in Sequence
      BY <2>1 DEF IInv, Shapes, Waiting, Append_
    <2>3. QED
      BY SMTT(60), <2>2, Typed
  <1>7. calls'["flush"] # None =>
         /\ flushes' # <<>> /\ calls'["flush"].trace = rec'.trace
         /\ calls'["flush"].first = Acked' + 1
         /\ calls'["flush"].last < rec'.next
         /\ calls'["flush"].at = "done" =>
              \E c \in Of(rec.trace) : /\ c.first = calls'["flush"].first
                                       /\ c.last = calls'["flush"].last
    BY <1>1, <1>3, <1>6
  <1>8. Of(rec.trace)' = Of(rec.trace)
    BY DEF Of
  <1>9. QED
    BY <1>3, <1>4, <1>5, <1>7, <1>8 DEF Pending

LEMMA BatchesTyped ==
  ASSUME IInv, NEW f \in Batches
  PROVE  /\ f.trace \in Traces /\ f.first \in Sequence /\ f.last \in Sequence
         /\ f.completed \in BOOLEAN /\ f.trace \in Nat /\ f.first \in Nat \ {0}
         /\ f.last \in Nat
  <1>1. Sequence \subseteq Nat \ {0} /\ Traces \subseteq Nat
    BY Typed, BoundAssumption DEF Traces
  <1>2. CASE f \in chunks
    BY <1>1, <1>2 DEF IInv, Shapes, TypeOK, Chunk
  <1>6. CASE f \in orphans
    BY <1>1, <1>6 DEF IInv, Shapes, TypeOK, Orphan
  <1>3. CASE f \in late /\ f.op = "append"
    <2>1. f \in Append_
      BY <1>3 DEF IInv, Shapes, Call, Append_, Upload_, Finalize_
    <2>2. QED
      BY <1>1, <2>1 DEF Append_
  <1>4. CASE f = calls["flush"] /\ f # None
    BY <1>1, <1>4 DEF IInv, Shapes, Waiting, Append_
  <1>5. QED
    BY <1>2, <1>3, <1>4, <1>6 DEF Batches

(* Batches that go on under the same bounds, beside the same call.         *)
LEMMA GrownFrom ==
  ASSUME IInv, rec'.trace = rec.trace, rec'.next > 1 => rec.next > 1, Acked' = Acked,
         calls'["flush"] # None =>
              calls["flush"] # None /\ calls'["flush"].last = calls["flush"].last,
         \A f \in Batches' : \E g \in Batches : /\ f.trace = g.trace /\ f.first = g.first
                                               /\ f.last = g.last
  PROVE  Grown'
  <1>1. SUFFICES ASSUME NEW f \in Batches', Current(f)'
                 PROVE  /\ f.first <= Acked + 1 /\ (f.first <= Acked => f.last <= Acked)
                        /\ f.first = Acked + 1 /\ calls'["flush"] # None
                             => f.last <= calls'["flush"].last
    BY DEF Grown
  <1>2. PICK g \in Batches : f.trace = g.trace /\ f.first = g.first /\ f.last = g.last
    OBVIOUS
  <1>3. Current(g)
    BY <1>1, <1>2 DEF Current
  <1>4. QED
    BY <1>2, <1>3 DEF IInv, Grown

(* A recorder that is not closed marks nothing, and what it adds comes     *)
(* after every batch.                                                      *)
LEMMA StillMarked ==
  ASSUME IInv, ~ rec.closed, rec.next > 1, rec'.trace = rec.trace, rec'.next = rec.next + 1,
         rec'.pending = Append(rec.pending, rec.next), chunks' = chunks, orphans' = orphans,
         late' = late, calls'["flush"] = calls["flush"]
  PROVE  Marked' /\ Grown'
  <1>1. Batches' = Batches
    BY DEF Batches
  <1>2. rec.next \in Nat
    BY Typed
  <1>3. \A f \in Batches :
          /\ f.trace <= rec'.trace /\ f.first <= f.last
          /\ f.trace = rec'.trace => f.last < rec'.next /\ f.last # rec'.next - 1 /\ ~ f.completed
    <2>1. TAKE f \in Batches
    <2>2. f.trace <= rec.trace /\ f.first <= f.last
      BY DEF IInv, Marked
    <2>3. f.last \in Nat /\ f.completed \in BOOLEAN
      BY BatchesTyped
    <2>4. f.trace = rec.trace => f.last < rec.next /\ ~ f.completed
      BY <2>3 DEF IInv, Marked, Current
    <2>5. QED
      BY <1>2, <2>2, <2>3, <2>4
  <1>4. \A f, g \in Batches : f.trace = g.trace /\ f.completed => g.last <= f.last
    BY DEF IInv, Marked
  <1>5. \A f \in Batches : f.completed \in BOOLEAN
    BY BatchesTyped
  <1>6. Marked'
    BY <1>1, <1>3, <1>4, <1>5 DEF IInv, Marked, Current
  <1>7. Acked' = Acked
    <2>1. rec.pending \in Seq(Sequence) /\ Len(rec.pending) \in Nat
      BY Typed DEF RecorderType
    <2>2. Len(rec'.pending) = Len(rec.pending) + 1
      BY <2>1
    <2>3. PICK l, x : l = Len(rec.pending) /\ x = rec.next
      OBVIOUS
    <2>4. Acked' = (x + 1) - 1 - (l + 1) /\ Acked = x - 1 - l
      BY <2>2, <2>3 DEF Acked
    <2>5. l \in Nat /\ x \in Nat
      BY <1>2, <2>1, <2>3
    <2>6. QED
      BY <2>4, <2>5
  <1>8. Grown'
    BY <1>1, <1>7, GrownFrom
  <1>9. QED
    BY <1>6, <1>8

(* Batches that go on under the same bounds and the same mark.             *)
LEMMA MarkedFrom ==
  ASSUME IInv, rec'.trace = rec.trace, rec'.next = rec.next, rec'.closed = rec.closed,
         \A f \in Batches' : \E g \in Batches : /\ f.trace = g.trace /\ f.first = g.first
                                               /\ f.last = g.last /\ f.completed = g.completed
  PROVE  Marked'
  <1>1. \A f \in Batches' :
               /\ f.trace <= rec'.trace /\ f.first <= f.last /\ f.last < f.first + BatchSize
               /\ f.trace = rec'.trace /\ rec'.next > 1
                    => /\ f.last < rec'.next
                       /\ f.completed <=> rec'.closed /\ f.last = rec'.next - 1
    <2>1. TAKE f \in Batches'
    <2>2. PICK g \in Batches : /\ f.trace = g.trace /\ f.first = g.first
                               /\ f.last = g.last /\ f.completed = g.completed
      OBVIOUS
    <2>3. QED
      BY <2>2 DEF IInv, Marked, Current
  <1>2. \A f, g \in Batches' : /\ f.trace = g.trace /\ f.completed => g.last <= f.last
                               /\ f.trace = g.trace /\ f.first < g.first => f.last < g.first
    <2>1. TAKE f, g \in Batches'
    <2>2. PICK x \in Batches : /\ f.trace = x.trace /\ f.first = x.first
                               /\ f.last = x.last /\ f.completed = x.completed
      OBVIOUS
    <2>3. PICK y \in Batches : /\ g.trace = y.trace /\ g.first = y.first
                               /\ g.last = y.last /\ g.completed = y.completed
      OBVIOUS
    <2>4. QED
      BY <2>2, <2>3 DEF IInv, Marked
  <1>3. QED
    BY <1>1, <1>2 DEF Marked, Current

(* What an action that records does to the recorder and its flushes.       *)
LEMMA Recorded ==
  ASSUME IInv, Record, pc \in {"working", "capture"}, rec.next \in Sequence,
         chunks' = chunks, orphans' = orphans, late' = late, calls'["flush"] = calls["flush"]
  PROVE  /\ rec' \in RecorderType /\ rec'.next = rec.next + 1 /\ rec'.trace = rec.trace
         /\ rec'.next \in Nat /\ ~ rec'.closed /\ rec'.next > 1 /\ rec'.trace > 0
         /\ flushes' \in Seq(BOOLEAN)
         /\ \A i \in 1..Len(flushes') : ~ flushes'[i]
         /\ Pending' /\ Marked' /\ Grown'
  <1>1. rec \in RecorderType /\ rec.next \in Nat /\ rec.trace \in Nat
    BY Typed
  <1>2. ~ rec.closed /\ rec.next > 1 /\ rec.trace > 0
    BY DEF IInv, Wound
  <1>3. /\ rec' \in RecorderType /\ rec'.next = rec.next + 1 /\ rec'.trace = rec.trace
        /\ rec'.closed = rec.closed /\ rec'.pending = Append(rec.pending, rec.next)
    BY <1>1, NotedFields DEF Record
  <1>4. flushes \in Seq(BOOLEAN) /\ Len(flushes) \in Nat /\ \A i \in 1..Len(flushes) : ~ flushes[i]
    BY <1>2, Typed DEF IInv, Shapes, TypeOK, Wound
  <1>5. flushes' = flushes \/ flushes' = Append(flushes, FALSE)
    BY DEF Record
  <1>6. /\ flushes' \in Seq(BOOLEAN) /\ \A i \in 1..Len(flushes') : ~ flushes'[i]
        /\ flushes # <<>> => flushes' # <<>>
    <2>1. CASE flushes' = flushes
      BY <1>4, <2>1
    <2>2. CASE flushes' = Append(flushes, FALSE)
      <3>1. /\ flushes' \in Seq(BOOLEAN) /\ Len(flushes') = Len(flushes) + 1
            /\ flushes'[Len(flushes) + 1] = FALSE
            /\ \A i \in 1..Len(flushes) : flushes'[i] = flushes[i]
        BY <1>4, <2>2
      <3>2. \A i \in 1..(Len(flushes) + 1) : i \in 1..Len(flushes) \/ i = Len(flushes) + 1
        BY <1>4
      <3>3. flushes' # <<>>
        BY <1>4, <3>1
      <3>4. QED
        BY <1>4, <3>1, <3>2, <3>3
    <2>3. QED
      BY <1>5, <2>1, <2>2
  <1>7. Pending'
    BY <1>3, <1>6, OneEvent
  <1>8. Marked' /\ Grown'
    BY <1>2, <1>3, StillMarked
  <1>9. QED
    BY <1>1, <1>2, <1>3, <1>6, <1>7, <1>8

LEMMA ChainedFrame ==
  ASSUME IInv, chunks' = chunks, orphans' = orphans
  PROVE  Chained'
  BY DEF IInv, Chained, Follower, Apart, Of

LEMMA TrackerFrame ==
  ASSUME IInv, UNCHANGED tracker
  PROVE  Tracked' /\ Chained'
  BY ChainedFrame DEF IInv, Shapes, Tracked, Stored, tracker

Places == {"off", "starting", "working", "capture", "finalize", "close", "closing"}

LEMMA ShapesOf ==
  ASSUME Tracked', rec' \in RecorderType, flushes' \in Seq(BOOLEAN), pc' \in Places,
         todo' \subseteq Kinds, why' \in Dispositions \cup {None}, Waiting', late' \subseteq Call
  PROVE  Shapes'
  <1> DEFINE M == (SUBSET Evidence) \cup {None}
  <1>a. run' \in [status : {"running", "completed"}, manifest : M]
    BY DEF Tracked
  <1>b. run'.status \in {"running", "completed"} /\ run'.manifest \in M
    BY <1>a
  <1>1. run'.status \in {"running", "completed"}
        /\ (run'.manifest = None \/ run'.manifest \subseteq Evidence)
    BY <1>b
  <1>2. TypeOK'
    BY <1>1 DEF TypeOK, Tracked, Places, RecorderType
  <1>3. QED
    BY <1>2 DEF Shapes

LEMMA Here ==
  ASSUME IInv
  PROVE  /\ flushes \in Seq(BOOLEAN) /\ pc \in Places /\ todo \subseteq Kinds
         /\ why \in Dispositions \cup {None} /\ Waiting /\ late \subseteq Call /\ Tracked
         /\ DOMAIN calls = Callers /\ "flush" \in Callers /\ "main" \in Callers
  BY DEF IInv, Shapes, TypeOK, Places, Waiting, Callers

(* The call of one part of the supervisor leaves that of the other alone.  *)
LEMMA FlushCall ==
  ASSUME IInv, NEW x \in Append_ \cup {None}, calls' = [calls EXCEPT !["flush"] = x]
  PROVE  Waiting' /\ calls'["flush"] = x /\ calls'["main"] = calls["main"]
  <1>1. x \in Call \cup {None}
    BY DEF Call
  <1>2. QED
    BY <1>1, Here DEF Waiting, Callers

LEMMA MainCall ==
  ASSUME IInv, NEW x \in Upload_ \cup Finalize_ \cup {None}, calls' = [calls EXCEPT !["main"] = x]
  PROVE  Waiting' /\ calls'["main"] = x /\ calls'["flush"] = calls["flush"]
  <1>1. x \in Call \cup {None}
    BY DEF Call
  <1>2. QED
    BY <1>1, Here DEF Waiting, Callers

LEMMA CallsFrame ==
  ASSUME IInv, calls' = calls
  PROVE  Waiting' /\ calls'["main"] = calls["main"] /\ calls'["flush"] = calls["flush"]
  BY DEF IInv, Shapes, Waiting

(* What the recorder holds, when neither it nor what is stored changes.    *)
LEMMA PendingFrame ==
  ASSUME IInv, rec'.trace = rec.trace, rec'.next = rec.next, rec'.pending = rec.pending,
         chunks' = chunks, calls'["flush"] = calls["flush"],
         flushes # <<>> => flushes' # <<>>
  PROVE  Pending'
  BY DEF IInv, Pending, Acked, StoredAt, Of

LEMMA MarkedFrame ==
  ASSUME IInv, rec'.trace = rec.trace, rec'.next = rec.next, rec'.closed = rec.closed,
         rec'.pending = rec.pending, chunks' = chunks, orphans' = orphans,
         calls'["flush"] = calls["flush"], late' = late
  PROVE  Marked' /\ Grown'
  <1>1. Batches' = Batches /\ Acked' = Acked
    BY DEF Batches, Acked
  <1>2. QED
    BY <1>1 DEF IInv, Marked, Grown, Current

-----------------------------------------------------------------------------
(***************************************************************************)
(* The assignment.                                                         *)
(***************************************************************************)

LEMMA WorkKeeps ==
  ASSUME IInv, Work
  PROVE  IInv'
  <1>1. rec.next \in Sequence
    BY Typed DEF Work, E
  <1>2. calls'["flush"] = calls["flush"] /\ Waiting' /\ calls'["main"] = calls["main"]
    BY CallsFrame DEF Work
  <1>3. /\ rec' \in RecorderType /\ rec'.next = rec.next + 1 /\ rec'.trace = rec.trace
        /\ rec'.next \in Nat /\ ~ rec'.closed /\ rec'.next > 1 /\ rec'.trace > 0
        /\ flushes' \in Seq(BOOLEAN) /\ \A i \in 1..Len(flushes') : ~ flushes'[i]
        /\ Pending' /\ Marked' /\ Grown'
    BY <1>1, <1>2, Recorded DEF Work, tracker
  <1>4. Tracked' /\ Chained'
    BY TrackerFrame DEF Work
  <1>5. Shapes'
    BY <1>2, <1>3, <1>4, ShapesOf, Here DEF Work, supervisor
  <1>6. Counted'
    <2>1. pc' = "working" /\ rec'.next <= E + 1
      BY SMTT(60), <1>3, Typed DEF Work, supervisor, E
    <2>2. QED
      BY SMTT(60), <2>1, <1>3, Typed, Fixed DEF Counted
  <1>7. Wound'
    BY <1>2, <1>3 DEF Wound, Work, supervisor, IInv
  <1>8. QED
    BY <1>3, <1>4, <1>5, <1>6, <1>7 DEF IInv

LEMMA FailKeeps ==
  ASSUME IInv, Fail
  PROVE  IInv'
  <1>1. rec.next \in Nat /\ rec.next <= E + K + 2
    BY Typed DEF Fail, IInv, Counted
  <1>2. rec.next \in Sequence
    BY SMTT(60), <1>1, Typed
  <1>3. calls'["flush"] = calls["flush"] /\ Waiting' /\ calls'["main"] = calls["main"]
    BY CallsFrame DEF Fail
  <1>4. /\ rec' \in RecorderType /\ rec'.next = rec.next + 1 /\ rec'.trace = rec.trace
        /\ rec'.next \in Nat /\ ~ rec'.closed /\ rec'.next > 1 /\ rec'.trace > 0
        /\ flushes' \in Seq(BOOLEAN) /\ \A i \in 1..Len(flushes') : ~ flushes'[i]
        /\ Pending' /\ Marked' /\ Grown'
    BY <1>2, <1>3, Recorded DEF Fail, tracker
  <1>5. Tracked' /\ Chained'
    BY TrackerFrame DEF Fail
  <1>6. pc' = "close" /\ "close" \in Places
    BY DEF Fail, Places
  <1>7. Shapes'
    BY <1>3, <1>4, <1>5, <1>6, ShapesOf, Here DEF Fail
  <1>8. Counted'
    BY SMTT(60), <1>1, <1>4, <1>6, Typed, Fixed DEF Counted
  <1>9. Wound'
    BY <1>3, <1>4, <1>6 DEF Wound, Fail, IInv
  <1>10. QED
    BY <1>4, <1>5, <1>7, <1>8, <1>9 DEF IInv

LEMMA WindUpKeeps ==
  ASSUME IInv, NEW d \in Dispositions \ {"question"}, WindUp(d)
  PROVE  IInv'
  <1>1. rec.next \in Nat /\ rec.next <= E + K + 2
    BY Typed DEF WindUp, IInv, Counted
  <1>2. rec.next \in Sequence
    BY <1>1, Typed
  <1>3. calls'["flush"] = calls["flush"] /\ Waiting' /\ calls'["main"] = calls["main"]
    BY CallsFrame DEF WindUp
  <1>4. /\ rec' \in RecorderType /\ rec'.next = rec.next + 1 /\ rec'.trace = rec.trace
        /\ rec'.next \in Nat /\ ~ rec'.closed /\ rec'.next > 1 /\ rec'.trace > 0
        /\ flushes' \in Seq(BOOLEAN) /\ \A i \in 1..Len(flushes') : ~ flushes'[i]
        /\ Pending' /\ Marked' /\ Grown'
    BY <1>2, <1>3, Recorded DEF WindUp
  <1>5. Tracked' /\ Chained'
    <2>1. Chained'
      BY ChainedFrame DEF WindUp
    <2>2. run' \in [status : {"running", "completed"}, manifest : (SUBSET Evidence) \cup {None}]
          /\ run'.manifest = run.manifest
      BY Here DEF WindUp, Tracked
    <2>3. Stored' = Stored
      BY <2>2 DEF Stored, WindUp
    <2>4. QED
      BY <2>1, <2>2, <2>3, Here DEF WindUp, Tracked
  <1>6. pc' = "capture" /\ "capture" \in Places /\ todo' = Kinds /\ why' = d
    BY DEF WindUp, Places
  <1>7. Shapes'
    BY <1>3, <1>4, <1>5, <1>6, ShapesOf, Here DEF WindUp
  <1>8. Counted'
    <2>1. Cardinality(todo') = K
      BY <1>6 DEF K
    <2>2. why' # "question"
      BY <1>6
    <2>3. E \in Nat /\ K \in Nat
      BY Typed
    <2>4. rec'.next <= E + K + 3 /\ rec'.next <= E + 2 * K + 4
      BY <1>1, <1>4, <2>3
    <2>5. rec'.next + Cardinality(todo') <= E + 2 * K + 3
      BY <1>4, <2>1, <2>3, <2>4
    <2>6. QED
      BY <1>6, <2>2, <2>4, <2>5, Fixed DEF Counted
  <1>9. Wound'
    BY <1>3, <1>4, <1>6 DEF Wound, WindUp, IInv
  <1>10. QED
    BY <1>4, <1>5, <1>7, <1>8, <1>9 DEF IInv

(* Evidence that is dealt with, whether it was uploaded or is not there.   *)
LEMMA DealtWith ==
  ASSUME IInv, pc = "capture", NEW k \in todo, todo' = todo \ {k}, Record,
         UNCHANGED <<tracker, pc, why, late>>, calls'["flush"] = calls["flush"],
         calls'["main"] = None, Waiting'
  PROVE  IInv'
  <1>1. /\ rec.next \in Nat /\ Cardinality(todo) \in Nat /\ E \in Nat /\ K \in Nat
        /\ why = "question" => rec.next + Cardinality(todo) <= E + K + 2
        /\ why # "question" => rec.next + Cardinality(todo) <= E + 2 * K + 3
    BY Typed DEF IInv, Counted
  <1>2. /\ todo' \subseteq Kinds /\ Cardinality(todo') \in Nat
        /\ Cardinality(todo) = Cardinality(todo') + 1
    BY OneLess
  <1>3. rec.next \in Sequence
    BY SMTT(60), <1>1, <1>2, Typed
  <1>4. /\ rec' \in RecorderType /\ rec'.next = rec.next + 1 /\ rec'.trace = rec.trace
        /\ rec'.next \in Nat /\ ~ rec'.closed /\ rec'.next > 1 /\ rec'.trace > 0
        /\ flushes' \in Seq(BOOLEAN) /\ \A i \in 1..Len(flushes') : ~ flushes'[i]
        /\ Pending' /\ Marked' /\ Grown'
    BY <1>3, Recorded DEF tracker
  <1>5. Tracked' /\ Chained'
    BY TrackerFrame
  <1>6. Shapes'
    BY <1>2, <1>4, <1>5, ShapesOf, Here
  <1>7. Counted'
    <2>1. rec'.next + Cardinality(todo') = rec.next + Cardinality(todo)
      <3>1. PICK m, n : m = Cardinality(todo) /\ n = Cardinality(todo')
        OBVIOUS
      <3>2. PICK x, y : x = rec.next /\ y = rec'.next
        OBVIOUS
      <3>3. m \in Nat /\ n \in Nat /\ x \in Nat /\ m = n + 1 /\ y = x + 1
        BY <1>1, <1>2, <1>4, <3>1, <3>2
      <3>4. y + n = x + m
        BY <3>3
      <3>5. QED
        BY <3>1, <3>2, <3>4
    <2>2. why' = why /\ pc' = "capture"
      OBVIOUS
    <2>3. rec'.next <= E + 2 * K + 4
      <3>1. rec.next + Cardinality(todo) <= E + 2 * K + 3
        BY <1>1
      <3>2. QED
        BY <1>1, <1>2, <1>4, <3>1
    <2>4. QED
      BY <1>1, <2>1, <2>2, <2>3, Fixed DEF Counted
  <1>8. Wound'
    BY <1>4 DEF Wound, IInv
  <1>9. QED
    BY <1>4, <1>5, <1>6, <1>7, <1>8 DEF IInv

LEMMA UnavailableKeeps ==
  ASSUME IInv, NEW k \in Kinds, Unavailable(k)
  PROVE  IInv'
  <1>1. Waiting' /\ calls'["main"] = None /\ calls'["flush"] = calls["flush"]
    BY CallsFrame DEF Unavailable
  <1>2. QED
    BY <1>1, DealtWith DEF Unavailable

LEMMA UploadedKeeps ==
  ASSUME IInv, Uploaded
  PROVE  IInv'
  <1>1. Waiting' /\ calls'["main"] = None /\ calls'["flush"] = calls["flush"]
    BY MainCall DEF Uploaded
  <1>2. pc = "capture" /\ calls["main"].of.kind \in todo
    BY DEF Uploaded, IInv, Wound
  <1>3. QED
    BY <1>1, <1>2, DealtWith DEF Uploaded

(* An action that leaves the recorder, its flushes and the tracker alone.  *)
LEMMA Aside ==
  ASSUME IInv, UNCHANGED <<tracker, rec, flushes, late>>, calls'["flush"] = calls["flush"]
  PROVE  /\ Tracked' /\ Chained' /\ Pending' /\ Marked' /\ Grown'
         /\ rec' \in RecorderType /\ flushes' \in Seq(BOOLEAN) /\ late' \subseteq Call
  <1>1. Tracked' /\ Chained'
    BY TrackerFrame
  <1>2. Pending' /\ Marked' /\ Grown'
    BY PendingFrame, MarkedFrame DEF tracker
  <1>3. QED
    BY <1>1, <1>2, Here, Typed

LEMMA StartKeeps ==
  ASSUME IInv, Start
  PROVE  IInv'
  <1> DEFINE new == Recorder(rec.trace + 1)
  <1>1. /\ rec.trace \in Nat /\ rec.trace + 1 \in 0..MaxTraces /\ MaxTraces \in Nat
        /\ E \in Nat /\ K \in Nat /\ Sequence = 1..(E + 2 * K + 4)
    <2>1. rec.trace < MaxTraces
      BY DEF Start
    <2>2. QED
      BY SMTT(60), <2>1, Typed, BoundAssumption
  <1>2. /\ new \in RecorderType /\ new.trace = rec.trace + 1 /\ new.next = 1
        /\ new.pending = <<>> /\ ~ new.closed /\ 1 \in Sequence
    BY <1>1 DEF Recorder, RecorderType
  <1> HIDE DEF new
  <1>3. PICK n : n = Noted(new)
    OBVIOUS
  <1>4. /\ n \in RecorderType /\ n.trace = rec.trace + 1 /\ n.next = 2
        /\ n.pending = Append(<<>>, 1) /\ ~ n.closed
    BY <1>2, <1>3, NotedFields
  <1>5. rec' = [n EXCEPT !.timer = FALSE]
    BY <1>3 DEF Start, new
  <1>6. /\ rec' \in RecorderType /\ rec'.trace = rec.trace + 1 /\ rec'.next = 2
        /\ rec'.pending = <<1>> /\ ~ rec'.closed /\ ~ rec'.timer
    <2>1. /\ rec' \in RecorderType /\ rec'.trace = n.trace /\ rec'.next = n.next
          /\ rec'.pending = n.pending /\ rec'.closed = n.closed /\ ~ rec'.timer
      BY <1>4, <1>5 DEF RecorderType
    <2>2. Append(<<>>, 1) = <<1>>
      OBVIOUS
    <2>3. QED
      BY <1>4, <2>1, <2>2
  <1>7. /\ flushes' \in Seq(BOOLEAN) /\ \A i \in 1..Len(flushes') : ~ flushes'[i]
        /\ pc' = "starting" /\ "starting" \in Places /\ todo' = {} /\ why' = None
    <2>1. /\ flushes' = <<FALSE, FALSE>> \/ flushes' = <<FALSE>>
          /\ pc' = "starting" /\ todo' = {} /\ why' = None
      BY DEF Start
    <2>2. CASE flushes' = <<FALSE, FALSE>>
      <3>1. /\ flushes' \in Seq(BOOLEAN) /\ Len(flushes') = 2
            /\ flushes'[1] = FALSE /\ flushes'[2] = FALSE
        BY <2>2
      <3>2. \A i \in 1..2 : i = 1 \/ i = 2
        OBVIOUS
      <3>3. QED
        BY <2>1, <3>1, <3>2 DEF Places
    <2>3. CASE flushes' = <<FALSE>>
      <3>1. flushes' \in Seq(BOOLEAN) /\ Len(flushes') = 1 /\ flushes'[1] = FALSE
        BY <2>3
      <3>2. \A i \in 1..1 : i = 1
        OBVIOUS
      <3>3. QED
        BY <2>1, <3>1, <3>2 DEF Places
    <2>4. QED
      BY <2>1, <2>2, <2>3
  <1>8. Waiting' /\ calls'["main"] = calls["main"] /\ calls'["flush"] = calls["flush"]
    BY CallsFrame DEF Start
  <1>9. Tracked' /\ Chained'
    BY TrackerFrame DEF Start
  <1>10. Shapes'
    BY <1>6, <1>7, <1>8, <1>9, ShapesOf, Here DEF Start
  <1>11. Counted'
    BY <1>1, <1>6, <1>7, Fixed DEF Counted
  <1>12. Wound'
    <2>1. pc = "off"
      BY DEF Start
    <2>2. ~ (calls["main"] # None /\ calls["main"].op = "upload")
      BY <2>1 DEF IInv, Wound
    <2>3. rec'.next > 1 /\ rec'.trace > 0
      BY <1>1, <1>6
    <2>4. QED
      BY <1>6, <1>7, <1>8, <2>2, <2>3 DEF Wound
  <1>13. Pending'
    <2>1. calls["flush"] = None
      BY DEF IInv, Wound, Pending, Start
    <2>2. Len(rec'.pending) = 1 /\ rec'.pending[1] = 1
      BY <1>6
    <2>3. Acked' = 0
      BY <1>6, <2>2 DEF Acked
    <2>4. QED
      BY <1>8, <2>1, <2>2, <2>3 DEF Pending
  <1>14. Marked' /\ Grown'
    <2>1. Batches' = Batches
      BY <1>8 DEF Batches, Start, tracker
    <2>2. \A f \in Batches : f.trace \in Nat /\ f.trace <= rec.trace
      BY BatchesTyped DEF IInv, Marked
    <2>3. \A f \in Batches : f.trace <= rec'.trace /\ f.trace # rec'.trace
      BY <1>1, <1>6, <2>2
    <2>4. QED
      BY <2>1, <2>3 DEF Marked, Grown, Current, IInv
  <1>15. QED
    BY <1>9, <1>10, <1>11, <1>12, <1>13, <1>14 DEF IInv

LEMMA StartedKeeps ==
  ASSUME IInv, Started
  PROVE  IInv'
  <1>1. Waiting' /\ calls'["main"] = calls["main"] /\ calls'["flush"] = calls["flush"]
    BY CallsFrame DEF Started
  <1>2. /\ Tracked' /\ Chained' /\ Pending' /\ Marked' /\ Grown'
        /\ rec' \in RecorderType /\ flushes' \in Seq(BOOLEAN) /\ late' \subseteq Call
    BY <1>1, Aside DEF Started
  <1>3. pc' = "working" /\ "working" \in Places /\ rec' = rec /\ flushes' = flushes
    BY DEF Started, Places
  <1>4. Shapes'
    BY <1>1, <1>2, <1>3, ShapesOf, Here DEF Started
  <1>5. Counted'
    <2>1. rec.next <= 2 /\ rec.next \in Nat /\ E \in Nat /\ K \in Nat
      BY Typed DEF IInv, Counted, Started
    <2>2. rec'.next <= E + K + 2 /\ rec'.next <= E + 2 * K + 4
      BY <1>3, <2>1
    <2>3. QED
      BY <1>3, <2>2, Fixed DEF Counted
  <1>6. Wound'
    BY <1>1, <1>3 DEF IInv, Wound, Started
  <1>7. QED
    BY <1>2, <1>4, <1>5, <1>6 DEF IInv

LEMMA QuestionKeeps ==
  ASSUME IInv, Question
  PROVE  IInv'
  <1>1. Waiting' /\ calls'["main"] = calls["main"] /\ calls'["flush"] = calls["flush"]
    BY CallsFrame DEF Question
  <1>2. /\ Tracked' /\ Chained' /\ Pending' /\ Marked' /\ Grown'
        /\ rec' \in RecorderType /\ flushes' \in Seq(BOOLEAN) /\ late' \subseteq Call
    BY <1>1, Aside DEF Question
  <1>3. /\ pc' = "capture" /\ "capture" \in Places /\ todo' = Kinds
        /\ why' = "question" /\ "question" \in Dispositions
        /\ rec' = rec /\ flushes' = flushes
    BY DEF Question, Places, Dispositions
  <1>4. Shapes'
    BY <1>1, <1>2, <1>3, ShapesOf, Here DEF Question
  <1>5. Counted'
    <2>1. rec.next <= E /\ rec.next \in Nat /\ E \in Nat /\ K \in Nat
      BY Typed DEF Question, E
    <2>2. Cardinality(todo') = K
      BY <1>3 DEF K
    <2>3. rec'.next + Cardinality(todo') <= E + K + 2 /\ rec'.next <= E + 2 * K + 4
      BY <1>3, <2>1, <2>2
    <2>4. QED
      BY <1>3, <2>3, Fixed DEF Counted
  <1>6. Wound'
    BY <1>1, <1>3 DEF IInv, Wound, Question
  <1>7. QED
    BY <1>2, <1>4, <1>5, <1>6 DEF IInv

LEMMA UploadKeeps ==
  ASSUME IInv, NEW k \in Kinds, Upload(k)
  PROVE  IInv'
  <1>1. PICK x \in Contents :
          calls' = [calls EXCEPT !["main"] = [op |-> "upload", at |-> "sent", of |->
                               [kind |-> k, key |-> why, content |-> x]]]
    BY DEF Upload
  <1>2. PICK f : f = [op |-> "upload", at |-> "sent", of |->
                               [kind |-> k, key |-> why, content |-> x]]
    OBVIOUS
  <1>3. why \in Dispositions /\ pc = "capture" /\ k \in todo
    BY DEF IInv, Wound, Upload
  <1>4. f \in Upload_ /\ f.of.kind = k
    BY <1>2, <1>3 DEF Upload_, Evidence, Answers
  <1>5. Waiting' /\ calls'["main"] = f /\ calls'["flush"] = calls["flush"]
    BY <1>1, <1>2, <1>4, MainCall
  <1>6. /\ Tracked' /\ Chained' /\ Pending' /\ Marked' /\ Grown'
        /\ rec' \in RecorderType /\ flushes' \in Seq(BOOLEAN) /\ late' \subseteq Call
    BY <1>5, Aside DEF Upload
  <1>7. /\ pc' = "capture" /\ rec' = rec /\ flushes' = flushes /\ todo' = todo /\ why' = why
    BY <1>3 DEF Upload, supervisor
  <1>8. Shapes'
    BY <1>3, <1>5, <1>6, <1>7, ShapesOf, Here
  <1>9. Counted'
    BY <1>3, <1>7, Fixed DEF IInv, Counted
  <1>10. Wound'
    BY <1>3, <1>4, <1>5, <1>7 DEF IInv, Wound
  <1>11. QED
    BY <1>6, <1>8, <1>9, <1>10 DEF IInv

LEMMA CapturedKeeps ==
  ASSUME IInv, Captured
  PROVE  IInv'
  <1>1. /\ Waiting' /\ calls'["flush"] = calls["flush"]
        /\ calls'["main"] # None /\ calls'["main"].op = "upload"
             => calls'["main"] = calls["main"]
    <2>1. CASE UNCHANGED calls
      BY <2>1, CallsFrame
    <2>2. CASE calls' = [calls EXCEPT !["main"] = [op |-> "finalize", at |-> "sent"]]
      <3>1. PICK f : f = [op |-> "finalize", at |-> "sent"]
        OBVIOUS
      <3>2. f \in Finalize_ /\ f.op # "upload"
        BY <3>1 DEF Finalize_, Answers
      <3>3. QED
        BY <2>2, <3>1, <3>2, MainCall
    <2>3. QED
      BY <2>1, <2>2 DEF Captured
  <1>2. /\ Tracked' /\ Chained' /\ Pending' /\ Marked' /\ Grown'
        /\ rec' \in RecorderType /\ flushes' \in Seq(BOOLEAN) /\ late' \subseteq Call
    BY <1>1, Aside DEF Captured
  <1>3. /\ pc = "capture" /\ todo = {} /\ todo' = todo /\ why' = None
        /\ rec' = rec /\ flushes' = flushes
        /\ pc' \in {"working", "close", "finalize"} /\ pc' \in Places
        /\ pc' = "working" => why = "question"
    BY DEF Captured, Places
  <1>4. Shapes'
    BY <1>1, <1>2, <1>3, ShapesOf, Here
  <1>5. Counted'
    <2>1. rec.next \in Nat /\ E \in Nat /\ K \in Nat /\ Cardinality(todo) = 0
      BY <1>3, Typed, FS_EmptySet
    <2>2. /\ why = "question" => rec.next + Cardinality(todo) <= E + K + 2
          /\ why # "question" => rec.next + Cardinality(todo) <= E + 2 * K + 3
      BY <1>3 DEF IInv, Counted
    <2>3. /\ why = "question" => rec.next <= E + K + 2
          /\ rec.next <= E + 2 * K + 3 /\ rec.next <= E + 2 * K + 4
      BY <2>1, <2>2
    <2>4. QED
      BY <1>3, <2>3, Fixed DEF Counted
  <1>6. Wound'
    <2>1. ~ (calls["main"] # None /\ calls["main"].op = "upload")
      BY <1>3 DEF IInv, Wound
    <2>2. QED
      BY <1>1, <1>3, <2>1 DEF IInv, Wound
  <1>7. QED
    BY <1>2, <1>4, <1>5, <1>6 DEF IInv

LEMMA FinalizedKeeps ==
  ASSUME IInv, Finalized
  PROVE  IInv'
  <1>1. Waiting' /\ calls'["main"] = None /\ calls'["flush"] = calls["flush"]
    BY MainCall DEF Finalized
  <1>2. /\ Tracked' /\ Chained' /\ Pending' /\ Marked' /\ Grown'
        /\ rec' \in RecorderType /\ flushes' \in Seq(BOOLEAN) /\ late' \subseteq Call
    BY <1>1, Aside DEF Finalized
  <1>3. /\ pc = "finalize" /\ pc' = "close" /\ "close" \in Places
        /\ rec' = rec /\ flushes' = flushes
    BY DEF Finalized, Places
  <1>4. Shapes'
    BY <1>1, <1>2, <1>3, ShapesOf, Here DEF Finalized
  <1>5. Counted'
    BY <1>3, Fixed DEF IInv, Counted
  <1>6. Wound'
    BY <1>1, <1>3 DEF IInv, Wound
  <1>7. QED
    BY <1>2, <1>4, <1>5, <1>6 DEF IInv

LEMMA ClosedKeeps ==
  ASSUME IInv, Closed
  PROVE  IInv'
  <1>1. Waiting' /\ calls'["main"] = calls["main"] /\ calls'["flush"] = calls["flush"]
    BY CallsFrame DEF Closed
  <1>2. /\ Tracked' /\ Chained' /\ Pending' /\ Marked' /\ Grown'
        /\ rec' \in RecorderType /\ flushes' \in Seq(BOOLEAN) /\ late' \subseteq Call
    BY <1>1, Aside DEF Closed
  <1>3. /\ pc = "closing" /\ pc' = "off" /\ "off" \in Places
        /\ rec' = rec /\ flushes' = flushes /\ flushes = <<>>
    BY DEF Closed, Places
  <1>4. Shapes'
    BY <1>1, <1>2, <1>3, ShapesOf, Here DEF Closed
  <1>5. Counted'
    BY <1>3, Fixed DEF IInv, Counted
  <1>6. Wound'
    BY <1>1, <1>3 DEF IInv, Wound
  <1>7. QED
    BY <1>2, <1>4, <1>5, <1>6 DEF IInv

LEMMA CloseKeeps ==
  ASSUME IInv, Close
  PROVE  IInv'
  <1>1. /\ rec \in RecorderType /\ rec.next \in Nat /\ rec.next <= E + 2 * K + 3
        /\ rec.trace \in Nat /\ E \in Nat /\ K \in Nat /\ rec.next \in Sequence
    <2>1. rec.next <= E + 2 * K + 3
      BY DEF IInv, Counted, Close
    <2>2. QED
      BY <2>1, Typed
  <1>2. PICK n : n = Noted(rec)
    OBVIOUS
  <1>3. /\ n \in RecorderType /\ n.trace = rec.trace /\ n.next = rec.next + 1
        /\ n.pending = Append(rec.pending, rec.next)
    BY <1>1, <1>2, NotedFields
  <1>4. rec' = [n EXCEPT !.closed = TRUE, !.timer = FALSE]
    BY <1>2 DEF Close
  <1>5. /\ rec' \in RecorderType /\ rec'.trace = rec.trace /\ rec'.next = rec.next + 1
        /\ rec'.pending = Append(rec.pending, rec.next) /\ rec'.closed /\ ~ rec'.timer
    BY <1>3, <1>4 DEF RecorderType
  <1>6. /\ ~ rec.closed /\ rec.next > 1 /\ rec.trace > 0
        /\ pc' = "closing" /\ "closing" \in Places
    BY DEF IInv, Wound, Close, Places
  <1>7. flushes' \in Seq(BOOLEAN) /\ flushes' # <<>>
    <2>1. PICK g \in Seq(BOOLEAN) : flushes' = g \o <<TRUE>>
      <3>1. flushes \in Seq(BOOLEAN) /\ Append(flushes, FALSE) \in Seq(BOOLEAN)
        BY Here
      <3>2. QED
        BY <3>1 DEF Close
    <2>2. flushes' \in Seq(BOOLEAN) /\ Len(flushes') = Len(g) + 1 /\ Len(g) \in Nat
      BY <2>1
    <2>3. QED
      BY <2>2
  <1>8. Waiting' /\ calls'["main"] = calls["main"] /\ calls'["flush"] = calls["flush"]
    BY CallsFrame DEF Close
  <1>9. Tracked' /\ Chained'
    BY TrackerFrame DEF Close
  <1>10. Shapes'
    BY <1>5, <1>6, <1>7, <1>8, <1>9, ShapesOf, Here DEF Close
  <1>11. Counted'
    BY <1>1, <1>5, <1>6, Fixed DEF Counted
  <1>12. Wound'
    BY <1>1, <1>5, <1>6, <1>8 DEF IInv, Wound, Close
  <1>13. Pending'
    BY <1>5, <1>7, <1>8, OneEvent DEF Close, tracker
  <1>14. Marked' /\ Grown'
    BY <1>5, <1>6, <1>8, StillMarked DEF Close, tracker
  <1>15. QED
    BY <1>9, <1>10, <1>11, <1>12, <1>13, <1>14 DEF IInv

-----------------------------------------------------------------------------
(***************************************************************************)
(* The recorder.                                                           *)
(***************************************************************************)

(* Places and counts that an action leaves as they are.                    *)
LEMMA CountedFrame ==
  ASSUME IInv, UNCHANGED supervisor, rec'.next = rec.next
  PROVE  Counted'
  BY Fixed DEF IInv, Counted, supervisor

(* Flushes that ask for no mark but of a recorder that is closed.          *)
LEMMA WoundFrame ==
  ASSUME IInv, UNCHANGED supervisor, rec'.next = rec.next, rec'.trace = rec.trace,
         rec'.closed = rec.closed, rec'.timer => rec.timer,
         pc = "off" => flushes' = <<>>,
         \A i \in 1..Len(flushes') : flushes'[i] => rec.closed,
         calls'["main"] = calls["main"]
  PROVE  Wound'
  BY DEF IInv, Wound, supervisor

LEMMA TimerKeeps ==
  ASSUME IInv, Timer
  PROVE  IInv'
  <1>1. /\ rec \in RecorderType /\ flushes \in Seq(BOOLEAN) /\ Len(flushes) \in Nat
        /\ ~ rec.closed /\ pc # "off" /\ \A i \in 1..Len(flushes) : ~ flushes[i]
    BY Typed, Here DEF IInv, Wound, Timer
  <1>2. rec' = [rec EXCEPT !.timer = FALSE]
    BY DEF Timer
  <1>3. /\ rec' \in RecorderType /\ rec'.trace = rec.trace /\ rec'.next = rec.next
        /\ rec'.pending = rec.pending /\ rec'.closed = rec.closed /\ ~ rec'.timer
    BY <1>1, <1>2 DEF RecorderType
  <1>4. /\ flushes' \in Seq(BOOLEAN) /\ flushes' # <<>>
        /\ \A i \in 1..Len(flushes') : ~ flushes'[i]
    <2>1. flushes' = Append(flushes, FALSE)
      BY DEF Timer
    <2>2. /\ flushes' \in Seq(BOOLEAN) /\ Len(flushes') = Len(flushes) + 1
          /\ flushes'[Len(flushes) + 1] = FALSE
          /\ \A i \in 1..Len(flushes) : flushes'[i] = flushes[i]
      BY <1>1, <2>1
    <2>3. \A i \in 1..(Len(flushes) + 1) : i \in 1..Len(flushes) \/ i = Len(flushes) + 1
      BY <1>1
    <2>4. flushes' # <<>>
      BY <1>1, <2>2
    <2>5. QED
      BY <1>1, <2>2, <2>3, <2>4
  <1>5. Waiting' /\ calls'["main"] = calls["main"] /\ calls'["flush"] = calls["flush"]
    BY CallsFrame DEF Timer
  <1>6. Tracked' /\ Chained'
    BY TrackerFrame DEF Timer
  <1>7. Shapes'
    BY <1>3, <1>4, <1>5, <1>6, ShapesOf, Here DEF Timer, supervisor
  <1>8. Counted' /\ Wound'
    BY <1>1, <1>3, <1>4, <1>5, CountedFrame, WoundFrame DEF Timer
  <1>9. Pending' /\ Marked' /\ Grown'
    BY <1>3, <1>4, <1>5, PendingFrame, MarkedFrame DEF Timer, tracker
  <1>10. QED
    BY <1>6, <1>7, <1>8, <1>9 DEF IInv

(* The rest of the flushes asks for no more than all of them.              *)
LEMMA FewerFlushes ==
  ASSUME IInv, flushes # <<>>, flushes' = Tail(flushes)
  PROVE  /\ flushes' \in Seq(BOOLEAN)
         /\ \A i \in 1..Len(flushes') : flushes'[i] => rec.closed
         /\ pc # "off"
  <1>1. flushes \in Seq(BOOLEAN) /\ Len(flushes) \in Nat
    BY Typed, Here
  <1>2. /\ flushes' \in Seq(BOOLEAN) /\ Len(flushes') = Len(flushes) - 1
        /\ \A i \in 1..Len(flushes') : flushes'[i] = flushes[i + 1]
    BY <1>1
  <1>3. \A i \in 1..Len(flushes') : i + 1 \in 1..Len(flushes)
    BY <1>1, <1>2
  <1>4. QED
    BY <1>2, <1>3 DEF IInv, Wound

LEMMA FlushedKeeps ==
  ASSUME IInv, Flushed
  PROVE  IInv'
  <1>1. /\ flushes' \in Seq(BOOLEAN) /\ pc # "off"
        /\ \A i \in 1..Len(flushes') : flushes'[i] => rec.closed
    BY FewerFlushes DEF Flushed
  <1>2. Waiting' /\ calls'["main"] = calls["main"] /\ calls'["flush"] = calls["flush"]
    BY CallsFrame DEF Flushed
  <1>3. Tracked' /\ Chained'
    BY TrackerFrame DEF Flushed
  <1>4. rec' = rec
    BY DEF Flushed
  <1>5. Shapes'
    BY <1>1, <1>2, <1>3, <1>4, ShapesOf, Here, Typed DEF Flushed, supervisor
  <1>6. Counted' /\ Wound'
    BY <1>1, <1>2, <1>4, CountedFrame, WoundFrame DEF Flushed
  <1>7. Marked' /\ Grown'
    BY <1>2, <1>4, MarkedFrame DEF Flushed, tracker
  <1>8. Pending'
    BY <1>2, <1>4 DEF IInv, Pending, Acked, StoredAt, Of, Flushed, tracker
  <1>9. QED
    BY <1>3, <1>5, <1>6, <1>7, <1>8 DEF IInv

LEMMA SendKeeps ==
  ASSUME IInv, Send
  PROVE  IInv'
  <1> DEFINE p == rec.pending
             n == IF Filled(rec) THEN BatchSize ELSE Len(p)
  <1>1. /\ p \in Seq(Sequence) /\ Len(p) \in Nat \ {0} /\ BatchSize \in Nat \ {0}
        /\ rec.next \in Nat /\ Acked \in Nat /\ rec.trace \in Nat
    BY Typed DEF IInv, Pending, Send, RecorderType
  <1>2. n \in 1..Len(p)
    BY <1>1 DEF Filled
  <1>3. Batch = SubSeq(p, 1, n)
    BY DEF Batch
  <1> HIDE DEF n
  <1>4. /\ Batch \in Seq(Sequence) /\ Len(Batch) = n
        /\ \A i \in 1..n : Batch[i] = p[i]
    BY <1>1, <1>2, <1>3
  <1>5. Head(Batch) = p[1] /\ Batch[Len(Batch)] = p[n]
    BY <1>1, <1>2, <1>4
  <1>6. PICK f : f = [op |-> "append", at |-> "sent", trace |-> rec.trace,
                      first |-> Head(Batch), last |-> Batch[Len(Batch)],
                      completed |-> Final(Batch)]
    OBVIOUS
  <1>7. /\ f.op = "append" /\ f.at = "sent" /\ f.trace = rec.trace
        /\ f.first = Acked + 1 /\ f.last = Acked + n /\ n <= BatchSize
    <2>1. n <= BatchSize
      BY <1>1 DEF n, Filled
    <2>2. QED
      BY <1>1, <1>2, <1>5, <1>6, <2>1 DEF IInv, Pending
  <1>8. /\ f.first <= f.last /\ f.last < rec.next
        /\ (n = Len(p)) <=> (f.last = rec.next - 1)
    BY SMTT(60), <1>1, <1>2, <1>7 DEF Acked
  <1>9. Final(Batch) <=> rec.closed /\ f.last = rec.next - 1
    <2>1. flushes # <<>> /\ flushes \in Seq(BOOLEAN)
      BY Here DEF Send
    <2>2. Head(flushes) = flushes[1] /\ 1 \in 1..Len(flushes)
      BY <2>1
    <2>3. Head(flushes) => rec.closed
      BY <2>2 DEF IInv, Wound
    <2>4. f.last = Batch[Len(Batch)]
      BY <1>6
    <2>5. QED
      BY <1>4, <1>8, <2>3, <2>4 DEF Final
  <1>10. f \in Append_ /\ f.completed = Final(Batch)
    <2>1. rec.trace \in Traces
      <3>1. rec.trace > 0 /\ rec.trace \in 0..MaxTraces
        BY Here, Typed DEF IInv, Wound, Send, RecorderType
      <3>2. QED
        BY <3>1, BoundAssumption DEF Traces
    <2>2. Head(Batch) \in Sequence /\ Batch[Len(Batch)] \in Sequence
      BY <1>1, <1>2, <1>5
    <2>3. Final(Batch) \in BOOLEAN
      BY DEF Final
    <2>4. QED
      BY <1>6, <2>1, <2>2, <2>3 DEF Append_, Answers
  <1>11. Waiting' /\ calls'["main"] = calls["main"] /\ calls'["flush"] = f
    BY <1>6, <1>10, FlushCall DEF Send
  <1>12. Tracked' /\ Chained'
    BY TrackerFrame DEF Send
  <1>13. rec' = rec /\ flushes' = flushes /\ late' = late /\ chunks' = chunks
        /\ orphans' = orphans
    BY DEF Send, tracker
  <1>14. Shapes'
    BY <1>11, <1>12, <1>13, ShapesOf, Here, Typed DEF Send, supervisor
  <1>15. Counted' /\ Wound'
    <2>1. /\ \A i \in 1..Len(flushes) : flushes[i] => rec.closed
          /\ pc = "off" => flushes = <<>>
      BY DEF IInv, Wound
    <2>2. QED
      BY <1>11, <1>13, <2>1, CountedFrame, WoundFrame DEF Send
  <1>16. Pending'
    <2>1. flushes # <<>> /\ f.at # "done"
      BY <1>7 DEF Send
    <2>2. QED
      BY <1>7, <1>8, <1>11, <1>13, <2>1 DEF IInv, Pending, Acked, StoredAt, Of
  <1>17. Marked'
    <2>1. \A g \in Batches' : g = f \/ g \in Batches
      BY <1>11, <1>13 DEF Batches
    <2>2. \A g \in Batches :
            /\ g.trace <= rec.trace /\ g.first <= g.last
            /\ g.trace = rec.trace => g.last < rec.next
            /\ g.trace = rec.trace /\ g.completed => g.last = rec.next - 1
      <3>1. rec.next > 1
        BY Here DEF IInv, Wound, Send
      <3>2. QED
        BY <3>1 DEF IInv, Marked, Current
    <2>3. \A g \in Batches : g.last \in Nat
      BY BatchesTyped
    <2>4. \A g \in Batches' :
            /\ g.trace <= rec.trace /\ g.first <= g.last /\ g.last < g.first + BatchSize
            /\ g.trace = rec.trace /\ rec.next > 1 =>
                 /\ g.last < rec.next
                 /\ g.completed <=> rec.closed /\ g.last = rec.next - 1
      <3>1. f.last < f.first + BatchSize
        BY <1>1, <1>2, <1>7
      <3>2. QED
        BY <1>1, <1>7, <1>8, <1>9, <1>10, <2>1, <3>1 DEF IInv, Marked, Current
    <2>5. \A g, h \in Batches' : g.trace = h.trace /\ g.completed => h.last <= g.last
      <3>1. SUFFICES ASSUME NEW g \in Batches', NEW h \in Batches',
                            g.trace = h.trace, g.completed
                     PROVE  h.last <= g.last
        OBVIOUS
      <3>2. CASE g \in Batches /\ h \in Batches
        BY <3>1, <3>2 DEF IInv, Marked
      <3>3. CASE g = f /\ h = f
        <4>1. f.last \in Nat
          BY <1>1, <1>2, <1>7
        <4>2. QED
          BY <3>3, <4>1
      <3>4. CASE g = f /\ h \in Batches
        <4>1. f.last = rec.next - 1
          BY <1>9, <1>10, <3>1, <3>4
        <4>2. h.last < rec.next /\ h.last \in Nat
          BY <1>7, <2>2, <2>3, <3>1, <3>4
        <4>3. QED
          BY <1>1, <3>4, <4>1, <4>2
      <3>5. CASE g \in Batches /\ h = f
        <4>1. g.last = rec.next - 1
          BY <1>7, <2>2, <3>1, <3>5
        <4>2. f.last < rec.next /\ f.last \in Nat
          BY <1>1, <1>2, <1>7, <1>8
        <4>3. QED
          BY <1>1, <3>5, <4>1, <4>2
      <3>6. QED
        BY <2>1, <3>2, <3>3, <3>4, <3>5
    <2>6. \A g \in Batches : g.trace = rec.trace =>
              g.first <= Acked + 1 /\ (g.first <= Acked => g.last <= Acked)
      BY <1>13, Here DEF IInv, Grown, Current, Wound, Send
    <2>7. \A g \in Batches : g.first \in Nat
      BY BatchesTyped
    <2>8. \A g, h \in Batches' : g.trace = h.trace /\ g.first < h.first => g.last < h.first
      <3>1. SUFFICES ASSUME NEW g \in Batches', NEW h \in Batches',
                            g.trace = h.trace, g.first < h.first
                     PROVE  g.last < h.first
        OBVIOUS
      <3>2. CASE g \in Batches /\ h \in Batches
        BY <3>1, <3>2 DEF IInv, Marked
      <3>3. CASE g = f /\ h = f
        BY <1>1, <1>7, <3>1, <3>3
      <3>4. CASE g = f /\ h \in Batches
        BY <1>1, <1>7, <2>6, <2>7, <3>1, <3>4
      <3>5. CASE g \in Batches /\ h = f
        BY <1>1, <1>7, <2>3, <2>6, <2>7, <3>1, <3>5
      <3>6. QED
        BY <2>1, <3>2, <3>3, <3>4, <3>5
    <2>9. QED
      BY <1>13, <2>4, <2>5, <2>8 DEF Marked, Current
  <1>18. Grown'
    <2>1. Acked' = Acked
      BY <1>13 DEF Acked
    <2>2. SUFFICES ASSUME NEW g \in Batches', g.trace = rec.trace
                   PROVE  /\ g.first <= Acked + 1 /\ (g.first <= Acked => g.last <= Acked)
                          /\ g.first = Acked + 1 => g.last <= f.last
      BY <1>11, <1>13, <2>1 DEF Grown, Current
    <2>3. CASE g = f
      BY <1>1, <1>2, <1>7, <2>3
    <2>4. CASE g \in Batches
      <3>1. /\ g.first \in Nat /\ g.last \in Nat /\ g.last < g.first + BatchSize
            /\ g.last < rec.next
            /\ g.first <= Acked + 1 /\ (g.first <= Acked => g.last <= Acked)
        BY <2>2, <2>4, BatchesTyped, Here DEF IInv, Marked, Grown, Current, Wound, Send
      <3>2. rec.next = Acked + Len(p) + 1
        BY <1>1 DEF Acked
      <3>3. n = BatchSize \/ n = Len(p)
        BY DEF n
      <3>4. QED
        BY <1>1, <1>2, <1>7, <3>1, <3>2, <3>3
    <2>5. QED
      BY <1>11, <1>13, <2>3, <2>4 DEF Batches
  <1>19. QED
    BY <1>12, <1>14, <1>15, <1>16, <1>17, <1>18 DEF IInv

LEMMA AcknowledgedKeeps ==
  ASSUME IInv, Acknowledged
  PROVE  IInv'
  <1> DEFINE p == rec.pending
  <1>1. PICK f : f = calls["flush"]
    OBVIOUS
  <1>2. /\ f # None /\ f \in Append_ /\ f.first \in Nat /\ f.last \in Nat
        /\ flushes # <<>> /\ f.trace = rec.trace /\ f.first = Acked + 1 /\ f.last < rec.next
    <2>1. f # None
      BY <1>1 DEF Acknowledged
    <2>2. f \in Batches
      BY <1>1, <2>1 DEF Batches
    <2>3. f.first \in Nat /\ f.last \in Nat
      BY <2>2, BatchesTyped
    <2>4. QED
      BY <1>1, <2>1, <2>3, Here DEF IInv, Pending, Waiting
  <1>3. /\ p \in Seq(Sequence) /\ Len(p) \in Nat /\ rec.next \in Nat /\ Acked \in Nat
        /\ rec \in RecorderType
    BY Typed DEF IInv, Pending, RecorderType
  <1>4. f.first <= f.last
    BY <1>1, <1>2 DEF IInv, Marked, Batches
  <1>5. Waiting' /\ calls'["main"] = calls["main"] /\ calls'["flush"] = None
    BY FlushCall DEF Acknowledged
  <1>6. Tracked' /\ Chained'
    BY TrackerFrame DEF Acknowledged
  <1>7. /\ rec' \in RecorderType /\ rec'.trace = rec.trace /\ rec'.next = rec.next
        /\ rec'.closed = rec.closed /\ rec'.timer = rec.timer
        /\ flushes' \in Seq(BOOLEAN) /\ (pc = "off" => flushes' = <<>>)
        /\ \A i \in 1..Len(flushes') : flushes'[i] => rec.closed
        /\ Pending' /\ (Acked' = Acked \/ Acked' = f.last)
    <2>1. CASE f.at = "done"
      <3>1. PICK q : q = SubSeq(p, f.last - f.first + 2, Len(p))
        OBVIOUS
      <3>2. f.last - f.first + 2 \in 1..(Len(p) + 1)
        BY SMTT(60), <1>2, <1>3, <1>4 DEF Acked
      <3>3. /\ q \in Seq(Sequence) /\ Len(q) = Len(p) - (f.last - f.first + 1)
            /\ \A i \in 1..Len(q) : q[i] = p[i + f.last - f.first + 1]
        <4>1. PICK m : m = f.last - f.first + 2
          OBVIOUS
        <4>2. m \in 1..(Len(p) + 1) /\ m \in Int /\ q = SubSeq(p, m, Len(p))
          BY <3>1, <3>2, <4>1
        <4>3. /\ q \in Seq(Sequence) /\ Len(q) = Len(p) - m + 1
              /\ \A i \in 1..Len(q) : q[i] = p[m + i - 1]
          BY <1>3, <4>2, SubSeqProperties
        <4>4. Len(q) = Len(p) - (f.last - f.first + 1)
          BY <1>2, <1>3, <4>1, <4>3
        <4>5. \A i \in Nat : m + i - 1 = i + f.last - f.first + 1
          BY <1>2, <4>1
        <4>6. QED
          BY <4>3, <4>4, <4>5
      <3>4. rec' = [rec EXCEPT !.pending = q] /\ flushes' = flushes
        BY <1>1, <2>1, <3>1 DEF Acknowledged
      <3>5. /\ rec' \in RecorderType /\ rec'.trace = rec.trace /\ rec'.next = rec.next
            /\ rec'.closed = rec.closed /\ rec'.timer = rec.timer /\ rec'.pending = q
        BY <1>3, <3>3, <3>4 DEF RecorderType
      <3>6. Acked' = f.last
        <4>1. Acked' = rec'.next - 1 - Len(rec'.pending) /\ Acked = rec.next - 1 - Len(p)
          BY DEF Acked
        <4>2. Len(rec'.pending) = Len(p) - (f.last - f.first + 1)
          BY <3>3, <3>5
        <4>3. PICK a, l, n : a = Acked /\ l = Len(p) /\ n = rec.next
          OBVIOUS
        <4>4. a \in Nat /\ l \in Nat /\ n \in Nat /\ a = n - 1 - l /\ f.first = a + 1
          BY <1>2, <1>3, <4>1, <4>3
        <4>5. n - 1 - (l - (f.last - f.first + 1)) = f.last
          BY <1>2, <4>4
        <4>6. QED
          BY <3>5, <4>1, <4>2, <4>3, <4>5
      <3>7. \A i \in 1..Len(q) : q[i] = f.last + i
        <4>1. TAKE i \in 1..Len(q)
        <4>2. i + f.last - f.first + 1 \in 1..Len(p)
          BY SMTT(60), <1>2, <1>3, <1>4, <3>3
        <4>3. p[i + f.last - f.first + 1] = Acked + (i + f.last - f.first + 1)
          BY <4>2 DEF IInv, Pending
        <4>4. i \in Nat
          OBVIOUS
        <4>5. Acked + (i + f.last - f.first + 1) = f.last + i
          BY <1>2, <1>3, <4>4
        <4>6. QED
          BY <3>3, <4>3, <4>5
      <3>8. \A e \in 1..f.last : StoredAt(rec.trace, e)
        <4>1. TAKE e \in 1..f.last
        <4>2. CASE e <= Acked
          BY <1>2, <1>3, <4>2 DEF IInv, Pending
        <4>3. CASE e > Acked
          <5>1. PICK c \in Of(rec.trace) : c.first = f.first /\ c.last = f.last
            BY <1>1, <1>2, <2>1 DEF IInv, Pending
          <5>2. c.first <= e /\ e <= c.last
            BY <1>2, <1>3, <4>3, <5>1
          <5>3. QED
            BY <5>2 DEF StoredAt
        <4>4. QED
          BY <1>2, <1>3, <4>2, <4>3
      <3>9. chunks' = chunks
        BY DEF Acknowledged, tracker
      <3>10. Pending'
        BY <1>2, <1>5, <3>5, <3>6, <3>7, <3>8, <3>9 DEF Pending, StoredAt, Of
      <3>11. QED
        BY <3>4, <3>5, <3>6, <3>10, Here DEF IInv, Wound
    <2>2. CASE f.at # "done"
      <3>1. flushes' = Tail(flushes) /\ rec' = rec
        BY <1>1, <2>2 DEF Acknowledged, Broken
      <3>2. /\ flushes' \in Seq(BOOLEAN) /\ pc # "off"
            /\ \A i \in 1..Len(flushes') : flushes'[i] => rec.closed
        BY <1>2, <3>1, FewerFlushes
      <3>3. Pending'
        BY <1>5, <3>1 DEF IInv, Pending, Acked, StoredAt, Of, Acknowledged, tracker
      <3>4. Acked' = Acked
        BY <3>1 DEF Acked
      <3>5. QED
        BY <1>3, <3>1, <3>2, <3>3, <3>4
    <2>3. QED
      BY <2>1, <2>2
  <1>8. Shapes'
    BY <1>5, <1>6, <1>7, ShapesOf, Here DEF Acknowledged, supervisor
  <1>9. Counted' /\ Wound'
    BY <1>5, <1>7, CountedFrame, WoundFrame DEF Acknowledged
  <1>10. Marked'
    <2>1. \A g \in Batches' : g \in Batches
      BY <1>5 DEF Batches, Acknowledged, tracker
    <2>2. QED
      BY <1>7, <2>1, MarkedFrom
  <1>11. Grown'
    <2>1. /\ \A g \in Batches' : g \in Batches
          /\ \A g \in Batches : g.first \in Nat /\ g.last \in Nat
      BY <1>5, BatchesTyped DEF Batches, Acknowledged, tracker
    <2>2. Acked' = Acked \/ Acked' = f.last
      BY <1>7
    <2>3. SUFFICES ASSUME NEW g \in Batches, Current(g)
                   PROVE  g.first <= Acked' + 1 /\ (g.first <= Acked' => g.last <= Acked')
      BY <1>5, <1>7, <2>1 DEF Grown, Current
    <2>4. /\ g.first <= Acked + 1 /\ (g.first <= Acked => g.last <= Acked)
          /\ g.first = Acked + 1 => g.last <= f.last
      BY <1>1, <1>2, <2>3 DEF IInv, Grown
    <2>5. g.first \in Nat /\ g.last \in Nat
      BY <2>1
    <2>6. CASE Acked' = Acked
      BY <2>4, <2>6
    <2>7. CASE Acked' = f.last
      BY <1>2, <1>3, <1>4, <2>4, <2>5, <2>7
    <2>8. QED
      BY <2>2, <2>6, <2>7
  <1>12. QED
    BY <1>6, <1>7, <1>8, <1>9, <1>10, <1>11 DEF IInv

-----------------------------------------------------------------------------
(***************************************************************************)
(* Faults.                                                                 *)
(***************************************************************************)

LEMMA CallbackKeeps ==
  ASSUME IInv, Callback
  PROVE  IInv'
  <1>1. Waiting' /\ calls'["main"] = calls["main"] /\ calls'["flush"] = calls["flush"]
    BY CallsFrame DEF Callback
  <1>2. /\ rec' = rec /\ flushes' = flushes /\ chunks' = chunks /\ orphans' = orphans
        /\ evidence' = evidence /\ late' = late /\ UNCHANGED supervisor
    BY DEF Callback
  <1>3. Chained' /\ Marked' /\ Grown' /\ Pending'
    BY <1>1, <1>2, ChainedFrame, MarkedFrame, PendingFrame
  <1>4. Tracked'
    <2>1. run' \in [status : {"running", "completed"}, manifest : (SUBSET Evidence) \cup {None}]
          /\ run'.manifest = run.manifest
      BY Here DEF Callback, Tracked
    <2>2. Stored' = Stored
      BY <1>2, <2>1 DEF Stored
    <2>3. QED
      BY <1>2, <2>1, <2>2, Here DEF Tracked
  <1>5. Shapes'
    BY <1>1, <1>2, <1>4, ShapesOf, Here, Typed DEF supervisor
  <1>6. Counted' /\ Wound'
    <2>1. /\ \A i \in 1..Len(flushes) : flushes[i] => rec.closed
          /\ pc = "off" => flushes = <<>>
      BY DEF IInv, Wound
    <2>2. QED
      BY <1>1, <1>2, <2>1, CountedFrame, WoundFrame
  <1>7. QED
    BY <1>3, <1>4, <1>5, <1>6 DEF IInv

LEMMA CrashKeeps ==
  ASSUME IInv, Crash
  PROVE  IInv'
  <1>1. /\ rec.trace \in 0..MaxTraces /\ rec.trace \in Nat /\ E \in Nat /\ K \in Nat
    BY Typed DEF RecorderType
  <1>2. /\ rec' \in RecorderType /\ rec'.trace = rec.trace /\ rec'.next = 1
        /\ rec'.pending = <<>> /\ ~ rec'.closed /\ ~ rec'.timer
    BY <1>1 DEF Crash, Recorder, RecorderType
  <1>3. /\ flushes' = <<>> /\ flushes' \in Seq(BOOLEAN) /\ pc' = "off" /\ "off" \in Places
        /\ todo' = {} /\ why' = None
        /\ calls'["flush"] = None /\ calls'["main"] = None /\ Waiting'
    BY DEF Crash, Places, Waiting, Callers
  <1>4. Tracked' /\ Chained'
    BY TrackerFrame DEF Crash
  <1>5. late' \subseteq Call
    BY Here DEF Crash, Waiting
  <1>6. Shapes'
    BY <1>2, <1>3, <1>4, <1>5, ShapesOf
  <1>7. Counted'
    BY <1>1, <1>2, <1>3, Fixed DEF Counted
  <1>8. Wound'
    BY <1>2, <1>3 DEF Wound
  <1>9. Pending'
    <2>1. Len(rec'.pending) = 0
      BY <1>2
    <2>2. Acked' = rec'.next - 1 - Len(rec'.pending)
      BY DEF Acked
    <2>3. Acked' = 0
      BY <1>2, <2>1, <2>2
    <2>4. QED
      BY <1>3, <2>1, <2>3 DEF Pending
  <1>10. Marked'
    <2>1. calls["main"] # None => calls["main"].op # "append"
      BY Here DEF Waiting, Upload_, Finalize_
    <2>2. \A f \in Batches' : f \in Batches
      BY <1>3, <2>1 DEF Batches, Crash, tracker, Callers
    <2>3. QED
      BY <1>2, <2>2 DEF IInv, Marked, Current
  <1>11. Grown'
    BY <1>2 DEF Grown, Current
  <1>12. QED
    BY <1>4, <1>6, <1>7, <1>8, <1>9, <1>10, <1>11 DEF IInv

(* A call that has another answer is still a call.                         *)
LEMMA Answered ==
  ASSUME NEW f, NEW a \in Answers
  PROVE  /\ f \in Append_ => /\ [f EXCEPT !.at = a] \in Append_
                             /\ [f EXCEPT !.at = a].trace = f.trace
                             /\ [f EXCEPT !.at = a].first = f.first
                             /\ [f EXCEPT !.at = a].last = f.last
                             /\ [f EXCEPT !.at = a].completed = f.completed
         /\ f \in Upload_ => /\ [f EXCEPT !.at = a] \in Upload_
                             /\ [f EXCEPT !.at = a].of = f.of
         /\ f \in Finalize_ => [f EXCEPT !.at = a] \in Finalize_
         /\ f \in Call => [f EXCEPT !.at = a].op = f.op /\ [f EXCEPT !.at = a].at = a
  <1>1. CASE f \in Append_
    BY <1>1 DEF Append_, Call, Upload_, Finalize_
  <1>2. CASE f \in Upload_
    BY <1>2 DEF Append_, Call, Upload_, Finalize_
  <1>3. CASE f \in Finalize_
    BY <1>3 DEF Append_, Call, Upload_, Finalize_
  <1>4. QED
    BY <1>1, <1>2, <1>3 DEF Call

(* A call that is answered keeps the bounds of its batch, its mark, and    *)
(* the evidence it uploads.                                                *)
LEMMA AnsweredCall ==
  ASSUME IInv, NEW c \in Callers, calls[c] # None, NEW a \in Answers,
         calls' = [calls EXCEPT ![c].at = a]
  PROVE  /\ Waiting' /\ calls'[c].at = a
         /\ \A d \in Callers : d # c => calls'[d] = calls[d]
         /\ calls'["flush"] # None =>
              /\ calls["flush"] # None
              /\ calls'["flush"].trace = calls["flush"].trace
              /\ calls'["flush"].first = calls["flush"].first
              /\ calls'["flush"].last = calls["flush"].last
              /\ calls'["flush"].completed = calls["flush"].completed
         /\ calls'["main"] # None /\ calls'["main"].op = "upload" =>
              /\ calls["main"] # None /\ calls["main"].op = "upload"
              /\ calls'["main"].of = calls["main"].of
  <1>1. PICK f, g : f = calls[c] /\ g = [f EXCEPT !.at = a]
    OBVIOUS
  <1>2. calls' = [calls EXCEPT ![c] = g]
    BY <1>1
  <1>3. /\ f \in Append_ => /\ g \in Append_ /\ g.trace = f.trace /\ g.first = f.first
                            /\ g.last = f.last /\ g.completed = f.completed
        /\ f \in Upload_ => g \in Upload_ /\ g.of = f.of
        /\ f \in Finalize_ => g \in Finalize_
        /\ f \in Call => g.op = f.op /\ g.at = a
    BY <1>1, Answered
  <1>4. CASE c = "flush"
    <2>1. f \in Append_
      BY <1>1, <1>4, Here DEF Waiting
    <2>2. Waiting' /\ calls'["flush"] = g /\ calls'["main"] = calls["main"]
      BY <1>2, <1>3, <1>4, <2>1, FlushCall
    <2>3. QED
      BY <1>1, <1>3, <1>4, <2>1, <2>2 DEF Call, Callers
  <1>5. CASE c = "main"
    <2>1. f \in Upload_ \cup Finalize_ /\ f.op \in {"upload", "finalize"}
      BY <1>1, <1>5, Here DEF Waiting, Upload_, Finalize_
    <2>2. g \in Upload_ \cup Finalize_
      BY <1>3, <2>1
    <2>3. Waiting' /\ calls'["main"] = g /\ calls'["flush"] = calls["flush"]
      BY <1>2, <1>5, <2>2, MainCall
    <2>4. f.op = "upload" => f \in Upload_
      BY <2>1 DEF Finalize_
    <2>5. QED
      BY ZenonT(60), <1>1, <1>3, <1>5, <2>1, <2>3, <2>4 DEF Call, Callers
  <1>6. QED
    BY <1>4, <1>5 DEF Callers

(* What the recorder holds, when the tracker stores more, and its call is  *)
(* answered truly.                                                         *)
LEMMA PendingGrows ==
  ASSUME IInv, rec' = rec, flushes' = flushes, chunks \subseteq chunks',
         calls'["flush"] # None =>
              /\ calls["flush"] # None
              /\ calls'["flush"].trace = calls["flush"].trace
              /\ calls'["flush"].first = calls["flush"].first
              /\ calls'["flush"].last = calls["flush"].last,
         calls'["flush"] # None /\ calls'["flush"].at = "done" =>
              \/ calls["flush"].at = "done"
              \/ \E c \in chunks' : /\ c.trace = calls["flush"].trace
                                    /\ c.first = calls["flush"].first
                                    /\ c.last = calls["flush"].last
  PROVE  Pending'
  <1>1. Acked' = Acked
    BY DEF Acked
  <1>2. \A t : Of(t) \subseteq Of(t)'
    BY DEF Of
  <1>3. \A e \in 1..Acked' : StoredAt(rec.trace, e)'
    BY <1>1, <1>2 DEF StoredAt, IInv, Pending
  <1>4. \A c \in chunks' : c \in Of(c.trace)'
    BY DEF Of
  <1>5. calls'["flush"] # None =>
         /\ flushes' # <<>> /\ calls'["flush"].trace = rec'.trace
         /\ calls'["flush"].first = Acked' + 1
         /\ calls'["flush"].last < rec'.next
    BY <1>1 DEF IInv, Pending
  <1>6. calls'["flush"] # None /\ calls'["flush"].at = "done" =>
              \E c \in Of(rec.trace)' : /\ c.first = calls'["flush"].first
                                        /\ c.last = calls'["flush"].last
    <2>1. SUFFICES ASSUME calls'["flush"] # None, calls'["flush"].at = "done"
                   PROVE  \E c \in Of(rec.trace)' : /\ c.first = calls["flush"].first
                                                    /\ c.last = calls["flush"].last
      OBVIOUS
    <2>2. calls["flush"].trace = rec.trace /\ rec.trace = rec'.trace
      BY <2>1 DEF IInv, Pending
    <2>3. CASE calls["flush"].at = "done"
      BY <1>2, <2>1, <2>3 DEF IInv, Pending
    <2>4. CASE calls["flush"].at # "done"
      <3>1. PICK c \in chunks' : /\ c.trace = calls["flush"].trace
                                 /\ c.first = calls["flush"].first
                                 /\ c.last = calls["flush"].last
        BY <2>1, <2>4
      <3>2. c \in Of(rec.trace)'
        BY <2>2, <3>1 DEF Of
      <3>3. QED
        BY <3>1, <3>2
    <2>5. QED
      BY <2>3, <2>4
  <1>7. QED
    BY <1>1, <1>3, <1>5, <1>6 DEF Pending, IInv

LEMMA WoundAnswered ==
  ASSUME IInv, UNCHANGED supervisor, rec' = rec, flushes' = flushes,
         calls'["main"] # None /\ calls'["main"].op = "upload" =>
              /\ calls["main"] # None /\ calls["main"].op = "upload"
              /\ calls'["main"].of = calls["main"].of
  PROVE  Wound'
  BY DEF IInv, Wound, supervisor

LEMMA GiveUpKeeps ==
  ASSUME IInv, NEW c \in Callers, GiveUp(c)
  PROVE  IInv'
  <1>1. /\ calls[c] # None /\ "failed" \in Answers /\ calls' = [calls EXCEPT ![c].at = "failed"]
        /\ rec' = rec /\ flushes' = flushes /\ chunks' = chunks /\ orphans' = orphans
        /\ UNCHANGED supervisor /\ late' \subseteq late \cup {calls[c]}
    BY DEF GiveUp, tracker, Answers
  <1>2. /\ Waiting' /\ calls'[c].at = "failed"
        /\ \A d \in Callers : d # c => calls'[d] = calls[d]
        /\ calls'["flush"] # None =>
              /\ calls["flush"] # None
              /\ calls'["flush"].trace = calls["flush"].trace
              /\ calls'["flush"].first = calls["flush"].first
              /\ calls'["flush"].last = calls["flush"].last
              /\ calls'["flush"].completed = calls["flush"].completed
        /\ calls'["main"] # None /\ calls'["main"].op = "upload" =>
              /\ calls["main"] # None /\ calls["main"].op = "upload"
              /\ calls'["main"].of = calls["main"].of
    BY <1>1, AnsweredCall
  <1>3. Tracked' /\ Chained'
    BY TrackerFrame DEF GiveUp
  <1>4. late' \subseteq Call /\ calls[c] \in Call
    BY <1>1, Here DEF Waiting
  <1>5. Shapes'
    BY <1>1, <1>2, <1>3, <1>4, ShapesOf, Here, Typed DEF supervisor
  <1>6. Counted' /\ Wound'
    BY <1>1, <1>2, CountedFrame, WoundAnswered
  <1>7. Pending'
    <2>1. calls'["flush"] # None /\ calls'["flush"].at = "done" => calls["flush"].at = "done"
      BY <1>2, Here
    <2>2. QED
      BY <1>1, <1>2, <2>1, PendingGrows
  <1>8. Marked' /\ Grown'
    <2>1. calls["main"] # None => calls["main"].op # "append"
      BY Here DEF Waiting, Upload_, Finalize_
    <2>2. \A f \in late' : f.op = "append" => f \in Batches
      BY <1>1, <2>1 DEF Batches, Callers
    <2>3. \A f \in Batches' : f \in Batches \/ (f = calls'["flush"] /\ f # None)
      BY <1>1, <2>2 DEF Batches
    <2>4. calls["flush"] # None => calls["flush"] \in Batches
      BY DEF Batches
    <2>5. \A f \in Batches' : \E g \in Batches : /\ f.trace = g.trace /\ f.first = g.first
                                               /\ f.last = g.last /\ f.completed = g.completed
      BY <1>2, <2>3, <2>4
    <2>6. Marked'
      BY <1>1, <2>5, MarkedFrom
    <2>7. Acked' = Acked
      BY <1>1 DEF Acked
    <2>8. QED
      BY <1>1, <1>2, <2>5, <2>6, <2>7, GrownFrom
  <1>9. QED
    BY <1>3, <1>5, <1>6, <1>7, <1>8 DEF IInv

-----------------------------------------------------------------------------
(***************************************************************************)
(* The tracker.                                                            *)
(***************************************************************************)

(* What a ticket with room has room for.                                   *)
LEMMA Room ==
  ASSUME IInv, ~ Full
  PROVE  /\ Cardinality(chunks) \in Nat /\ Cardinality(evidence) \in Nat
         /\ Cardinality(chunks) + Cardinality(evidence)
            + (IF run.manifest = None THEN 0 ELSE 1) + 1 <= Capacity
  <1>1. Cardinality(chunks) \in Nat /\ Cardinality(evidence) \in Nat
    BY Here, FS_CardinalityType DEF Tracked
  <1>2. ~ (Stored >= Capacity) /\ Capacity \in Nat
    BY BoundAssumption DEF Full
  <1>3. CASE run.manifest = None
    BY <1>1, <1>2, <1>3 DEF Stored
  <1>4. CASE run.manifest # None
    BY <1>1, <1>2, <1>4 DEF Stored
  <1>5. QED
    BY <1>1, <1>3, <1>4

(* A batch that the ticket lists from now on, where there is room.         *)
LEMMA ListedTracked ==
  ASSUME IInv, ~ Full, NEW f, NEW v \in BOOLEAN, f.trace \in Traces, f.first \in Sequence,
         f.last \in Sequence, f.completed \in BOOLEAN, chunks' = Listed(f, v),
         evidence' = evidence, run' = run, orphans' \subseteq orphans
  PROVE  /\ Tracked'
         /\ \E n \in Chunk : /\ chunks' = chunks \cup {n} /\ n.trace = f.trace
                             /\ n.first = f.first /\ n.last = f.last
                             /\ n.completed = f.completed /\ n.recovered = v
  <1>1. PICK c : c = Cardinality(chunks)
    OBVIOUS
  <1>2. PICK m : m = (IF run.manifest = None THEN 0 ELSE 1)
    OBVIOUS
  <1>3. /\ m \in Nat /\ c \in Nat /\ Cardinality(evidence) \in Nat /\ Capacity \in Nat
        /\ c + Cardinality(evidence) + m + 1 <= Capacity
    BY <1>1, <1>2, Room, BoundAssumption
  <1>4. PICK n : n = [trace |-> f.trace, first |-> f.first, last |-> f.last,
                      completed |-> f.completed, recovered |-> v, place |-> c + 1]
    OBVIOUS
  <1>5. c + 1 \in 1..Capacity
    BY <1>3
  <1>6. chunks' = chunks \cup {n}
    BY <1>1, <1>4 DEF Listed
  <1>7. /\ n \in Chunk /\ n.trace = f.trace /\ n.first = f.first /\ n.last = f.last
        /\ n.completed = f.completed /\ n.recovered = v
    BY <1>4, <1>5 DEF Chunk
  <1>8. /\ IsFiniteSet(chunks') /\ Cardinality(chunks') \in Nat
        /\ Cardinality(chunks') <= c + 1
    <2>1. IsFiniteSet(chunks)
      BY Here DEF Tracked
    <2>2. /\ IsFiniteSet(chunks \cup {n}) /\ Cardinality(chunks \cup {n}) \in Nat
          /\ Cardinality(chunks \cup {n}) <= Cardinality(chunks) + 1
      BY <2>1, OneMore
    <2>3. QED
      BY <1>1, <1>6, <2>2
  <1>9. Stored' <= Capacity
    <2>1. Stored' = Cardinality(chunks') + Cardinality(evidence) + m
      BY <1>2 DEF Stored
    <2>2. QED
      BY <1>3, <1>8, <2>1
  <1>10. QED
    BY <1>6, <1>7, <1>8, <1>9, Here DEF Tracked

(* A batch that is listed beside others of its trace.                      *)
LEMMA ListedChained ==
  ASSUME IInv, NEW n \in Chunk, NEW f \in Batches, chunks' = chunks \cup {n},
         orphans' \subseteq orphans, n.trace = f.trace, n.first = f.first, n.last = f.last,
         Follower(n), ~ n.recovered => \A d \in Of(n.trace) : d.first # n.first
  PROVE  Chained'
  <1>1. \A c : Of(c.trace) \subseteq Of(c.trace)'
    BY DEF Of
  <1>2. \A c \in chunks' \cup orphans' : Follower(c)'
    BY <1>1 DEF IInv, Chained, Follower
  <1>3. \A d \in Of(n.trace) : Apart(n, d) /\ Apart(d, n)
    <2>1. TAKE d \in Of(n.trace)
    <2>2. d \in Batches /\ d.trace = f.trace
      BY DEF Of, Batches
    <2>3. /\ d.first \in Nat /\ d.last \in Nat /\ n.first \in Nat /\ n.last \in Nat
      BY <2>2, BatchesTyped
    <2>4. /\ d.first < f.first => d.last < f.first
          /\ f.first < d.first => f.last < d.first
      BY <2>2 DEF IInv, Marked
    <2>5. QED
      BY <2>3, <2>4 DEF Apart
  <1>4. \A c \in chunks' : \A d \in Of(c.trace)' : Apart(c, d)
    <2>1. TAKE c \in chunks'
    <2>2. TAKE d \in Of(c.trace)'
    <2>3. /\ c \in chunks \/ c = n
          /\ d \in Of(c.trace) \/ (d = n /\ d.trace = c.trace)
      BY <2>2 DEF Of
    <2>4. CASE c \in chunks /\ d \in Of(c.trace)
      BY <2>4 DEF IInv, Chained
    <2>5. CASE c \in chunks /\ d = n /\ d.trace = c.trace
      BY <1>3, <2>5 DEF Of
    <2>6. CASE c = n /\ d \in Of(c.trace)
      BY <1>3, <2>6
    <2>7. CASE c = n /\ d = n
      BY <2>7 DEF Apart
    <2>8. QED
      BY <2>3, <2>4, <2>5, <2>6, <2>7
  <1>5. QED
    BY <1>2, <1>4 DEF Chained, Apart

(* A batch that is expected follows the others.                            *)
LEMMA ExpectedFollows ==
  ASSUME IInv, NEW f \in Batches, Follows(f)
  PROVE  Follower(f) /\ \A d \in Of(f.trace) : d.first # f.first
  <1>1. f.first = Expected(f.trace) /\ f.first \in Nat
    BY BatchesTyped DEF Follows
  <1>2. CASE Of(f.trace) = {}
    BY <1>1, <1>2, ExpectedNext DEF Follower
  <1>3. CASE Of(f.trace) # {}
    <2>1. PICK d \in Of(f.trace) : /\ f.first = 1 + d.last
                                   /\ \A c \in Of(f.trace) : c.first <= d.first
      BY <1>1, <1>3, ExpectedNext
    <2>2. d \in Batches
      BY DEF Of, Batches
    <2>3. d.first <= d.last /\ d.first \in Nat /\ d.last \in Nat
      BY <2>2, BatchesTyped DEF IInv, Marked
    <2>4. d.last = f.first - 1
      BY <2>1, <2>3
    <2>5. \A c \in Of(f.trace) : c.first <= d.first => c.first # f.first
      BY <2>1, <2>3
    <2>6. QED
      BY <2>1, <2>4, <2>5 DEF Follower
  <1>4. QED
    BY <1>2, <1>3

(* A batch is stored only where its trace ends.                            *)
LEMMA ServeAppend ==
  ASSUME IInv, NEW f \in Append_, f \in Batches, Effect(f)
  PROVE  /\ Tracked' /\ Chained' /\ chunks \subseteq chunks' /\ orphans' = orphans
         /\ \A c \in chunks' : \/ c \in chunks
                               \/ /\ c.trace = f.trace /\ c.first = f.first
                                  /\ c.last = f.last /\ c.completed = f.completed
         /\ Result(f) \in Answers \cup {"stored"}
         /\ Result(f) \in {"stored", "done"} =>
              \E c \in chunks' : c.trace = f.trace /\ c.first = f.first /\ c.last = f.last
  <1>1. f.op = "append"
    BY DEF Append_
  <1>2. Result(f) = Appended(f)
    BY <1>1 DEF Result
  <1>3. evidence' = evidence /\ run' = run /\ orphans' = orphans
    BY <1>1 DEF Effect, StoreEvidence, StoreManifest
  <1>4. Result(f) \in {"done", "conflict", "failed", "stored"}
    BY <1>2 DEF Appended
  <1>5. CASE Result(f) # "stored"
    <2>1. chunks' = chunks
      BY <1>5 DEF Effect, StoreChunk
    <2>2. Tracked' /\ Chained'
      BY <1>3, <2>1, TrackerFrame DEF tracker
    <2>3. Result(f) = "done" => Repeated(f)
      BY <1>2 DEF Appended
    <2>4. Result(f) = "done" =>
            \E c \in chunks' : c.trace = f.trace /\ c.first = f.first /\ c.last = f.last
      BY <2>1, <2>3 DEF Repeated, Of
    <2>5. QED
      BY <1>3, <1>4, <1>5, <2>1, <2>2, <2>4 DEF Answers
  <1>6. CASE Result(f) = "stored"
    <2>1. chunks' = Listed(f, FALSE) /\ Follows(f) /\ ~ Full
      BY <1>1, <1>2, <1>6 DEF Effect, StoreChunk, Appended
    <2>2. PICK n \in Chunk : /\ Tracked' /\ chunks' = chunks \cup {n} /\ n.trace = f.trace
                             /\ n.first = f.first /\ n.last = f.last
                             /\ n.completed = f.completed /\ n.recovered = FALSE
      <3>1. /\ f.trace \in Traces /\ f.first \in Sequence /\ f.last \in Sequence
            /\ f.completed \in BOOLEAN /\ FALSE \in BOOLEAN /\ orphans' \subseteq orphans
        BY <1>3 DEF Append_
      <3>2. QED
        BY <1>3, <2>1, <3>1, ListedTracked
    <2>3. Follower(n) /\ \A d \in Of(n.trace) : d.first # n.first
      BY <2>1, <2>2, ExpectedFollows DEF Follower
    <2>4. Chained'
      BY <1>3, <2>2, <2>3, ListedChained
    <2>5. QED
      BY <1>3, <1>6, <2>2, <2>4
  <1>7. QED
    BY <1>5, <1>6

LEMMA ServeUpload ==
  ASSUME IInv, NEW f \in Upload_, Effect(f)
  PROVE  /\ Tracked' /\ Chained' /\ chunks' = chunks /\ orphans' = orphans
         /\ Result(f) \in Answers \cup {"stored"}
  <1>1. f.op = "upload" /\ f.of \in Evidence
    BY DEF Upload_
  <1>2. Result(f) = Attach(f)
    BY <1>1 DEF Result
  <1>3. chunks' = chunks /\ orphans' = orphans /\ run' = run
    BY <1>1 DEF Effect, StoreChunk, StoreManifest
  <1>4. Result(f) \in {"done", "failed", "stored"}
    BY <1>2 DEF Attach
  <1>5. Chained'
    BY <1>3, ChainedFrame
  <1>6. CASE Result(f) # "stored"
    <2>1. evidence' = evidence
      BY <1>6 DEF Effect, StoreEvidence
    <2>2. QED
      BY <1>3, <1>4, <1>5, <2>1, TrackerFrame DEF tracker, Answers
  <1>7. CASE Result(f) = "stored"
    <2>1. evidence' = evidence \cup {f.of}
      BY <1>1, <1>7 DEF Effect, StoreEvidence
    <2>2. ~ Full
      BY <1>2, <1>7 DEF Attach
    <2>3. /\ IsFiniteSet(evidence') /\ Cardinality(evidence') \in Nat
          /\ Cardinality(evidence') <= Cardinality(evidence) + 1
      BY <2>1, Here, OneMore DEF Tracked
    <2>4. Stored' <= Capacity
      <3>1. PICK m : m = (IF run.manifest = None THEN 0 ELSE 1)
        OBVIOUS
      <3>2. Stored' = Cardinality(chunks) + Cardinality(evidence') + m
        BY <1>3, <3>1 DEF Stored
      <3>3. m \in Nat
        BY <3>1
      <3>4. Cardinality(chunks) + Cardinality(evidence) + m + 1 <= Capacity
        BY <2>2, <3>1, Room
      <3>5. QED
        BY <2>2, <2>3, <3>2, <3>3, <3>4, Room, BoundAssumption
    <2>5. QED
      BY <1>1, <1>3, <1>4, <1>5, <2>1, <2>3, <2>4, Here DEF Tracked, Answers
  <1>8. QED
    BY <1>6, <1>7

(* A manifest lists what is stored when it is made.                        *)
LEMMA ServeFinalize ==
  ASSUME IInv, NEW f \in Finalize_, Effect(f)
  PROVE  /\ Tracked' /\ Chained' /\ chunks' = chunks /\ orphans' = orphans
         /\ Result(f) \in Answers \cup {"stored"}
  <1>1. f.op = "finalize"
    BY DEF Finalize_
  <1>2. Result(f) = Manifest
    BY <1>1 DEF Result
  <1>3. chunks' = chunks /\ orphans' = orphans /\ evidence' = evidence
    BY <1>1 DEF Effect, StoreChunk, StoreEvidence
  <1>4. Result(f) \in {"done", "failed", "stored"}
    BY <1>2 DEF Manifest
  <1>5. Chained'
    BY <1>3, ChainedFrame
  <1>6. CASE Result(f) # "stored"
    <2>1. run' = run
      BY <1>6 DEF Effect, StoreManifest
    <2>2. QED
      BY <1>3, <1>4, <1>5, <2>1, TrackerFrame DEF tracker, Answers
  <1>7. CASE Result(f) = "stored"
    <2>1. run' = [run EXCEPT !.manifest = evidence]
      BY <1>1, <1>7 DEF Effect, StoreManifest
    <2>2. ~ Full /\ run.manifest = None
      BY <1>2, <1>7 DEF Manifest
    <2>3. run' \in [status : {"running", "completed"}, manifest : (SUBSET Evidence) \cup {None}]
      BY <2>1, Here DEF Tracked
    <2>4. Stored' <= Capacity
      <3>1. PICK m : m = (IF run'.manifest = None THEN 0 ELSE 1)
        OBVIOUS
      <3>2. Stored' = Cardinality(chunks) + Cardinality(evidence) + m
        BY <1>3, <3>1 DEF Stored
      <3>3. m \in Nat /\ m <= 1
        BY <3>1
      <3>4. Cardinality(chunks) + Cardinality(evidence) + 0 + 1 <= Capacity
        BY <2>2, Room
      <3>5. QED
        BY <2>2, <3>2, <3>3, <3>4, Room, BoundAssumption
    <2>5. QED
      BY <1>3, <1>4, <1>5, <2>3, <2>4, Here DEF Tracked, Answers
  <1>8. QED
    BY <1>6, <1>7

LEMMA ServeKeeps ==
  ASSUME IInv, NEW c \in Callers, Serve(c)
  PROVE  IInv'
  <1>1. PICK f, a : /\ f = calls[c]
                    /\ a = IF Result(f) = "stored" THEN "done" ELSE Result(f)
    OBVIOUS
  <1>2. /\ f # None /\ Effect(f) /\ calls' = [calls EXCEPT ![c].at = a]
        /\ rec' = rec /\ flushes' = flushes /\ late' = late /\ UNCHANGED supervisor
    BY <1>1 DEF Serve
  <1>3. /\ c = "flush" => f \in Append_ /\ f \in Batches
        /\ c = "main" => f \in Upload_ \cup Finalize_
    BY <1>1, <1>2, Here DEF Waiting, Batches
  <1>4. /\ Tracked' /\ Chained' /\ chunks \subseteq chunks' /\ orphans' = orphans
        /\ \A x \in chunks' : \/ x \in chunks
                              \/ /\ c = "flush" /\ x.trace = f.trace /\ x.first = f.first
                                 /\ x.last = f.last /\ x.completed = f.completed
        /\ Result(f) \in Answers \cup {"stored"}
        /\ c = "flush" /\ Result(f) \in {"stored", "done"} =>
             \E x \in chunks' : x.trace = f.trace /\ x.first = f.first /\ x.last = f.last
    <2>1. CASE c = "flush"
      BY <1>2, <1>3, <2>1, ServeAppend
    <2>2. CASE c = "main" /\ f \in Upload_
      BY <1>2, <2>2, ServeUpload
    <2>3. CASE c = "main" /\ f \in Finalize_
      BY <1>2, <2>3, ServeFinalize
    <2>4. QED
      BY <1>3, <2>1, <2>2, <2>3 DEF Callers
  <1>5. a \in Answers /\ (a = "done" => Result(f) \in {"stored", "done"})
    BY <1>1, <1>4 DEF Answers
  <1>6. /\ Waiting' /\ calls'[c].at = a
        /\ \A d \in Callers : d # c => calls'[d] = calls[d]
        /\ calls'["flush"] # None =>
              /\ calls["flush"] # None
              /\ calls'["flush"].trace = calls["flush"].trace
              /\ calls'["flush"].first = calls["flush"].first
              /\ calls'["flush"].last = calls["flush"].last
              /\ calls'["flush"].completed = calls["flush"].completed
        /\ calls'["main"] # None /\ calls'["main"].op = "upload" =>
              /\ calls["main"] # None /\ calls["main"].op = "upload"
              /\ calls'["main"].of = calls["main"].of
    BY <1>1, <1>2, <1>5, AnsweredCall
  <1>7. Shapes'
    BY <1>2, <1>4, <1>6, ShapesOf, Here, Typed DEF supervisor
  <1>8. Counted' /\ Wound'
    BY <1>2, <1>6, CountedFrame, WoundAnswered
  <1>9. Pending'
    <2>1. calls'["flush"] # None /\ calls'["flush"].at = "done" =>
              \/ calls["flush"].at = "done"
              \/ \E x \in chunks' : /\ x.trace = calls["flush"].trace
                                    /\ x.first = calls["flush"].first
                                    /\ x.last = calls["flush"].last
      <3>1. CASE c = "flush"
        BY <1>1, <1>4, <1>5, <1>6, <3>1
      <3>2. CASE c # "flush"
        BY <1>6, <3>2, Here
      <3>3. QED
        BY <3>1, <3>2
    <2>2. QED
      BY <1>2, <1>4, <1>6, <2>1, PendingGrows
  <1>10. Marked' /\ Grown'
    <2>1. calls["flush"] # None => calls["flush"] \in Batches
      BY DEF Batches
    <2>2. \A g \in Batches' : g \in Batches \/ g \in chunks' \/ (g = calls'["flush"] /\ g # None)
      BY <1>2, <1>4 DEF Batches
    <2>3. \A g \in chunks' : \E h \in Batches : /\ g.trace = h.trace /\ g.first = h.first
                                               /\ g.last = h.last /\ g.completed = h.completed
      <3>1. chunks \subseteq Batches
        BY DEF Batches
      <3>2. QED
        BY <1>1, <1>2, <1>4, <2>1, <3>1
    <2>4. \A g \in Batches' : \E h \in Batches : /\ g.trace = h.trace /\ g.first = h.first
                                               /\ g.last = h.last /\ g.completed = h.completed
      BY ZenonT(60), <1>6, <2>1, <2>2, <2>3
    <2>5. Marked'
      BY <1>2, <2>4, MarkedFrom
    <2>6. Acked' = Acked
      BY <1>2 DEF Acked
    <2>7. QED
      BY <1>2, <1>6, <2>4, <2>5, <2>6, GrownFrom
  <1>11. QED
    BY <1>4, <1>7, <1>8, <1>9, <1>10 DEF IInv

LEMMA ServeLateKeeps ==
  ASSUME IInv, NEW f \in late, ServeLate(f)
  PROVE  IInv'
  <1>1. /\ Effect(f) /\ late' = late \ {f} /\ rec' = rec /\ flushes' = flushes
        /\ calls' = calls /\ UNCHANGED supervisor /\ f \in Call /\ late' \subseteq Call
    BY Here DEF ServeLate
  <1>2. f \in Append_ => f \in Batches
    BY DEF Batches, Append_
  <1>3. /\ Tracked' /\ Chained' /\ chunks \subseteq chunks' /\ orphans' = orphans
        /\ \A x \in chunks' : \/ x \in chunks
                              \/ /\ f \in Append_ /\ x.trace = f.trace /\ x.first = f.first
                                 /\ x.last = f.last /\ x.completed = f.completed
    <2>1. CASE f \in Append_
      BY <1>1, <1>2, <2>1, ServeAppend
    <2>2. CASE f \in Upload_
      BY <1>1, <2>2, ServeUpload
    <2>3. CASE f \in Finalize_
      BY <1>1, <2>3, ServeFinalize
    <2>4. QED
      BY <1>1, <2>1, <2>2, <2>3 DEF Call
  <1>4. Waiting' /\ calls'["main"] = calls["main"] /\ calls'["flush"] = calls["flush"]
    BY <1>1, CallsFrame
  <1>5. Shapes'
    BY <1>1, <1>3, <1>4, ShapesOf, Here, Typed DEF supervisor
  <1>6. Counted' /\ Wound'
    BY <1>1, <1>4, CountedFrame, WoundAnswered
  <1>7. Pending'
    BY <1>1, <1>3, <1>4, PendingGrows
  <1>8. Marked' /\ Grown'
    <2>1. \A g \in Batches' : g \in Batches \/ g \in chunks'
      BY <1>1, <1>3, <1>4 DEF Batches
    <2>2. \A g \in chunks' : \E h \in Batches : /\ g.trace = h.trace /\ g.first = h.first
                                               /\ g.last = h.last /\ g.completed = h.completed
      <3>1. chunks \subseteq Batches
        BY DEF Batches
      <3>2. QED
        BY <1>2, <1>3, <3>1
    <2>3. \A g \in Batches' : \E h \in Batches : /\ g.trace = h.trace /\ g.first = h.first
                                               /\ g.last = h.last /\ g.completed = h.completed
      BY <2>1, <2>2
    <2>4. Marked'
      BY <1>1, <2>3, MarkedFrom
    <2>5. Acked' = Acked
      BY <1>1 DEF Acked
    <2>6. QED
      BY <1>1, <1>4, <2>3, <2>4, <2>5, GrownFrom
  <1>9. QED
    BY <1>3, <1>5, <1>6, <1>7, <1>8 DEF IInv

LEMMA ReattachKeeps ==
  ASSUME IInv, NEW o \in orphans, Reattach(o)
  PROVE  IInv'
  <1>1. /\ ~ Full /\ chunks' = Listed(o, TRUE) /\ orphans' \subseteq orphans
        /\ run' = run /\ evidence' = evidence /\ rec' = rec /\ flushes' = flushes
        /\ calls' = calls /\ late' = late /\ UNCHANGED supervisor
    BY DEF Reattach
  <1>2. o \in Orphan /\ o \in Batches /\ Follower(o)
    BY Here DEF Tracked, Batches, IInv, Chained
  <1>3. PICK n \in Chunk : /\ Tracked' /\ chunks' = chunks \cup {n} /\ n.trace = o.trace
                           /\ n.first = o.first /\ n.last = o.last
                           /\ n.completed = o.completed /\ n.recovered = TRUE
    BY <1>1, <1>2, ListedTracked DEF Orphan
  <1>4. Chained'
    <2>1. Follower(n)
      BY <1>2, <1>3 DEF Follower
    <2>2. QED
      BY <1>1, <1>2, <1>3, <2>1, ListedChained
  <1>5. Waiting' /\ calls'["main"] = calls["main"] /\ calls'["flush"] = calls["flush"]
    BY <1>1, CallsFrame
  <1>6. Shapes'
    BY <1>1, <1>3, <1>5, ShapesOf, Here, Typed DEF supervisor
  <1>7. Counted' /\ Wound'
    BY <1>1, <1>5, CountedFrame, WoundAnswered
  <1>8. Pending'
    BY <1>1, <1>3, <1>5, PendingGrows
  <1>9. \A g \in Batches' : \E h \in Batches : /\ g.trace = h.trace /\ g.first = h.first
                                             /\ g.last = h.last /\ g.completed = h.completed
    <2>1. \A g \in Batches' : g \in Batches \/ g = n
      BY <1>1, <1>3, <1>5 DEF Batches
    <2>2. QED
      BY <1>2, <1>3, <2>1
  <1>10. Marked' /\ Grown'
    <2>1. Acked' = Acked
      BY <1>1 DEF Acked
    <2>2. QED
      BY <1>1, <1>5, <1>9, <2>1, MarkedFrom, GrownFrom
  <1>11. QED
    BY <1>3, <1>4, <1>6, <1>7, <1>8, <1>10 DEF IInv

LEMMA TrackerCrashKeeps ==
  ASSUME IInv, Faults, NEW f \in Asked, TrackerCrash(f)
  PROVE  IInv'
  <1>1. /\ faults \in Nat /\ faults + 1 \in 1..MaxFaults /\ f.op = "append"
        /\ Result(f) = "stored" /\ late' = {}
        /\ orphans' = orphans \cup {[trace |-> f.trace, first |-> f.first, last |-> f.last,
                                     completed |-> f.completed, crash |-> faults + 1]}
        /\ calls' = [c \in Callers |-> IF calls[c] \in Asked
                                       THEN [calls[c] EXCEPT !.at = "failed"] ELSE calls[c]]
        /\ rec' = rec /\ flushes' = flushes /\ chunks' = chunks /\ run' = run
        /\ evidence' = evidence /\ UNCHANGED supervisor
    BY BoundAssumption DEF TrackerCrash, Faults
  <1>2. calls["main"] # None => calls["main"].op # "append"
    BY Here DEF Waiting, Upload_, Finalize_
  <1>3. f \in Batches
    BY <1>1, <1>2 DEF Asked, Batches, Callers
  <1>4. PICK n : n = [trace |-> f.trace, first |-> f.first, last |-> f.last,
                      completed |-> f.completed, crash |-> faults + 1]
    OBVIOUS
  <1>5. /\ n \in Orphan /\ n.trace = f.trace /\ n.first = f.first /\ n.last = f.last
        /\ n.completed = f.completed
    BY <1>1, <1>3, <1>4, BatchesTyped DEF Orphan
  <1>6. Tracked'
    <2>1. Stored' = Stored
      BY <1>1 DEF Stored
    <2>2. QED
      BY <1>1, <1>4, <1>5, <2>1, Here DEF Tracked
  <1>7. Chained'
    <2>1. Follows(f)
      BY <1>1 DEF Result, Appended
    <2>2. Follower(n)
      BY <1>3, <1>5, <2>1, ExpectedFollows DEF Follower
    <2>3. QED
      BY <1>1, <1>4, <2>2 DEF IInv, Chained, Follower, Apart, Of
  <1>8. PICK m, g : /\ m = [calls["main"] EXCEPT !.at = "failed"]
                    /\ g = [calls["flush"] EXCEPT !.at = "failed"]
    OBVIOUS
  <1>9. /\ calls'["main"] \in {calls["main"], m} /\ calls'["flush"] \in {calls["flush"], g}
        /\ calls["main"] = None => calls'["main"] = None
        /\ calls["flush"] = None => calls'["flush"] = None
        /\ DOMAIN calls' = Callers
    BY <1>1, <1>8 DEF Callers, Asked
  <1>10. /\ calls["flush"] # None =>
              /\ g \in Append_ /\ g.trace = calls["flush"].trace /\ g.at = "failed"
              /\ g.first = calls["flush"].first /\ g.last = calls["flush"].last
              /\ g.completed = calls["flush"].completed
         /\ calls["main"] # None =>
              /\ m \in Upload_ \cup Finalize_ /\ m.op = calls["main"].op
              /\ calls["main"].op = "upload" => m.of = calls["main"].of
    <2>1. "failed" \in Answers
      BY DEF Answers
    <2>2. calls["flush"] # None => calls["flush"] \in Append_ /\ calls["flush"] \in Call
      BY Here DEF Waiting, Call
    <2>3. calls["main"] # None => /\ calls["main"] \in Upload_ \cup Finalize_
                                  /\ calls["main"] \in Call
                                  /\ calls["main"].op = "upload" => calls["main"] \in Upload_
      BY Here DEF Waiting, Call, Finalize_
    <2>4. QED
      BY <1>8, <2>1, <2>2, <2>3, Answered
  <1>11. Waiting'
    <2>1. calls'["flush"] \in Append_ \cup {None} /\ calls'["main"] \in Upload_ \cup Finalize_ \cup {None}
      BY <1>9, <1>10, Here DEF Waiting
    <2>2. calls' \in [Callers -> Call \cup {None}]
      BY <1>1, <2>1 DEF Callers, Call
    <2>3. QED
      BY <2>1, <2>2 DEF Waiting
  <1>12. /\ calls'["flush"] # None =>
              /\ calls["flush"] # None
              /\ calls'["flush"].trace = calls["flush"].trace
              /\ calls'["flush"].first = calls["flush"].first
              /\ calls'["flush"].last = calls["flush"].last
              /\ calls'["flush"].completed = calls["flush"].completed
              /\ calls'["flush"].at = "done" => calls["flush"].at = "done"
         /\ calls'["main"] # None /\ calls'["main"].op = "upload" =>
              /\ calls["main"] # None /\ calls["main"].op = "upload"
              /\ calls'["main"].of = calls["main"].of
    BY <1>9, <1>10
  <1>13. Shapes'
    BY <1>1, <1>6, <1>11, ShapesOf, Here, Typed DEF supervisor
  <1>14. Counted' /\ Wound'
    BY <1>1, <1>12, CountedFrame, WoundAnswered
  <1>15. Pending'
    BY <1>1, <1>12, PendingGrows
  <1>16. \A x \in Batches' : \E h \in Batches : /\ x.trace = h.trace /\ x.first = h.first
                                              /\ x.last = h.last /\ x.completed = h.completed
    <2>1. \A x \in Batches' : \/ x \in Batches \/ x = n
                               \/ (x = calls'["flush"] /\ x # None)
      BY <1>1, <1>4 DEF Batches
    <2>2. calls["flush"] # None => calls["flush"] \in Batches
      BY DEF Batches
    <2>3. QED
      BY <1>3, <1>5, <1>12, <2>1, <2>2
  <1>17. Marked' /\ Grown'
    <2>1. Acked' = Acked
      BY <1>1 DEF Acked
    <2>2. QED
      BY <1>1, <1>12, <1>16, <2>1, MarkedFrom, GrownFrom
  <1>18. QED
    BY <1>6, <1>7, <1>13, <1>14, <1>15, <1>17 DEF IInv

-----------------------------------------------------------------------------
(***************************************************************************)
(* The specification.                                                      *)
(***************************************************************************)

LEMMA Initially == Init => IInv
  <1> SUFFICES ASSUME Init PROVE IInv
    OBVIOUS
  <1>1. /\ run = [status |-> "running", manifest |-> None] /\ chunks = {} /\ orphans = {}
        /\ evidence = {} /\ rec = Recorder(0) /\ flushes = <<>> /\ pc = "off" /\ todo = {} /\ why = None
        /\ calls = [c \in Callers |-> None] /\ late = {}
    BY DEF Init
  <1>2. /\ rec.trace = 0 /\ rec.next = 1 /\ rec.pending = <<>> /\ ~ rec.closed /\ ~ rec.timer
        /\ rec \in RecorderType /\ Len(rec.pending) = 0
    BY <1>1, BoundAssumption DEF Recorder, RecorderType
  <1>3. calls["flush"] = None /\ calls["main"] = None /\ Waiting
    BY <1>1 DEF Callers, Waiting
  <1>4. Tracked
    <2>1. Cardinality({}) = 0 /\ IsFiniteSet({})
      BY FS_EmptySet
    <2>2. Stored = 0
      BY <1>1, <2>1 DEF Stored
    <2>3. QED
      BY <1>1, <2>1, <2>2, BoundAssumption DEF Tracked
  <1>5. Shapes
    <2>1. flushes \in Seq(BOOLEAN) /\ late \subseteq Call /\ todo \subseteq Kinds
      BY <1>1
    <2>2. run.status = "running" /\ run.manifest = None
      BY <1>1
    <2>3. TypeOK
      BY <1>1, <1>2, <1>4, <2>1, <2>2 DEF TypeOK, Tracked, RecorderType
    <2>4. QED
      BY <1>1, <1>2, <1>3, <1>4, <2>1, <2>3 DEF Shapes
  <1>6. Counted
    <2>1. E \in Nat /\ K \in Nat
      BY BoundAssumption, KindsAssumption, FS_CardinalityType DEF E, K
    <2>2. QED
      BY <1>1, <1>2, <2>1 DEF Counted
  <1>7. Wound
    BY <1>1, <1>2, <1>3 DEF Wound
  <1>8. Pending
    <2>1. Acked = rec.next - 1 - Len(rec.pending)
      BY DEF Acked
    <2>2. Acked = 0
      BY <1>2, <2>1
    <2>3. QED
      BY <1>2, <1>3, <2>2 DEF Pending
  <1>9. Marked /\ Grown /\ Chained
    <2>1. Batches = {}
      BY <1>1, <1>3 DEF Batches
    <2>2. QED
      BY <1>1, <2>1 DEF Marked, Grown, Chained
  <1>10. QED
    BY <1>5, <1>6, <1>7, <1>8, <1>9 DEF IInv

LEMMA StutterKeeps ==
  ASSUME IInv, UNCHANGED vars
  PROVE  IInv'
  <1>1. /\ calls' = calls /\ UNCHANGED tracker /\ rec' = rec /\ flushes' = flushes
        /\ UNCHANGED supervisor /\ late' = late /\ chunks' = chunks
    BY DEF vars, tracker, supervisor
  <1>2. Waiting' /\ calls'["main"] = calls["main"] /\ calls'["flush"] = calls["flush"]
    BY <1>1, CallsFrame
  <1>3. /\ Tracked' /\ Chained' /\ Pending' /\ Marked' /\ Grown'
        /\ rec' \in RecorderType /\ flushes' \in Seq(BOOLEAN) /\ late' \subseteq Call
    BY <1>1, <1>2, Aside
  <1>4. Shapes'
    BY <1>1, <1>2, <1>3, ShapesOf, Here DEF supervisor
  <1>5. Counted' /\ Wound'
    BY <1>1, <1>2, CountedFrame, WoundAnswered
  <1>6. QED
    BY <1>3, <1>4, <1>5 DEF IInv

(* The faults stay within their bound.                                     *)
LEMMA FaultsKept == Faults /\ [Next]_vars => Faults'
  <1> SUFFICES ASSUME Faults, [Next]_vars PROVE Faults'
    OBVIOUS
  <1>1. faults' = faults \/ (faults < MaxFaults /\ faults' = faults + 1)
    BY DEF Next, vars, Start, Work, Question, Fail, Callback, Timer, WindUp, Recording, Send,
       Flushed, Acknowledged, Assignment, Upload, Unavailable, Started, Uploaded, Captured,
       Finalized, Close, Closed, Serve, GiveUp, ServeLate, Reattach, Crash, TrackerCrash
  <1>2. QED
    BY <1>1, BoundAssumption DEF Faults

LEMMA NextStep == IInv /\ Faults /\ [Next]_vars => IInv'
  <1> SUFFICES ASSUME IInv, Faults, [Next]_vars PROVE IInv'
    OBVIOUS
  <1>1. CASE Start
    BY <1>1, StartKeeps
  <1>2. CASE Work
    BY <1>2, WorkKeeps
  <1>3. CASE Question
    BY <1>3, QuestionKeeps
  <1>4. CASE Fail
    BY <1>4, FailKeeps
  <1>5. CASE Callback
    BY <1>5, CallbackKeeps
  <1>6. CASE Timer
    BY <1>6, TimerKeeps
  <1>7. CASE \E d \in Dispositions \ {"question"} : WindUp(d)
    BY <1>7, WindUpKeeps
  <1>8. CASE Recording
    BY <1>8, SendKeeps, FlushedKeeps, AcknowledgedKeeps DEF Recording
  <1>9. CASE Assignment
    BY <1>9, UploadKeeps, UnavailableKeeps, StartedKeeps, UploadedKeeps, CapturedKeeps,
       FinalizedKeeps, CloseKeeps, ClosedKeeps DEF Assignment
  <1>10. CASE \E c \in Callers : Serve(c) \/ GiveUp(c)
    BY <1>10, ServeKeeps, GiveUpKeeps
  <1>11. CASE \E f \in late : ServeLate(f)
    BY <1>11, ServeLateKeeps
  <1>12. CASE Crash
    BY <1>12, CrashKeeps
  <1>13. CASE \E o \in orphans : Reattach(o)
    BY <1>13, ReattachKeeps
  <1>14. CASE \E f \in Asked : TrackerCrash(f)
    BY <1>14, TrackerCrashKeeps
  <1>15. CASE UNCHANGED vars
    BY <1>15, StutterKeeps
  <1>16. QED
    BY <1>1, <1>2, <1>3, <1>4, <1>5, <1>6, <1>7, <1>8, <1>9, <1>10, <1>11, <1>12, <1>13, <1>14,
       <1>15 DEF Next

LEMMA Invariant == Spec => []IInv
  <1>1. Init => Faults
    BY BoundAssumption DEF Init, Faults
  <1>2. QED
    BY <1>1, Initially, FaultsKept, NextStep, PTL DEF Spec

(* Whatever calls are lost, repeated, answered late or cut off by a crash  *)
(* of either side, each batch of a trace begins with its first event or    *)
(* right after another, none overlaps another but one that maintenance     *)
(* reattached and that begins with it, and an event the recorder has let   *)
(* go of is in one of them.                                                *)
THEOREM TracesAreWhole == Spec => []TraceWhole
  <1>1. IInv => TraceWhole
    <2> SUFFICES ASSUME IInv PROVE TraceWhole
      OBVIOUS
    <2>1. \A e \in 1..(rec.next - 1) :
             \/ \E i \in 1..Len(rec.pending) : rec.pending[i] = e
             \/ \E c \in Of(rec.trace) : c.first <= e /\ e <= c.last
      <3>1. TAKE e \in 1..(rec.next - 1)
      <3>2. PICK a : a = Acked
        OBVIOUS
      <3>3. /\ a \in Nat /\ Len(rec.pending) \in Nat /\ rec.next \in Nat
            /\ rec.next - 1 = a + Len(rec.pending)
        <4>1. /\ a \in Nat /\ Len(rec.pending) \in Nat /\ rec.next \in Nat
              /\ a = rec.next - 1 - Len(rec.pending)
          BY <3>2, Typed DEF IInv, Pending, Acked
        <4>2. QED
          BY <4>1
      <3>4. CASE e <= a
        BY <3>2, <3>3, <3>4 DEF IInv, Pending, StoredAt
      <3>5. CASE e > a
        <4>1. e - a \in 1..Len(rec.pending)
          BY <3>3, <3>5
        <4>2. rec.pending[e - a] = a + (e - a)
          BY <3>2, <4>1 DEF IInv, Pending
        <4>3. rec.pending[e - a] = e
          BY <3>3, <4>2
        <4>4. QED
          BY <4>1, <4>3
      <3>6. QED
        BY <3>3, <3>4, <3>5
    <2>2. QED
      BY <2>1 DEF IInv, Shapes, Chained, Follower, Apart, TraceWhole
  <1>2. QED
    BY <1>1, Invariant, PTL

(* A trace is marked complete exactly when its closing event is stored,    *)
(* whichever flush carried it, and nothing is stored after that.           *)
THEOREM MarkedAtTheEnd == Spec => []CompleteMarked
  <1>1. IInv => CompleteMarked
    <2> SUFFICES ASSUME IInv PROVE CompleteMarked
      OBVIOUS
    <2>1. chunks \subseteq Batches /\ \A t : Of(t) \subseteq Batches
      BY DEF Batches, Of
    <2>2. \A t : \A d \in Of(t) : d.trace = t
      BY DEF Of
    <2>3. QED
      BY <2>1, <2>2 DEF IInv, Marked, Current, CompleteMarked
  <1>2. QED
    BY <1>1, Invariant, PTL
=============================================================================
