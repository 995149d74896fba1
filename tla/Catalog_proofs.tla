---------------------------- MODULE Catalog_proofs ----------------------------
(***************************************************************************)
(* Theorems about Catalog, for every set of contents, every number of      *)
(* requests that create tickets and every choice of the bounds.            *)
(***************************************************************************)
EXTENDS Catalog, FiniteSetTheorems, WellFoundedInduction, TLAPS

(***************************************************************************)
(* The inductive invariant.                                                *)
(***************************************************************************)

Numbers(index) == {r \in Revisions : index[r] > 0}

(* An index counts on from what it holds: it never runs past the number of *)
(* revisions, whatever older copy of it a writer went on from.             *)
Dense(index) == \A r \in Revisions : index[r] <= Cardinality(Numbers(index))

Indexes == Dense(numbers) /\ Dense(lib.seen) /\ Dense(reader.seen)

(* The writers work on what exists.  The first publication of the family   *)
(* makes the default; until it has done so there is no release to keep.    *)
Writing ==
    /\ lib.at # "idle" => /\ up /\ lib.rev \in Revisions
                          /\ lib.make \/ Published(releases) # {}
                          /\ lib.bundle => import.at = "saving"
                          /\ lib.bundle /\ lib.make => releases.default = None
    /\ lib.at \in {"keep", "number", "register"} => current # None
    /\ lib.at \in {"number", "register"} => lib.rev \in archive
    /\ lib.at = "register" => lib.seen[lib.rev] > 0
    /\ edit.at # "idle" => /\ edit.base \in Prompts /\ edit.rev \in Prompts
                           /\ edit.bundle => import.at = "prompting"
    /\ reader.at = "number" => reader.rev \in Revisions
    /\ import.at # "idle" => import.rev \in Revisions /\ import.prompt \in Prompts

(* When nobody publishes, a family that has a file has a release.          *)
Settled ==
    /\ up /\ lib.at = "idle" /\ current # None => Published(releases) # {}
    /\ current = None => Published(releases) = {}
    /\ Published(releases) = {} => releases.default = None

(* What a request holds for its ticket is in the archives already.         *)
Pinned == \A c \in Creators :
    /\ creator[c].at \in {"prompt", "fill", "create"} => creator[c].rev \in archive
    /\ creator[c].at \in {"fill", "create"} =>
         creator[c].prompt \in Prompts /\ shelf[creator[c].prompt] # "none"

TicketsPinned == \A i \in Taken : tickets[i].prompt \in Prompts

(* What OneDefault adds to the types.                                      *)
Released == Published(releases) # {} =>
    /\ {r \in Revisions : releases.status[r] = "active"} = {releases.default}
    /\ \A r \in Published(releases) : r \in archive /\ releases.number[r] > 0

IInv == /\ TypeOK /\ Released /\ PinsRetained /\ TicketsPinned
        /\ Indexes /\ Writing /\ Settled /\ Pinned

-----------------------------------------------------------------------------
(***************************************************************************)
(* The numbers of an index.                                                *)
(***************************************************************************)

(* A bounded set of naturals that is not empty has a largest element.      *)
LEMMA LargestNatural ==
  ASSUME NEW S \in SUBSET Nat, S # {}, NEW n \in Nat, \A x \in S : x <= n
  PROVE  Max(S) \in S /\ \A x \in S : x <= Max(S)
  <1> DEFINE B == {b \in Nat : \A x \in S : x <= b}
             less == OpToRel(<, Nat)
  <1>1. IsWellFoundedOn(less, Nat)
    BY NatLessThanWellFounded
  <1>2. \A x, y \in Nat : x < y => <<x, y>> \in less
    BY DEF OpToRel
  <1>3. B \subseteq Nat /\ n \in B
    OBVIOUS
  <1> HIDE DEF B, less
  <1>4. PICK b \in B : \A c \in B : <<c, b>> \notin less
    BY <1>1, <1>3, WFMin
  <1>5. \A c \in B : b <= c
    <2>1. SUFFICES ASSUME NEW c \in B PROVE b <= c
      OBVIOUS
    <2>2. b \in Nat /\ c \in Nat
      BY <1>3
    <2>3. ~ (c < b)
      BY <1>2, <1>4, <2>2, Zenon
    <2>4. QED
      BY <2>2, <2>3
  <1>6. b \in S
    <2>1. SUFFICES ASSUME b \notin S PROVE FALSE
      OBVIOUS
    <2>2. b \in Nat /\ \A x \in S : x <= b /\ x # b /\ x \in Nat
      BY <2>1 DEF B
    <2>3. PICK x \in S : x \in Nat /\ x <= b /\ x # b
      BY <2>2
    <2>4. b - 1 \in Nat /\ \A y \in S : y <= b - 1
      BY <2>2, <2>3
    <2>5. b - 1 \in B
      BY <2>4 DEF B
    <2>6. QED
      BY <1>5, <2>2, <2>5
  <1>7. \E m \in S : \A x \in S : m >= x
    BY <1>6 DEF B
  <1>8. QED
    BY <1>7 DEF Max

Index == [Revisions -> Nat]

(* A dense index fits the width that the catalog's numbers have.           *)
LEMMA DenseBounded ==
  ASSUME NEW index \in Index, Dense(index)
  PROVE  /\ Cardinality(Numbers(index)) \in Nat
         /\ Cardinality(Revisions) \in Nat
         /\ IsFiniteSet(Numbers(index))
         /\ index \in [Revisions -> 0..Cardinality(Revisions)]
  <1>1. Numbers(index) \subseteq Revisions
    BY DEF Numbers
  <1>2. /\ IsFiniteSet(Numbers(index)) /\ IsFiniteSet(Revisions)
        /\ Cardinality(Numbers(index)) <= Cardinality(Revisions)
    BY <1>1, BoundAssumption, FS_Subset
  <1>3. Cardinality(Numbers(index)) \in Nat /\ Cardinality(Revisions) \in Nat
    BY <1>2, FS_CardinalityType
  <1>4. \A r \in Revisions : index[r] \in 0..Cardinality(Revisions)
    BY <1>2, <1>3 DEF Dense, Index
  <1>5. QED
    BY <1>2, <1>3, <1>4 DEF Index

(* The largest number of a dense index is one of its numbers.              *)
LEMMA LastNumber ==
  ASSUME NEW index \in Index, Dense(index), Revisions # {}
  PROVE  LET last == Max({index[r] : r \in Revisions})
         IN  /\ last \in Nat
             /\ last <= Cardinality(Numbers(index))
             /\ \A r \in Revisions : index[r] <= last
  <1> DEFINE S == {index[r] : r \in Revisions}
             n == Cardinality(Numbers(index))
  <1>1. n \in Nat
    BY DenseBounded
  <1>2. S \in SUBSET Nat /\ S # {} /\ \A x \in S : x <= n
    BY DEF Dense, Index
  <1>3. \A r \in Revisions : index[r] \in S
    OBVIOUS
  <1> HIDE DEF S, n
  <1>4. Max(S) \in S /\ \A x \in S : x <= Max(S)
    BY <1>1, <1>2, LargestNatural
  <1>5. Max(S) \in Nat /\ Max(S) <= n /\ \A r \in Revisions : index[r] <= Max(S)
    BY <1>2, <1>3, <1>4
  <1>6. QED
    BY <1>5 DEF S, n

(* Numbering a revision keeps an index dense and gives it a number.        *)
LEMMA NumberedDense ==
  ASSUME NEW index \in Index, Dense(index), NEW rev \in Revisions
  PROVE  /\ Numbered(index, rev) \in Index
         /\ Dense(Numbered(index, rev))
         /\ Numbered(index, rev)[rev] > 0
  <1>1. CASE index[rev] > 0
    BY <1>1 DEF Numbered
  <1>2. CASE ~ (index[rev] > 0)
    <2> DEFINE last == Max({index[r] : r \in Revisions})
               new == [index EXCEPT ![rev] = last + 1]
               n == Cardinality(Numbers(index))
    <2>1. /\ last \in Nat /\ last <= n /\ n \in Nat /\ IsFiniteSet(Numbers(index))
          /\ \A r \in Revisions : index[r] <= last
      BY LastNumber, DenseBounded
    <2>2. Numbered(index, rev) = new
      BY <1>2 DEF Numbered
    <2> HIDE DEF last
    <2>3. new \in Index /\ new[rev] = last + 1
          /\ \A r \in Revisions : r # rev => new[r] = index[r]
      BY <2>1 DEF Index
    <2> HIDE DEF new
    <2>4. Numbers(new) = Numbers(index) \cup {rev} /\ rev \notin Numbers(index)
      BY <1>2, <2>1, <2>3 DEF Numbers
    <2>5. Cardinality(Numbers(new)) = n + 1
      BY <2>1, <2>4, FS_AddElement
    <2> HIDE DEF n
    <2>6. \A r \in Revisions : new[r] <= n + 1
      BY <2>1, <2>3 DEF Index
    <2>7. Dense(new)
      BY <2>5, <2>6 DEF Dense
    <2>8. QED
      BY <2>1, <2>2, <2>3, <2>7
  <1>3. QED
    BY <1>1, <1>2

(* So does numbering all that a restart finds.                             *)
LEMMA IndexedDense ==
  ASSUME numbers \in Index, Dense(numbers),
         NEW found \in SUBSET Revisions, found # {}, NEW index \in Indexed(found)
  PROVE  index \in Index /\ Dense(index) /\ \A r \in found : index[r] > 0
  <1> DEFINE fresh == {r \in found : numbers[r] = 0}
             last == Max({numbers[r] : r \in Revisions})
             k == Cardinality(fresh)
             n == Cardinality(Numbers(numbers))
  <1>1. PICK order \in Bijection(fresh, 1..k) :
          index = [r \in Revisions |-> IF r \in fresh THEN last + order[r] ELSE numbers[r]]
    BY DEF Indexed
  <1>2. /\ last \in Nat /\ last <= n /\ n \in Nat /\ IsFiniteSet(Numbers(numbers))
        /\ \A r \in Revisions : numbers[r] <= last
    BY LastNumber, DenseBounded
  <1>3. fresh \subseteq Revisions /\ IsFiniteSet(fresh) /\ k \in Nat
    BY BoundAssumption, FS_Subset, FS_CardinalityType
  <1>4. order \in [fresh -> 1..k]
    BY <1>1 DEF Bijection, Injection, Surjection
  <1>5. Numbers(numbers) \cap fresh = {}
    BY DEF Numbers
  <1>6. \A r \in found : numbers[r] = 0 \/ numbers[r] > 0
    BY DEF Index
  <1>7. \A r \in found : r \notin fresh => numbers[r] > 0
    BY <1>6
  <1> HIDE DEF fresh, last, k, n
  <1>8. index \in Index
    BY <1>1, <1>2, <1>3, <1>4 DEF Index
  <1>9. \A r \in Revisions : index[r] = IF r \in fresh THEN last + order[r] ELSE numbers[r]
    BY <1>1
  <1>10. \A r \in fresh : order[r] \in Nat /\ order[r] > 0 /\ order[r] <= k
    BY <1>3, <1>4
  <1>11. Numbers(index) = Numbers(numbers) \cup fresh
    BY <1>2, <1>3, <1>9, <1>10 DEF Numbers
  <1>12. Cardinality(Numbers(index)) = n + k
    <2>1. Cardinality(Numbers(index)) = Cardinality(Numbers(numbers)) + Cardinality(fresh)
                                        - Cardinality(Numbers(numbers) \cap fresh)
      BY <1>2, <1>3, <1>11, FS_Union
    <2>2. Cardinality(Numbers(numbers) \cap fresh) = 0
      BY <1>5, FS_EmptySet
    <2>3. QED
      BY <1>2, <1>3, <2>1, <2>2 DEF n, k
  <1>13. \A r \in Revisions : index[r] <= n + k
    BY <1>2, <1>3, <1>9, <1>10 DEF Index
  <1>14. \A r \in found : index[r] > 0
    BY <1>2, <1>7, <1>9, <1>10 DEF Index
  <1>15. QED
    BY <1>8, <1>12, <1>13, <1>14 DEF Dense

-----------------------------------------------------------------------------
(***************************************************************************)
(* The releases of the family.                                             *)
(***************************************************************************)

(* One default, one active release, and none forgotten.                    *)
LEMMA Activated ==
  ASSUME NEW e \in Entry, NEW rev \in Revisions
  PROVE  LET new == ActivateDefault(e, rev)
         IN  /\ new \in Entry
             /\ new.default = rev /\ new.number = e.number
             /\ {r \in Revisions : new.status[r] = "active"} = {rev}
             /\ Published(new) = Published(e) \cup {rev}
  <1> DEFINE status == [r \in Revisions |-> IF r = rev THEN "active"
                                           ELSE IF e.status[r] = "active" THEN "retired"
                                           ELSE e.status[r]]
             new == [e EXCEPT !.default = rev, !.status = status]
  <1>1. ActivateDefault(e, rev) = new
    BY DEF ActivateDefault
  <1>2. e.status \in [Revisions -> Statuses]
    BY DEF Entry
  <1>3. status \in [Revisions -> Statuses]
    BY <1>2 DEF Statuses
  <1>4. {r \in Revisions : status[r] = "active"} = {rev}
    OBVIOUS
  <1>5. {r \in Revisions : status[r] # "none"} = Published(e) \cup {rev}
    BY DEF Published
  <1> HIDE DEF status
  <1>6. new \in Entry /\ new.default = rev /\ new.number = e.number /\ new.status = status
    BY <1>3 DEF Entry
  <1> HIDE DEF new
  <1>7. QED
    BY <1>1, <1>4, <1>5, <1>6 DEF Published

Active(e) == {r \in Revisions : e.status[r] = "active"}

(* What is published stays so, with its number; the default moves to the   *)
(* release only when it is asked to.                                       *)
LEMMA Registered ==
  ASSUME NEW e \in Entry, NEW rev \in Revisions, NEW number \in 0..Cardinality(Revisions),
         NEW make \in BOOLEAN
  PROVE  LET new == RegisterRelease(e, rev, number, IF make THEN "active" ELSE "trial", make)
         IN  /\ new \in Entry
             /\ Published(new) = Published(e) \cup {rev}
             /\ make => new.default = rev /\ Active(new) = {rev}
             /\ ~ make => new.default = e.default /\ Active(new) = Active(e)
             /\ \A r \in Published(e) : new.number[r] = e.number[r]
             /\ rev \notin Published(e) => new.number[rev] = number
  <1> DEFINE status == IF make THEN "active" ELSE "trial"
             added == [e EXCEPT !.status[rev] = status, !.number[rev] = number]
             known == IF rev \in Published(e) THEN e ELSE added
             new == RegisterRelease(e, rev, number, status, make)
  <1>1. new = IF make THEN ActivateDefault(known, rev) ELSE known
    BY DEF RegisterRelease
  <1>2. /\ e.status \in [Revisions -> Statuses] /\ e.default \in Revisions \cup {None}
        /\ e.number \in [Revisions -> 0..Cardinality(Revisions)]
    BY DEF Entry
  <1>3. /\ added \in Entry /\ added.default = e.default
        /\ added.status = [e.status EXCEPT ![rev] = status]
        /\ added.number = [e.number EXCEPT ![rev] = number]
    BY <1>2 DEF Entry, Statuses
  <1> HIDE DEF added
  <1>4. CASE rev \in Published(e)
    <2>1. known = e /\ Published(e) \cup {rev} = Published(e)
      BY <1>4
    <2> HIDE DEF known, new
    <2>2. CASE make
      <3>1. new = ActivateDefault(e, rev)
        BY <1>1, <2>1, <2>2
      <3>2. /\ new \in Entry /\ new.default = rev /\ new.number = e.number
            /\ Active(new) = {rev} /\ Published(new) = Published(e) \cup {rev}
        BY <3>1, Activated DEF Active
      <3>3. QED
        BY <1>4, <2>2, <3>2 DEF new, status
    <2>3. CASE ~ make
      BY <1>1, <1>4, <2>1, <2>3 DEF new, status
    <2>4. QED
      BY <2>2, <2>3
  <1>5. CASE rev \notin Published(e)
    <2>1. known = added
      BY <1>5
    <2>2. status # "none" /\ (~ make => status # "active")
      OBVIOUS
    <2> HIDE DEF status
    <2>3. Published(added) = Published(e) \cup {rev}
      BY <1>2, <1>3, <2>2 DEF Published
    <2>4. e.status[rev] = "none"
      BY <1>5 DEF Published
    <2>5. ~ make => Active(added) = Active(e)
      BY <1>2, <1>3, <2>2, <2>4 DEF Active
    <2>6. added.number[rev] = number /\ \A r \in Published(e) : added.number[r] = e.number[r]
      BY <1>2, <1>3, <1>5 DEF Published
    <2> HIDE DEF known, new
    <2>7. CASE make
      <3>1. new = ActivateDefault(added, rev)
        BY <1>1, <2>1, <2>7
      <3>2. /\ new \in Entry /\ new.default = rev /\ new.number = added.number
            /\ Active(new) = {rev} /\ Published(new) = Published(added) \cup {rev}
        BY <1>3, <3>1, Activated DEF Active
      <3>3. QED
        BY <1>5, <2>3, <2>6, <2>7, <3>2 DEF new, status
    <2>8. CASE ~ make
      BY <1>1, <1>3, <1>5, <2>1, <2>3, <2>5, <2>6, <2>8 DEF new, status
    <2>9. QED
      BY <2>7, <2>8
  <1>6. QED
    BY <1>4, <1>5

(* A restart makes a release of everything in the archive, and moves the   *)
(* default only where there was none.                                      *)
LEMMA Restored ==
  ASSUME NEW e \in Entry, current \in Revisions, NEW found \in SUBSET Revisions,
         current \in found, NEW index \in [Revisions -> 0..Cardinality(Revisions)],
         \A r \in found : index[r] > 0
  PROVE  LET new == Reconciled(e, found, index)
         IN  /\ new \in Entry
             /\ Published(new) = Published(e) \cup found
             /\ Published(e) = {} => new.default = current /\ Active(new) = {current}
             /\ Published(e) # {} => new.default = e.default /\ Active(new) = Active(e)
             /\ \A r \in Revisions : e.number[r] > 0 \/ r \in found => new.number[r] > 0
  <1> DEFINE status == [r \in Revisions |-> IF e.status[r] = "none" /\ r \in found
                                           THEN "retired" ELSE e.status[r]]
             number == [r \in Revisions |-> IF e.number[r] = 0 /\ r \in found
                                           THEN index[r] ELSE e.number[r]]
             known == [e EXCEPT !.status = status, !.number = number]
             new == Reconciled(e, found, index)
  <1>1. new = IF Published(e) = {} THEN ActivateDefault(known, current) ELSE known
    BY DEF Reconciled
  <1>2. /\ e.status \in [Revisions -> Statuses] /\ e.default \in Revisions \cup {None}
        /\ e.number \in [Revisions -> 0..Cardinality(Revisions)]
    BY DEF Entry
  <1>3. status \in [Revisions -> Statuses]
    BY <1>2 DEF Statuses
  <1>4. number \in [Revisions -> 0..Cardinality(Revisions)]
    BY <1>2
  <1>5. {r \in Revisions : status[r] # "none"} = Published(e) \cup found
    BY DEF Published
  <1>6. {r \in Revisions : status[r] = "active"} = Active(e)
    BY DEF Active
  <1>7. Cardinality(Revisions) \in Nat
    BY BoundAssumption, FS_CardinalityType
  <1>8. \A r \in Revisions : e.number[r] \in Nat /\ index[r] \in Nat
    BY <1>2, <1>7
  <1>9. \A r \in Revisions : e.number[r] > 0 \/ r \in found => number[r] > 0
    BY <1>8
  <1> HIDE DEF status, number
  <1>10. known \in Entry /\ known.default = e.default
         /\ known.status = status /\ known.number = number
    BY <1>2, <1>3, <1>4 DEF Entry
  <1> HIDE DEF known, new
  <1>11. Published(known) = Published(e) \cup found /\ Active(known) = Active(e)
    BY <1>5, <1>6, <1>10 DEF Published, Active
  <1>12. CASE Published(e) = {}
    <2>1. new = ActivateDefault(known, current)
      BY <1>1, <1>12
    <2>2. /\ new \in Entry /\ new.default = current /\ new.number = number
          /\ Active(new) = {current} /\ Published(new) = Published(known) \cup {current}
      BY <1>10, <2>1, Activated DEF Active
    <2>3. QED
      BY <1>9, <1>11, <1>12, <2>2 DEF new
  <1>13. CASE Published(e) # {}
    BY <1>1, <1>9, <1>10, <1>11, <1>13 DEF new
  <1>14. QED
    BY <1>12, <1>13

-----------------------------------------------------------------------------
(***************************************************************************)
(* What a step leaves alone.                                               *)
(***************************************************************************)

(* What is archived stays so.                                              *)
Archived == /\ archive \subseteq archive'
            /\ \A p \in Prompts : shelf[p] # "none" => shelf'[p] # "none"

LEMMA PinsStay ==
  ASSUME IInv, Archived, UNCHANGED <<creator, tickets>>
  PROVE  PinsRetained' /\ TicketsPinned' /\ Pinned'
  <1>1. TicketsPinned' /\ Taken' = Taken
    BY DEF IInv, TicketsPinned, Taken
  <1>2. PinsRetained'
    BY <1>1 DEF IInv, PinsRetained, Archived, TicketsPinned, Taken
  <1>3. Pinned'
    BY DEF IInv, Pinned, Archived
  <1>4. QED
    BY <1>1, <1>2, <1>3

LEMMA CatalogStays ==
  ASSUME IInv, archive \subseteq archive', UNCHANGED <<current, numbers, releases, lib, reader, up>>
  PROVE  Released' /\ Indexes' /\ Settled'
  <1>1. Published(releases)' = Published(releases)
    BY DEF Published
  <1>2. Released'
    BY <1>1 DEF IInv, Released
  <1>3. Indexes'
    BY DEF IInv, Indexes, Dense, Numbers
  <1>4. Settled'
    BY <1>1 DEF IInv, Settled
  <1>5. QED
    BY <1>2, <1>3, <1>4

(* The width of the numbers does not change.                               *)
LEMMA Typed ==
  ASSUME IInv
  PROVE  /\ numbers \in Index /\ Dense(numbers)
         /\ lib.seen \in Index /\ Dense(lib.seen)
         /\ reader.seen \in Index /\ Dense(reader.seen)
         /\ releases \in Entry
  <1>1. Cardinality(Revisions) \in Nat
    BY BoundAssumption, FS_CardinalityType
  <1>2. numbers \in Index
    BY <1>1 DEF IInv, TypeOK, Index
  <1>3. lib.seen \in Index /\ reader.seen \in Index
    BY DEF IInv, TypeOK, Index, Writer
  <1>4. QED
    BY <1>2, <1>3 DEF IInv, Indexes, TypeOK

(* Nobody writes, nobody reads.                                            *)
LEMMA RestingTyped ==
  /\ Resting \in Writer /\ Resting.at = "idle" /\ Dense(Resting.seen)
  /\ NoReader.at = "idle" /\ NoReader.seen = Unnumbered /\ Dense(NoReader.seen)
  /\ NoReader \in [at : {"idle", "number"}, rev : Revisions \cup {None},
                   seen : [Revisions -> Nat]]
  /\ Unnumbered \in Index /\ Dense(Unnumbered)
  <1>1. Unnumbered \in Index /\ \A r \in Revisions : Unnumbered[r] = 0
    BY DEF Unnumbered, Index
  <1>2. Numbers(Unnumbered) = {}
    BY <1>1 DEF Numbers
  <1>3. Dense(Unnumbered)
    BY <1>1, <1>2, FS_EmptySet DEF Dense
  <1> DEFINE u == Unnumbered
  <1>4. /\ Resting = [at |-> "idle", rev |-> None, make |-> FALSE, seen |-> u, bundle |-> FALSE]
        /\ NoReader = [at |-> "idle", rev |-> None, seen |-> u]
        /\ u \in [Revisions -> Nat]
    BY <1>1 DEF Resting, NoReader, Index
  <1> HIDE DEF u
  <1>5. /\ Resting \in Writer /\ Resting.at = "idle" /\ Resting.seen = u
        /\ NoReader.at = "idle" /\ NoReader.seen = u
        /\ NoReader \in [at : {"idle", "number"}, rev : Revisions \cup {None},
                         seen : [Revisions -> Nat]]
    BY <1>4 DEF Writer
  <1>6. Dense(Resting.seen) /\ Dense(NoReader.seen)
    BY <1>3, <1>5 DEF Dense, Numbers, u
  <1>7. QED
    BY <1>1, <1>3, <1>5, <1>6 DEF u

-----------------------------------------------------------------------------
(***************************************************************************)
(* The publication of a revision.                                          *)
(***************************************************************************)

LEMMA PromoteKeeps ==
  ASSUME IInv, NEW rev \in Revisions, Promote(rev)
  PROVE  IInv'
  <1>1. /\ releases' \in Entry /\ releases'.default = rev /\ releases'.number = releases.number
        /\ {r \in Revisions : releases'.status[r] = "active"} = {rev}
        /\ Published(releases)' = Published(releases) /\ rev \in Published(releases)
    <2>1. releases' = ActivateDefault(releases, rev) /\ rev \in Published(releases)
      BY DEF Promote
    <2>2. Published(releases') = Published(releases)
      <3>1. Published(releases') = Published(releases) \cup {rev}
        BY <2>1, Typed, Activated
      <3>2. QED
        BY <2>1, <3>1
    <2>3. QED
      BY SMTT(60), <2>1, <2>2, Typed, Activated DEF Published
  <1>2. /\ numbers' \in [Revisions -> 0..Cardinality(Revisions)] /\ Dense(numbers')
    BY Typed, NumberedDense, DenseBounded DEF Promote
  <1>3. TypeOK'
    BY <1>1, <1>2, BoundAssumption DEF IInv, TypeOK, Promote, Request, Touch, requests, rest
  <1>4. Released'
    BY <1>1 DEF IInv, Released, Promote
  <1>5. Indexes'
    BY <1>2 DEF IInv, Indexes, Dense, Numbers, Promote, requests
  <1>6. Writing' /\ Settled'
    BY <1>1 DEF IInv, Writing, Settled, Promote, requests, rest
  <1>7. PinsRetained' /\ TicketsPinned' /\ Pinned'
    BY PinsStay DEF Archived, Promote, requests, rest
  <1>8. QED
    BY <1>3, <1>4, <1>5, <1>6, <1>7 DEF IInv

(* A save begins: the family has a release already, or it will make one.   *)
LEMMA BeginSaveKeeps ==
  ASSUME IInv, NEW rev \in Revisions, NEW make \in BOOLEAN, NEW bundle \in BOOLEAN,
         BeginSave(rev, make, bundle)
  PROVE  /\ lib' \in Writer /\ lib'.at = "write" /\ lib'.rev = rev /\ lib'.bundle = bundle
         /\ lib'.make = (make \/ current = None) /\ lib'.seen = Unnumbered
         /\ Dense(lib'.seen)
         /\ archive' \subseteq Revisions /\ archive \subseteq archive'
         /\ up /\ lib.at = "idle"
  <1>1. lib' = [at |-> "write", rev |-> rev, make |-> (make \/ current = None),
                seen |-> Unnumbered, bundle |-> bundle]
    BY DEF BeginSave, Resting
  <1>2. Unnumbered \in Index /\ Dense(Unnumbered)
    BY RestingTyped
  <1>3. archive' \subseteq Revisions /\ archive \subseteq archive'
    BY DEF IInv, TypeOK, BeginSave
  <1>4. lib' \in Writer
    BY <1>1, <1>2 DEF Writer, Index
  <1>5. /\ lib'.at = "write" /\ lib'.rev = rev /\ lib'.bundle = bundle
        /\ lib'.make = (make \/ current = None) /\ lib'.seen = Unnumbered
    BY <1>1
  <1>6. Dense(lib'.seen)
    BY <1>2, <1>5 DEF Dense, Numbers
  <1>7. QED
    BY <1>3, <1>4, <1>5, <1>6 DEF BeginSave

LEMMA SaveKeeps ==
  ASSUME IInv, NEW rev \in Revisions, NEW make \in BOOLEAN, Save(rev, make)
  PROVE  IInv'
  <1>1. /\ lib' \in Writer /\ lib'.at = "write" /\ lib'.rev = rev /\ lib'.bundle = FALSE
        /\ lib'.make = (make \/ current = None)
        /\ Dense(lib'.seen)
        /\ archive' \subseteq Revisions /\ archive \subseteq archive'
        /\ up /\ lib.at = "idle"
    BY BeginSaveKeeps DEF Save
  <1>2. TypeOK'
    BY <1>1, BoundAssumption DEF IInv, TypeOK, Save, Request, Touch, requests, rest
  <1>3. Published(releases)' = Published(releases)
    BY DEF Published, Save
  <1>4. Released'
    BY <1>1, <1>3 DEF IInv, Released, Save
  <1>5. Indexes'
    BY <1>1 DEF IInv, Indexes, Dense, Numbers, Save, requests
  <1>6. Writing' /\ Settled'
    BY <1>1, <1>3 DEF IInv, Writing, Settled, Save, requests, rest
  <1>7. PinsRetained' /\ TicketsPinned' /\ Pinned'
    BY <1>1, PinsStay DEF Archived, Save, requests, rest
  <1>8. QED
    BY <1>2, <1>4, <1>5, <1>6, <1>7 DEF IInv

LEMMA WriteFileKeeps ==
  ASSUME IInv, WriteFile
  PROVE  IInv'
  <1>1. /\ up /\ lib.at = "write" /\ current' = lib.rev /\ lib' = [lib EXCEPT !.at = "keep"]
        /\ lib.rev \in Revisions /\ lib.rev # None /\ lib \in Writer
    BY NoneAssumption DEF IInv, Writing, TypeOK, WriteFile
  <1>2. /\ lib' \in Writer /\ lib'.at = "keep" /\ lib'.rev = lib.rev /\ lib'.make = lib.make
        /\ lib'.seen = lib.seen /\ lib'.bundle = lib.bundle
    BY <1>1 DEF Writer
  <1>3. TypeOK'
    BY <1>1, <1>2 DEF IInv, TypeOK, WriteFile, requests, rest
  <1>4. Published(releases)' = Published(releases)
    BY DEF Published, WriteFile
  <1>5. Released'
    BY <1>4 DEF IInv, Released, WriteFile
  <1>6. Indexes'
    BY <1>2 DEF IInv, Indexes, Dense, Numbers, WriteFile, requests
  <1>7. Writing' /\ Settled'
    BY <1>1, <1>2, <1>4 DEF IInv, Writing, Settled, WriteFile, requests, rest
  <1>8. PinsRetained' /\ TicketsPinned' /\ Pinned'
    BY PinsStay DEF Archived, WriteFile, requests, rest
  <1>9. QED
    BY <1>3, <1>5, <1>6, <1>7, <1>8 DEF IInv

LEMMA KeepKeeps ==
  ASSUME IInv, Keep
  PROVE  IInv'
  <1>1. /\ up /\ lib.at = "keep" /\ lib' = [lib EXCEPT !.at = "number", !.seen = numbers]
        /\ archive' = archive \cup {lib.rev} /\ lib.rev \in Revisions /\ lib \in Writer
    BY DEF IInv, Writing, TypeOK, Keep
  <1>2. numbers \in [Revisions -> Nat]
    BY Typed DEF Index
  <1>3. /\ lib' \in Writer /\ lib'.at = "number" /\ lib'.rev = lib.rev /\ lib'.make = lib.make
        /\ lib'.seen = numbers /\ lib'.bundle = lib.bundle
    BY <1>1, <1>2 DEF Writer
  <1>4. TypeOK'
    BY <1>1, <1>3 DEF IInv, TypeOK, Keep, requests, rest
  <1>5. Published(releases)' = Published(releases)
    BY DEF Published, Keep
  <1>6. Released'
    BY <1>1, <1>5 DEF IInv, Released, Keep
  <1>7. Indexes'
    BY <1>3 DEF IInv, Indexes, Dense, Numbers, Keep, requests
  <1>8. Writing' /\ Settled'
    BY <1>1, <1>3, <1>5 DEF IInv, Writing, Settled, Keep, requests, rest
  <1>9. PinsRetained' /\ TicketsPinned' /\ Pinned'
    BY <1>1, PinsStay DEF Archived, Keep, requests, rest
  <1>10. QED
    BY <1>4, <1>6, <1>7, <1>8, <1>9 DEF IInv

LEMMA NumberKeeps ==
  ASSUME IInv, Number
  PROVE  IInv'
  <1> DEFINE new == Numbered(lib.seen, lib.rev)
  <1>1. /\ up /\ lib.at = "number" /\ lib' = [lib EXCEPT !.at = "register", !.seen = new]
        /\ numbers' = IF lib.seen[lib.rev] > 0 THEN numbers ELSE new
        /\ lib.rev \in Revisions /\ lib \in Writer
    BY DEF IInv, Writing, TypeOK, Number
  <1>2. new \in Index /\ Dense(new) /\ new[lib.rev] > 0
    BY <1>1, Typed, NumberedDense
  <1> HIDE DEF new
  <1>3. /\ lib' \in Writer /\ lib'.at = "register" /\ lib'.rev = lib.rev /\ lib'.make = lib.make
        /\ lib'.seen = new /\ lib'.bundle = lib.bundle
    BY <1>1, <1>2 DEF Writer, Index
  <1>4. numbers' \in [Revisions -> 0..Cardinality(Revisions)] /\ Dense(numbers')
    BY <1>1, <1>2, Typed, DenseBounded
  <1>5. TypeOK'
    BY <1>3, <1>4 DEF IInv, TypeOK, Number, requests, rest
  <1>6. Published(releases)' = Published(releases)
    BY DEF Published, Number
  <1>7. Released'
    BY <1>6 DEF IInv, Released, Number
  <1>8. Indexes'
    BY <1>2, <1>3, <1>4 DEF IInv, Indexes, Dense, Numbers, Number, requests
  <1>9. Writing' /\ Settled'
    BY <1>1, <1>2, <1>3, <1>6 DEF IInv, Writing, Settled, Number, requests, rest
  <1>10. PinsRetained' /\ TicketsPinned' /\ Pinned'
    BY PinsStay DEF Archived, Number, requests, rest
  <1>11. QED
    BY <1>5, <1>7, <1>8, <1>9, <1>10 DEF IInv

LEMMA RegisterKeeps ==
  ASSUME IInv, Register
  PROVE  IInv'
  <1> DEFINE rev == lib.rev
             number == lib.seen[lib.rev]
             make == lib.make
             new == RegisterRelease(releases, rev, number, IF make THEN "active" ELSE "trial", make)
  <1>1. /\ up /\ lib.at = "register" /\ releases' = new /\ lib' = Resting
        /\ rev \in Revisions /\ rev \in archive /\ number > 0 /\ current # None
        /\ make \/ Published(releases) # {}
        /\ lib \in Writer /\ releases \in Entry
    BY DEF IInv, Writing, TypeOK, Register
  <1>2. number \in 0..Cardinality(Revisions) /\ make \in BOOLEAN
    <2>1. lib.seen \in [Revisions -> 0..Cardinality(Revisions)]
      BY Typed, DenseBounded
    <2>2. QED
      BY <1>1, <2>1 DEF Writer
  <1>3. /\ new \in Entry
        /\ Published(new) = Published(releases) \cup {rev}
        /\ make => new.default = rev /\ Active(new) = {rev}
        /\ ~ make => new.default = releases.default /\ Active(new) = Active(releases)
        /\ \A r \in Published(releases) : new.number[r] = releases.number[r]
        /\ rev \notin Published(releases) => new.number[rev] = number
    <2> HIDE DEF rev, number, make
    <2>1. releases \in Entry /\ rev \in Revisions
      BY <1>1
    <2>2. QED
      BY <1>2, <2>1, Registered
  <1> HIDE DEF new, number
  <1>4. Published(releases)' = Published(releases) \cup {rev}
    BY <1>1, <1>3 DEF Published
  <1>5. Released'
    <2>1. Active(releases') = {releases'.default}
      BY <1>1, <1>3 DEF IInv, Released, Active
    <2>2. \A r \in Published(releases) \cup {rev} : r \in archive /\ new.number[r] > 0
      BY <1>1, <1>3 DEF IInv, Released
    <2>3. QED
      BY <1>1, <1>4, <2>1, <2>2 DEF Released, Register, Active
  <1>6. /\ Resting \in Writer /\ Resting.at = "idle" /\ Dense(Resting.seen)
    BY RestingTyped
  <1>7. /\ import' \in Import
        /\ import' = import \/ lib.bundle
        /\ import'.at # "idle" => import'.rev \in Revisions /\ import'.prompt \in Prompts
    <2>1. import \in Import /\ (lib.bundle => import.at = "saving")
      BY <1>1 DEF IInv, TypeOK, Writing
    <2>2. CASE lib.bundle /\ import.base # None
      <3>1. import' = [import EXCEPT !.at = "activate"]
        BY <2>2 DEF Register
      <3>2. import.rev \in Revisions /\ import.prompt \in Prompts
        BY <2>1, <2>2 DEF IInv, Writing
      <3>3. QED
        BY <2>1, <2>2, <3>1, <3>2 DEF Import
    <2>3. CASE lib.bundle /\ import.base = None
      <3>1. import' = NoImport
        BY <2>3 DEF Register
      <3>2. QED
        BY <2>3, <3>1 DEF Import, NoImport
    <2>4. CASE ~ lib.bundle
      BY <2>1, <2>4 DEF Register, IInv, Writing
    <2>5. QED
      BY <2>2, <2>3, <2>4
  <1>8. TypeOK'
    BY <1>1, <1>3, <1>6, <1>7 DEF IInv, TypeOK, Register, rest
  <1>9. Indexes'
    BY <1>1, <1>6 DEF IInv, Indexes, Dense, Numbers, Register
  <1>10. Settled'
    BY <1>1, <1>4 DEF Settled, Register
  <1>11. Writing'
    BY <1>1, <1>6, <1>7 DEF IInv, Writing, Register, rest
  <1>12. PinsRetained' /\ TicketsPinned' /\ Pinned'
    BY PinsStay DEF Archived, Register, rest
  <1>13. QED
    BY <1>5, <1>8, <1>9, <1>10, <1>11, <1>12 DEF IInv

-----------------------------------------------------------------------------
(***************************************************************************)
(* Lists of the workflows, and edits of the prompt.                        *)
(***************************************************************************)

LEMMA ListKeeps ==
  ASSUME IInv, List
  PROVE  IInv'
  <1>1. /\ current \in Revisions /\ archive' = archive \cup {current}
        /\ reader' = [at |-> "number", rev |-> current, seen |-> numbers]
    BY DEF IInv, TypeOK, List
  <1>2. numbers \in [Revisions -> Nat]
    BY Typed DEF Index
  <1>3. TypeOK'
    BY <1>1, <1>2, BoundAssumption DEF IInv, TypeOK, List, Request, Touch, rest
  <1>4. Published(releases)' = Published(releases)
    BY DEF Published, List
  <1>5. Released'
    BY <1>1, <1>4 DEF IInv, Released, List
  <1>6. Indexes'
    BY <1>1 DEF IInv, Indexes, Dense, Numbers, List
  <1>7. Writing' /\ Settled'
    BY <1>1, <1>4 DEF IInv, Writing, Settled, List, rest
  <1>8. PinsRetained' /\ TicketsPinned' /\ Pinned'
    BY <1>1, PinsStay DEF Archived, List, rest
  <1>9. QED
    BY <1>3, <1>5, <1>6, <1>7, <1>8 DEF IInv

LEMMA ListedKeeps ==
  ASSUME IInv, Listed
  PROVE  IInv'
  <1> DEFINE new == Numbered(reader.seen, reader.rev)
  <1>1. /\ reader.rev \in Revisions /\ reader' = NoReader
        /\ numbers' = IF reader.seen[reader.rev] > 0 THEN numbers ELSE new
    BY DEF IInv, Writing, Listed
  <1>2. new \in Index /\ Dense(new)
    BY <1>1, Typed, NumberedDense
  <1> HIDE DEF new
  <1>3. numbers' \in [Revisions -> 0..Cardinality(Revisions)] /\ Dense(numbers')
    BY <1>1, <1>2, Typed, DenseBounded
  <1>4. /\ NoReader.at = "idle" /\ NoReader.seen = Unnumbered /\ Dense(NoReader.seen)
        /\ NoReader \in [at : {"idle", "number"}, rev : Revisions \cup {None},
                         seen : [Revisions -> Nat]]
    BY RestingTyped
  <1>5. TypeOK'
    BY <1>1, <1>3, <1>4 DEF IInv, TypeOK, Listed, rest
  <1>6. Published(releases)' = Published(releases)
    BY DEF Published, Listed
  <1>7. Released'
    BY <1>6 DEF IInv, Released, Listed
  <1>8. Indexes'
    BY <1>1, <1>3, <1>4 DEF IInv, Indexes, Dense, Numbers, Listed
  <1>9. Writing' /\ Settled'
    BY <1>1, <1>4, <1>6 DEF IInv, Writing, Settled, Listed, rest
  <1>10. PinsRetained' /\ TicketsPinned' /\ Pinned'
    BY PinsStay DEF Archived, Listed, rest
  <1>11. QED
    BY <1>5, <1>7, <1>8, <1>9, <1>10 DEF IInv

(* An edit of the prompt leaves the workflow alone, and of an import only  *)
(* the part that is about the prompt.                                      *)
LEMMA PromptKeeps ==
  ASSUME IInv, Archived,
         UNCHANGED <<current, archive, numbers, releases, lib, reader, creator, tickets,
                     given, up, crashes>>,
         prompt' \in Prompts, shelf' \in [Prompts -> {"none", "torn", "whole"}],
         edit' \in Edit, import' \in Import, asked' \in 0..MaxRequests,
         edit'.at # "idle" => /\ edit'.base \in Prompts /\ edit'.rev \in Prompts
                              /\ edit'.bundle => import'.at = "prompting",
         import'.at # "idle" => import'.rev \in Revisions /\ import'.prompt \in Prompts,
         import' = import \/ import.at \in {"prompt", "prompting"}
  PROVE  IInv'
  <1>1. TypeOK'
    BY DEF IInv, TypeOK
  <1>2. Released' /\ Indexes' /\ Settled'
    BY CatalogStays
  <1>3. Published(releases)' = Published(releases)
    BY DEF Published
  <1>4. Writing'
    BY <1>3 DEF IInv, Writing
  <1>5. PinsRetained' /\ TicketsPinned' /\ Pinned'
    BY PinsStay
  <1>6. QED
    BY <1>1, <1>2, <1>4, <1>5 DEF IInv

(* What IInv says of the prompt, the import and the requests.              *)
LEMMA PromptTyped ==
  ASSUME IInv
  PROVE  /\ prompt \in Prompts /\ shelf \in [Prompts -> {"none", "torn", "whole"}]
         /\ edit \in Edit /\ import \in Import /\ asked \in 0..MaxRequests
         /\ NoEdit \in Edit /\ NoEdit.at = "idle"
         /\ NoImport \in Import /\ NoImport.at = "idle"
         /\ edit.at # "idle" => /\ edit.base \in Prompts /\ edit.rev \in Prompts
                                /\ edit.bundle => import.at = "prompting"
         /\ import.at # "idle" => import.rev \in Revisions /\ import.prompt \in Prompts
         /\ Touch => asked' \in 0..MaxRequests
  BY BoundAssumption DEF IInv, TypeOK, Writing, NoEdit, NoImport, Edit, Import, Touch

(* To archive a prompt loses none.                                         *)
LEMMA ArchivingKeeps ==
  ASSUME IInv, NEW p \in Prompts, Archiving(p) \/ Fill(p)
  PROVE  /\ shelf' \in [Prompts -> {"none", "torn", "whole"}] /\ shelf'[p] # "none"
         /\ \A q \in Prompts : shelf[q] # "none" => shelf'[q] # "none"
  BY PromptTyped DEF Archiving, Fill

LEMMA EditKeeps ==
  ASSUME IInv, (\E p \in Prompts : Update(p)) \/ Editing
  PROVE  IInv'
  <1> USE DEF requests, rest, workflow
  <1>1. ASSUME NEW p \in Prompts, Update(p) PROVE IInv'
    <2>1. /\ edit' = [at |-> "old", base |-> prompt, rev |-> p, bundle |-> FALSE]
          /\ prompt \in Prompts
      BY <1>1, PromptTyped DEF Update, BeginEdit
    <2>2. edit' \in Edit /\ edit'.base \in Prompts /\ edit'.rev \in Prompts /\ ~ edit'.bundle
      BY <2>1 DEF Edit
    <2>3. QED
      BY <1>1, <2>1, <2>2, PromptTyped, PromptKeeps DEF Update, Request, Archived
  <1>2. CASE EditRefused
    <2>1. import' = import \/ (import' = NoImport /\ import.at = "prompting")
      BY <1>2, PromptTyped DEF EditRefused
    <2>2. QED
      BY <1>2, <2>1, PromptTyped, PromptKeeps DEF EditRefused, Archived
  <1>3. CASE KeepOld
    <2>1. /\ shelf' \in [Prompts -> {"none", "torn", "whole"}]
          /\ \A q \in Prompts : shelf[q] # "none" => shelf'[q] # "none"
      BY <1>3, PromptTyped, ArchivingKeeps DEF KeepOld
    <2>2. /\ edit' \in Edit /\ edit'.base \in Prompts /\ edit'.rev \in Prompts
          /\ edit'.bundle => import.at = "prompting"
      BY <1>3, PromptTyped DEF KeepOld, Edit, AfterOpening
    <2>3. QED
      BY <1>3, <2>1, <2>2, PromptTyped, PromptKeeps DEF KeepOld, Archived
  <1>4. CASE FillOld
    <2>1. /\ shelf' \in [Prompts -> {"none", "torn", "whole"}]
          /\ \A q \in Prompts : shelf[q] # "none" => shelf'[q] # "none"
      BY <1>4, PromptTyped, ArchivingKeeps DEF FillOld
    <2>2. /\ edit' \in Edit /\ edit'.base \in Prompts /\ edit'.rev \in Prompts
          /\ edit'.bundle => import.at = "prompting"
      BY <1>4, PromptTyped DEF FillOld, Edit
    <2>3. QED
      BY <1>4, <2>1, <2>2, PromptTyped, PromptKeeps DEF FillOld, Archived
  <1>5. CASE Rename
    <2>1. /\ edit' \in Edit /\ edit'.base \in Prompts /\ edit'.rev \in Prompts
          /\ edit'.bundle => import.at = "prompting"
          /\ prompt' \in Prompts
      BY <1>5, PromptTyped DEF Rename, Edit
    <2>2. QED
      BY <1>5, <2>1, PromptTyped, PromptKeeps DEF Rename, Archived
  <1>6. ASSUME EndEdit, edit.at # "idle"
        PROVE  /\ edit' = NoEdit /\ import' \in Import
               /\ import' = import \/ import.at = "prompting"
               /\ import'.at # "idle" => import'.rev \in Revisions /\ import'.prompt \in Prompts
    <2>1. CASE edit.bundle
      BY <1>6, <2>1, PromptTyped DEF EndEdit, Import
    <2>2. CASE ~ edit.bundle
      BY <1>6, <2>2, PromptTyped DEF EndEdit
    <2>3. QED
      BY <2>1, <2>2
  <1>7. CASE KeepNew
    <2>1. edit.at # "idle" /\ edit.rev \in Prompts
      BY <1>7, PromptTyped DEF KeepNew
    <2>2. /\ shelf' \in [Prompts -> {"none", "torn", "whole"}]
          /\ \A q \in Prompts : shelf[q] # "none" => shelf'[q] # "none"
      BY <1>7, <2>1, ArchivingKeeps DEF KeepNew
    <2>3. CASE shelf[edit.rev] = "none"
      <3>1. /\ edit' \in Edit /\ edit'.base \in Prompts /\ edit'.rev \in Prompts
            /\ edit'.bundle => import.at = "prompting"
            /\ import' = import
        BY <1>7, <2>3, PromptTyped DEF KeepNew, Edit
      <3>2. QED
        BY <1>7, <2>2, <3>1, PromptTyped, PromptKeeps DEF KeepNew, Archived
    <2>4. CASE shelf[edit.rev] # "none"
      BY <1>6, <1>7, <2>1, <2>2, <2>4, PromptTyped, PromptKeeps DEF KeepNew, Archived
    <2>5. QED
      BY <2>3, <2>4
  <1>8. CASE FillNew
    <2>1. edit.at # "idle" /\ edit.rev \in Prompts
      BY <1>8, PromptTyped DEF FillNew
    <2>2. /\ shelf' \in [Prompts -> {"none", "torn", "whole"}]
          /\ \A q \in Prompts : shelf[q] # "none" => shelf'[q] # "none"
      BY <1>8, <2>1, ArchivingKeeps DEF FillNew
    <2>3. QED
      BY <1>6, <1>8, <2>1, <2>2, PromptTyped, PromptKeeps DEF FillNew, Archived
  <1>9. QED
    BY <1>1, <1>2, <1>3, <1>4, <1>5, <1>7, <1>8 DEF Editing

LEMMA HandEditPromptKeeps ==
  ASSUME IInv, NEW p \in Prompts, HandEditPrompt(p)
  PROVE  IInv'
  BY PromptTyped, PromptKeeps DEF HandEditPrompt, Archived, workflow, requests, rest

-----------------------------------------------------------------------------
(***************************************************************************)
(* Tickets.                                                                *)
(***************************************************************************)

(* What a request has found for its ticket is in the archives.             *)
Holds(new) == /\ new.at \in {"prompt", "fill", "create"} => new.rev \in archive
              /\ new.at \in {"fill", "create"} => new.prompt \in Prompts /\ shelf'[new.prompt] # "none"

LEMMA RequestKeeps ==
  ASSUME IInv, Archived, NEW c \in Creators, NEW new \in Creator, Step(c, new), Holds(new),
         UNCHANGED <<current, archive, releases, prompt, lib, edit, reader, import, tickets,
                     up, crashes>>,
         numbers' \in [Revisions -> 0..Cardinality(Revisions)], Dense(numbers'),
         shelf' \in [Prompts -> {"none", "torn", "whole"}],
         given' \in 1..MaxId + 1, asked' \in 0..MaxRequests
  PROVE  IInv'
  <1>1. /\ creator' \in [Creators -> Creator]
        /\ \A d \in Creators : creator'[d] = IF d = c THEN new ELSE creator[d]
    BY DEF IInv, TypeOK, Step
  <1>2. TypeOK'
    BY <1>1 DEF IInv, TypeOK
  <1>3. Published(releases)' = Published(releases)
    BY DEF Published
  <1>4. Released' /\ Writing' /\ Settled'
    BY <1>3 DEF IInv, Released, Writing, Settled
  <1>5. Indexes'
    BY DEF IInv, Indexes, Dense, Numbers
  <1>6. Pinned'
    BY <1>1 DEF IInv, Pinned, Holds, Archived
  <1>7. TicketsPinned' /\ Taken' = Taken
    BY DEF IInv, TicketsPinned, Taken
  <1>8. PinsRetained'
    BY <1>7 DEF IInv, PinsRetained, Archived, TicketsPinned, Taken
  <1>9. QED
    BY <1>2, <1>4, <1>5, <1>6, <1>7, <1>8 DEF IInv

LEMMA CreatingKeeps ==
  ASSUME IInv, NEW c \in Creators,
         \/ Allocate(c) \/ Assign(c) \/ PinPrompt(c) \/ FillPin(c)
         \/ \E i \in Ids : Choose(c, i)
  PROVE  IInv'
  <1> USE DEF requests, rest, workflow
  <1> DEFINE old == creator[c]
  <1>1. /\ old \in Creator /\ given \in 1..MaxId + 1 /\ MaxId \in Nat
        /\ numbers \in [Revisions -> 0..Cardinality(Revisions)] /\ Dense(numbers)
        /\ archive \subseteq Revisions
    BY BoundAssumption DEF IInv, TypeOK, Indexes
  <1>2. /\ old.at \in {"prompt", "fill", "create"} => old.rev \in archive
        /\ old.at \in {"fill", "create"} => old.prompt \in Prompts /\ shelf[old.prompt] # "none"
    BY DEF IInv, Pinned
  <1>3. ASSUME NEW i \in Ids
        PROVE  [NoCreator EXCEPT !.at = "assign", !.id = i] \in Creator
               /\ [NoCreator EXCEPT !.at = "assign", !.id = i].at = "assign"
    BY DEF NoCreator, Creator
  <1>4. CASE Allocate(c)
    <2>1. PICK i \in given..MaxId : /\ given' = i + 1
                                   /\ Step(c, [NoCreator EXCEPT !.at = "assign", !.id = i])
      BY <1>4 DEF Allocate
    <2>2. i \in Ids /\ given' \in 1..MaxId + 1
      BY <1>1, <2>1 DEF Ids
    <2> DEFINE new == [NoCreator EXCEPT !.at = "assign", !.id = i]
    <2>3. new \in Creator /\ new.at = "assign" /\ Step(c, new)
      BY <1>3, <2>1, <2>2
    <2> HIDE DEF new
    <2>4. Holds(new)
      BY <2>3 DEF Holds
    <2>5. QED
      BY <1>1, <1>4, <2>2, <2>3, <2>4, PromptTyped, RequestKeeps DEF Allocate, Request, Archived
  <1>5. CASE \E i \in Ids : Choose(c, i)
    <2>1. PICK i \in Ids : Choose(c, i)
      BY <1>5
    <2> DEFINE new == [NoCreator EXCEPT !.at = "assign", !.id = i]
    <2>2. new \in Creator /\ new.at = "assign" /\ Step(c, new)
      BY <1>3, <2>1 DEF Choose
    <2> HIDE DEF new
    <2>3. Holds(new)
      BY <2>2 DEF Holds
    <2>4. QED
      BY <1>1, <2>1, <2>2, <2>3, PromptTyped, RequestKeeps DEF Choose, Request, Archived
  <1>6. CASE Assign(c)
    <2>1. CASE Step(c, NoCreator) /\ UNCHANGED numbers
      <3>1. NoCreator \in Creator /\ Holds(NoCreator)
        <4>1. 1 \in Ids
          BY <1>1, <1>2, BoundAssumption DEF Ids, Creator
        <4>2. QED
          BY <4>1 DEF NoCreator, Creator, Holds
      <3>2. QED
        BY <1>1, <1>6, <2>1, <3>1, PromptTyped, RequestKeeps DEF Assign, Archived
    <2>2. CASE \E r \in Assignable \cap archive :
                  /\ Step(c, [creator[c] EXCEPT !.at = "prompt", !.rev = r])
                  /\ numbers' = Numbered(numbers, r)
      <3>1. PICK r \in Assignable \cap archive :
                  /\ Step(c, [creator[c] EXCEPT !.at = "prompt", !.rev = r])
                  /\ numbers' = Numbered(numbers, r)
        BY <2>2
      <3>2. r \in Revisions /\ r \in archive
        BY <1>1, <3>1
      <3>3. numbers' \in [Revisions -> 0..Cardinality(Revisions)] /\ Dense(numbers')
        BY <3>1, <3>2, Typed, NumberedDense, DenseBounded
      <3> DEFINE new == [old EXCEPT !.at = "prompt", !.rev = r]
      <3>4. new \in Creator /\ new.at = "prompt" /\ new.rev = r /\ Step(c, new)
        BY <1>1, <3>1, <3>2 DEF Creator
      <3> HIDE DEF new
      <3>5. Holds(new)
        BY <3>2, <3>4 DEF Holds
      <3>6. QED
        BY <1>6, <1>1, <3>3, <3>4, <3>5, PromptTyped, RequestKeeps DEF Assign, Archived
    <2>3. QED
      BY <1>6, <2>1, <2>2 DEF Assign
  <1>7. CASE PinPrompt(c)
    <2>1. /\ shelf' \in [Prompts -> {"none", "torn", "whole"}] /\ shelf'[prompt] # "none"
          /\ \A q \in Prompts : shelf[q] # "none" => shelf'[q] # "none"
          /\ prompt \in Prompts
      BY <1>7, PromptTyped, ArchivingKeeps DEF PinPrompt
    <2> DEFINE new == [old EXCEPT !.prompt = prompt, !.at = AfterOpening(prompt, "fill", "create")]
    <2>2. /\ new \in Creator /\ new.prompt = prompt /\ new.rev = old.rev /\ Step(c, new)
      BY <1>1, <1>7, <2>1 DEF PinPrompt, Creator, AfterOpening
    <2> HIDE DEF new
    <2>3. Holds(new)
      BY <1>2, <1>7, <2>1, <2>2 DEF Holds, PinPrompt
    <2>4. QED
      BY <1>1, <1>7, <2>1, <2>2, <2>3, PromptTyped, RequestKeeps DEF PinPrompt, Archived
  <1>8. CASE FillPin(c)
    <2>1. /\ shelf' \in [Prompts -> {"none", "torn", "whole"}]
          /\ \A q \in Prompts : shelf[q] # "none" => shelf'[q] # "none"
      BY <1>2, <1>8, ArchivingKeeps DEF FillPin
    <2> DEFINE new == [old EXCEPT !.at = "create"]
    <2>2. /\ new \in Creator /\ new.prompt = old.prompt /\ new.rev = old.rev /\ Step(c, new)
      BY <1>1, <1>8 DEF FillPin, Creator
    <2> HIDE DEF new
    <2>3. Holds(new)
      BY <1>2, <1>8, <2>1, <2>2 DEF Holds, FillPin
    <2>4. QED
      BY <1>1, <1>8, <2>1, <2>2, <2>3, PromptTyped, RequestKeeps DEF FillPin, Archived
  <1>9. QED
    BY <1>4, <1>5, <1>6, <1>7, <1>8

(* The number of a ticket is taken once: two requests may hold the same.   *)
LEMMA CreateKeeps ==
  ASSUME IInv, NEW c \in Creators, Create(c)
  PROVE  IInv'
  <1> DEFINE new == creator[c]
             ticket == [count |-> tickets[new.id].count + 1, rev |-> new.rev, prompt |-> new.prompt]
  <1>1. /\ new \in Creator /\ new.id \in Ids /\ new.at = "create"
        /\ new.rev \in archive /\ new.prompt \in Prompts /\ shelf[new.prompt] # "none"
        /\ tickets \in [Ids -> Ticket] /\ archive \subseteq Revisions
    BY DEF IInv, TypeOK, Pinned, Create, Creator
  <1>2. /\ creator' \in [Creators -> Creator]
        /\ \A d \in Creators : creator'[d].at = "idle" \/ creator'[d] = creator[d]
    <2>1. NoCreator \in Creator /\ NoCreator.at = "idle"
      <3>1. 1 \in Ids
        BY <1>1, BoundAssumption DEF Ids
      <3>2. QED
        BY <3>1 DEF NoCreator, Creator
    <2>2. QED
      BY <2>1 DEF IInv, TypeOK, Create, Step
  <1>3. /\ tickets' \in [Ids -> Ticket]
        /\ \A i \in Ids : \/ tickets'[i] = tickets[i]
                         \/ /\ tickets'[i].count = 1 /\ tickets'[i].rev = new.rev
                            /\ tickets'[i].prompt = new.prompt
    <2>1. CASE new.id \in Taken
      BY <1>1, <2>1 DEF Create
    <2>2. CASE new.id \notin Taken
      <3>1. tickets[new.id].count \in Nat /\ ~ (tickets[new.id].count > 0)
        BY <1>1, <2>2 DEF Taken, Ticket
      <3>2. ticket \in Ticket /\ ticket.count = 1 /\ ticket.rev = new.rev
            /\ ticket.prompt = new.prompt
        BY <1>1, <3>1 DEF Ticket
      <3>3. tickets' = [tickets EXCEPT ![new.id] = ticket]
        BY <2>2 DEF Create
      <3> HIDE DEF ticket, new
      <3>4. QED
        BY <1>1, <3>2, <3>3
    <2>3. QED
      BY <2>1, <2>2
  <1> HIDE DEF new
  <1>4. /\ UNCHANGED <<current, archive, numbers, releases, prompt, shelf, lib, edit, reader,
                      import, given, up, crashes, asked>>
    BY DEF Create, workflow
  <1>5. TypeOK'
    BY <1>2, <1>3, <1>4 DEF IInv, TypeOK
  <1>6. Released' /\ Indexes' /\ Settled'
    BY <1>4, CatalogStays
  <1>7. Writing'
    BY <1>4 DEF IInv, Writing, Published
  <1>8. Pinned'
    BY <1>2, <1>4 DEF IInv, Pinned
  <1>9. TicketsPinned' /\ PinsRetained'
    BY <1>1, <1>3, <1>4 DEF IInv, TicketsPinned, PinsRetained, Taken
  <1>10. QED
    BY <1>5, <1>6, <1>7, <1>8, <1>9 DEF IInv

-----------------------------------------------------------------------------
(***************************************************************************)
(* The import of a bundle.                                                 *)
(***************************************************************************)

LEMMA BeginImportKeeps ==
  ASSUME IInv, NEW r \in Revisions, NEW p \in Prompts, BeginImport(r, p)
  PROVE  IInv'
  <1>1. /\ import.at = "idle" /\ current \in Revisions \cup {None} /\ archive \subseteq Revisions
        /\ import' = [at |-> "prompt", rev |-> r, prompt |-> p, base |-> current]
        /\ archive' = archive \cup ({current} \ {None})
    BY DEF IInv, TypeOK, BeginImport, NoImport
  <1>2. /\ import' \in Import /\ import'.at = "prompt"
        /\ import'.rev \in Revisions /\ import'.prompt \in Prompts
        /\ archive' \subseteq Revisions /\ archive \subseteq archive'
    BY <1>1 DEF Import
  <1>3. numbers' \in [Revisions -> 0..Cardinality(Revisions)] /\ Dense(numbers')
    <2>1. CASE current = None
      BY <2>1, Typed, DenseBounded DEF BeginImport
    <2>2. CASE current # None
      <3>1. numbers' = Numbered(numbers, current) /\ current \in Revisions
        BY <1>1, <2>2 DEF BeginImport
      <3>2. QED
        BY <3>1, Typed, NumberedDense, DenseBounded
    <2>3. QED
      BY <2>1, <2>2
  <1>4. TypeOK'
    BY <1>2, <1>3, PromptTyped DEF IInv, TypeOK, BeginImport, Request, rest
  <1>5. Published(releases)' = Published(releases)
    BY DEF Published, BeginImport
  <1>6. Released'
    BY <1>2, <1>5 DEF IInv, Released, BeginImport
  <1>7. Indexes'
    BY <1>3 DEF IInv, Indexes, Dense, Numbers, BeginImport
  <1>8. Writing' /\ Settled'
    BY <1>1, <1>2, <1>5 DEF IInv, Writing, Settled, BeginImport, rest
  <1>9. PinsRetained' /\ TicketsPinned' /\ Pinned'
    BY <1>2, PinsStay DEF Archived, BeginImport, rest
  <1>10. QED
    BY <1>4, <1>6, <1>7, <1>8, <1>9 DEF IInv

LEMMA ImportPromptKeeps ==
  ASSUME IInv, ImportPrompt
  PROVE  IInv'
  <1> USE DEF workflow, rest
  <1>1. /\ import.at = "prompt" /\ import \in Import /\ import.rev \in Revisions
        /\ import.prompt \in Prompts /\ (edit.at # "idle" => ~ edit.bundle)
    BY PromptTyped DEF ImportPrompt
  <1>2. CASE import' = [import EXCEPT !.at = "workflow"] /\ UNCHANGED edit
    <2>1. import' \in Import /\ import'.rev \in Revisions /\ import'.prompt \in Prompts
      BY <1>1, <1>2 DEF Import
    <2>2. QED
      BY <1>1, <1>2, <2>1, PromptTyped, PromptKeeps DEF ImportPrompt, Archived
  <1>3. CASE BeginEdit(import.prompt, TRUE) /\ import' = [import EXCEPT !.at = "prompting"]
    <2>1. /\ import' \in Import /\ import'.rev \in Revisions /\ import'.prompt \in Prompts
          /\ import'.at = "prompting"
      BY <1>1, <1>3 DEF Import
    <2>2. edit' \in Edit /\ edit'.base \in Prompts /\ edit'.rev \in Prompts
      BY <1>1, <1>3, PromptTyped DEF BeginEdit, Edit
    <2>3. QED
      BY <1>1, <1>3, <2>1, <2>2, PromptTyped, PromptKeeps DEF ImportPrompt, Archived
  <1>4. QED
    BY <1>2, <1>3 DEF ImportPrompt

(* An import refused, or handed over to the writer of the library.         *)
LEMMA ImportWorkflowKeeps ==
  ASSUME IInv, ImportWorkflow
  PROVE  IInv'
  <1>1. /\ up /\ import.at = "workflow" /\ import \in Import /\ import.rev \in Revisions
        /\ import.prompt \in Prompts
        /\ (lib.at # "idle" => ~ lib.bundle) /\ (edit.at # "idle" => ~ edit.bundle)
        /\ lib \in Writer /\ archive \subseteq Revisions
    BY PromptTyped DEF ImportWorkflow, IInv, Writing, TypeOK
  <1>2. Published(releases)' = Published(releases)
    BY DEF Published, ImportWorkflow
  <1>3. /\ lib' \in Writer /\ Dense(lib'.seen)
        /\ archive' \subseteq Revisions /\ archive \subseteq archive'
        /\ import' \in Import
        /\ import'.at # "idle" => import'.rev \in Revisions /\ import'.prompt \in Prompts
        /\ \/ UNCHANGED lib
           \/ /\ lib'.at = "write" /\ lib'.rev = import.rev /\ lib'.bundle
              /\ lib'.make = (current = None) /\ lib.at = "idle"
              /\ import'.at = "saving"
    <2>1. CASE import' = [import EXCEPT !.at = "activate"] /\ UNCHANGED <<archive, lib>>
      <3>1. import' \in Import /\ import'.rev \in Revisions /\ import'.prompt \in Prompts
        BY <1>1, <2>1 DEF Import
      <3>2. Dense(lib'.seen)
        BY <2>1 DEF IInv, Indexes, Dense, Numbers
      <3>3. QED
        BY <1>1, <2>1, <3>1, <3>2
    <2>2. CASE import' = NoImport /\ UNCHANGED <<archive, lib>>
      <3>1. Dense(lib'.seen)
        BY <2>2 DEF IInv, Indexes, Dense, Numbers
      <3>2. QED
        BY <1>1, <2>2, <3>1, PromptTyped
    <2>3. CASE BeginSave(import.rev, FALSE, TRUE) /\ import' = [import EXCEPT !.at = "saving"]
      <3>1. /\ import' \in Import /\ import'.rev \in Revisions /\ import'.prompt \in Prompts
            /\ import'.at = "saving"
        BY <1>1, <2>3 DEF Import
      <3>2. /\ lib' \in Writer /\ lib'.at = "write" /\ lib'.rev = import.rev /\ lib'.bundle = TRUE
            /\ lib'.make = (FALSE \/ current = None)
            /\ Dense(lib'.seen)
            /\ archive' \subseteq Revisions /\ archive \subseteq archive'
            /\ up /\ lib.at = "idle"
        BY <1>1, <2>3, BeginSaveKeeps
      <3>3. QED
        BY <3>1, <3>2
    <2>4. QED
      BY <2>1, <2>2, <2>3 DEF ImportWorkflow
  <1>4. TypeOK'
    BY <1>3 DEF IInv, TypeOK, ImportWorkflow, rest
  <1>5. Released'
    BY <1>2, <1>3 DEF IInv, Released, ImportWorkflow
  <1>6. Indexes'
    BY <1>3 DEF IInv, Indexes, Dense, Numbers, ImportWorkflow
  <1>7. Settled'
    BY <1>2, <1>3 DEF IInv, Settled, ImportWorkflow, rest
  <1>8. Writing'
    <2>1. UNCHANGED <<current, releases, edit, reader, up>>
      BY DEF ImportWorkflow, rest
    <2>2. CASE UNCHANGED lib
      BY <1>1, <1>2, <1>3, <2>1, <2>2 DEF IInv, Writing
    <2>3. CASE ~ UNCHANGED lib
      BY <1>1, <1>2, <1>3, <2>1, <2>3 DEF IInv, Writing, Settled
    <2>4. QED
      BY <2>2, <2>3
  <1>9. PinsRetained' /\ TicketsPinned' /\ Pinned'
    BY <1>3, PinsStay DEF Archived, ImportWorkflow, rest
  <1>10. QED
    BY <1>4, <1>5, <1>6, <1>7, <1>8, <1>9 DEF IInv

(* A trial is never the default, which stays the active one.               *)
LEMMA ImportTrialKeeps ==
  ASSUME IInv, ImportTrial
  PROVE  IInv' /\ releases'.default = releases.default
  <1>1. /\ up /\ lib.at = "idle" /\ import' = NoImport /\ import.at = "activate"
        /\ import.rev \in Revisions /\ releases \in Entry
    BY PromptTyped, Typed DEF ImportTrial
  <1>2. /\ releases' \in Entry /\ releases'.default = releases.default
        /\ releases'.number = releases.number
        /\ Published(releases)' = Published(releases)
        /\ Published(releases) # {} => Active(releases') = Active(releases)
    <2>1. CASE UNCHANGED releases
      BY <1>1, <2>1 DEF Published
    <2>2. CASE Trial(import.rev)
      <3> DEFINE rev == import.rev
      <3>1. /\ releases' = [releases EXCEPT !.status[rev] = "trial"]
            /\ rev \in Published(releases) /\ rev # releases.default /\ rev \in Revisions
        BY <1>1, <2>2 DEF Trial
      <3> HIDE DEF rev
      <3>2. releases.status \in [Revisions -> Statuses]
        BY <1>1 DEF Entry
      <3>3. /\ releases' \in Entry /\ releases'.default = releases.default
            /\ releases'.number = releases.number
            /\ releases'.status = [releases.status EXCEPT ![rev] = "trial"]
        BY <1>1, <3>1, <3>2 DEF Entry, Statuses
      <3>4. Published(releases)' = Published(releases)
        BY <3>1, <3>2, <3>3 DEF Published
      <3>5. Active(releases) = {releases.default}
        BY <3>1 DEF IInv, Released, Active
      <3>6. releases.status[rev] # "active"
        BY <3>1, <3>5 DEF Active
      <3>7. Active(releases') = Active(releases)
        BY <3>1, <3>2, <3>3, <3>6 DEF Active
      <3>8. QED
        BY <3>3, <3>4, <3>7
    <2>3. QED
      BY <2>1, <2>2 DEF ImportTrial
  <1>3. TypeOK'
    BY <1>1, <1>2, PromptTyped DEF IInv, TypeOK, ImportTrial, rest
  <1>4. Released'
    BY <1>2 DEF IInv, Released, ImportTrial, Active
  <1>5. Indexes'
    BY DEF IInv, Indexes, Dense, Numbers, ImportTrial
  <1>6. Writing' /\ Settled'
    BY <1>1, <1>2, PromptTyped DEF IInv, Writing, Settled, ImportTrial, rest
  <1>7. PinsRetained' /\ TicketsPinned' /\ Pinned'
    BY PinsStay DEF Archived, ImportTrial, rest
  <1>8. QED
    BY <1>2, <1>3, <1>4, <1>5, <1>6, <1>7 DEF IInv

-----------------------------------------------------------------------------
(***************************************************************************)
(* People at the files, a crash and the restart.                           *)
(***************************************************************************)

LEMMA HandEditKeeps ==
  ASSUME IInv, NEW r \in Revisions, HandEdit(r)
  PROVE  IInv'
  <1>1. current # None /\ current' = r /\ r # None
    BY NoneAssumption DEF HandEdit
  <1>2. TypeOK'
    BY <1>1, PromptTyped DEF IInv, TypeOK, HandEdit, requests, rest
  <1>3. Published(releases)' = Published(releases)
    BY DEF Published, HandEdit
  <1>4. Released' /\ Writing' /\ Settled'
    BY <1>1, <1>3 DEF IInv, Released, Writing, Settled, HandEdit, requests, rest
  <1>5. Indexes'
    BY DEF IInv, Indexes, Dense, Numbers, HandEdit, requests
  <1>6. PinsRetained' /\ TicketsPinned' /\ Pinned'
    BY PinsStay DEF Archived, HandEdit, requests, rest
  <1>7. QED
    BY <1>2, <1>4, <1>5, <1>6 DEF IInv

(* A crash loses every request, and nothing that a ticket pins.            *)
LEMMA CrashKeeps ==
  ASSUME IInv, Crash
  PROVE  IInv'
  <1>1. /\ ~ up' /\ lib' = Resting /\ edit' = NoEdit /\ reader' = NoReader /\ import' = NoImport
        /\ crashes' \in 0..MaxCrashes
    BY BoundAssumption DEF IInv, TypeOK, Crash
  <1>2. /\ creator' \in [Creators -> Creator] /\ \A c \in Creators : creator'[c].at = "idle"
    <2>1. \A c \in Creators : 1 \in Ids
      BY BoundAssumption DEF IInv, TypeOK, Creator, Ids
    <2>2. \A c \in Creators : NoCreator \in Creator /\ NoCreator.at = "idle"
      BY <2>1 DEF NoCreator, Creator
    <2>3. QED
      BY <2>2 DEF Crash
  <1>3. TypeOK'
    BY <1>1, <1>2, PromptTyped, RestingTyped DEF IInv, TypeOK, Crash, workflow
  <1>4. Published(releases)' = Published(releases)
    BY DEF Published, Crash, workflow
  <1>5. Released'
    BY <1>4 DEF IInv, Released, Crash, workflow
  <1>6. Indexes'
    BY <1>1, RestingTyped DEF IInv, Indexes, Dense, Numbers, Crash, workflow
  <1>7. Settled'
    BY <1>1, <1>4 DEF IInv, Settled, Crash, workflow
  <1>8. Writing'
    BY <1>1, RestingTyped, PromptTyped DEF Writing
  <1>9. Pinned'
    BY <1>2 DEF Pinned
  <1>10. TicketsPinned' /\ PinsRetained'
    BY DEF IInv, TicketsPinned, PinsRetained, Taken, Crash, workflow
  <1>11. QED
    BY <1>3, <1>5, <1>6, <1>7, <1>8, <1>9, <1>10 DEF IInv

(* A restart makes a default only for a family that has no release.        *)
LEMMA RestartKeeps ==
  ASSUME IInv, Restart
  PROVE  IInv' /\ (releases.default # None => releases'.default = releases.default)
  <1>1. ~ up /\ up' /\ lib.at = "idle" /\ archive \subseteq Revisions /\ releases \in Entry
    BY DEF IInv, TypeOK, Writing, Restart
  <1>2. /\ UNCHANGED <<current, prompt, lib, edit, reader, creator, import, tickets, given,
                      crashes, asked>>
    BY DEF Restart, requests
  <1>3. /\ shelf' \in [Prompts -> {"none", "torn", "whole"}]
        /\ \A q \in Prompts : shelf[q] # "none" => shelf'[q] # "none"
    BY PromptTyped DEF Restart
  <1>4. /\ archive' \subseteq Revisions /\ archive \subseteq archive'
        /\ numbers' \in [Revisions -> 0..Cardinality(Revisions)] /\ Dense(numbers')
        /\ releases' \in Entry /\ Released' /\ Settled'
        /\ releases.default # None => releases'.default = releases.default
        /\ Published(releases) \subseteq Published(releases)'
    <2>1. CASE current = None
      <3>1. UNCHANGED <<archive, numbers, releases>>
        BY <2>1 DEF Restart
      <3>2. Published(releases)' = Published(releases)
        BY <3>1 DEF Published
      <3>3. Released' /\ Settled'
        BY <1>2, <2>1, <3>1, <3>2 DEF IInv, Released, Settled
      <3>4. Dense(numbers')
        BY <3>1 DEF IInv, Indexes, Dense, Numbers
      <3>5. QED
        BY <1>1, <3>1, <3>2, <3>3, <3>4, Typed, DenseBounded
    <2>2. CASE current # None
      <3> DEFINE found == archive'
                 index == numbers'
                 new == Reconciled(releases, found, index)
      <3>1. /\ current \in Revisions /\ archive' = archive \cup {current}
            /\ numbers' \in Indexed(archive') /\ releases' = new
        BY <2>2 DEF IInv, TypeOK, Restart
      <3>2. archive' \in SUBSET Revisions /\ archive' # {} /\ current \in archive'
        BY <1>1, <3>1
      <3>3. /\ numbers' \in Index /\ Dense(numbers') /\ \A r \in archive' : numbers'[r] > 0
        BY <3>1, <3>2, Typed, IndexedDense
      <3>4. numbers' \in [Revisions -> 0..Cardinality(Revisions)]
        BY <3>3, DenseBounded
      <3>5. /\ new \in Entry
            /\ Published(new) = Published(releases) \cup archive'
            /\ Published(releases) = {} => new.default = current /\ Active(new) = {current}
            /\ Published(releases) # {} => /\ new.default = releases.default
                                          /\ Active(new) = Active(releases)
            /\ \A r \in Revisions : releases.number[r] > 0 \/ r \in archive' => new.number[r] > 0
        <4>1. /\ found \in SUBSET Revisions /\ current \in found /\ current \in Revisions
              /\ index \in [Revisions -> 0..Cardinality(Revisions)]
              /\ \A r \in found : index[r] > 0
          BY <3>1, <3>2, <3>3, <3>4
        <4> HIDE DEF found, index
        <4>2. /\ new \in Entry
              /\ Published(new) = Published(releases) \cup found
              /\ Published(releases) = {} => new.default = current /\ Active(new) = {current}
              /\ Published(releases) # {} => /\ new.default = releases.default
                                            /\ Active(new) = Active(releases)
              /\ \A r \in Revisions : releases.number[r] > 0 \/ r \in found => new.number[r] > 0
          BY <1>1, <4>1, Restored
        <4> HIDE DEF new
        <4>3. QED
          BY <4>2 DEF found
      <3> HIDE DEF new
      <3>6. Published(releases)' = Published(releases) \cup archive'
        BY <3>1, <3>5 DEF Published
      <3>7. Published(releases) # {} => Published(releases) \subseteq archive
        BY DEF IInv, Released
      <3>8. Active(releases') = {releases'.default}
        BY <3>1, <3>5 DEF IInv, Released, Active
      <3>9. \A r \in Published(releases)' : r \in archive' /\ releases'.number[r] > 0
        BY <3>1, <3>2, <3>5, <3>6, <3>7
      <3>10. Released'
        BY <3>8, <3>9 DEF Released, Active
      <3>11. Published(releases)' # {}
        BY <3>2, <3>6
      <3>12. Settled'
        BY <1>2, <2>2, <3>11 DEF Settled
      <3>13. releases.default # None => releases'.default = releases.default
        BY <3>1, <3>5 DEF IInv, Settled
      <3>14. QED
        BY <3>1, <3>2, <3>3, <3>4, <3>5, <3>6, <3>10, <3>12, <3>13
    <2>3. QED
      BY <2>1, <2>2
  <1>5. TypeOK'
    BY <1>1, <1>2, <1>3, <1>4 DEF IInv, TypeOK
  <1>6. Indexes'
    BY <1>2, <1>4 DEF IInv, Indexes, Dense, Numbers
  <1>7. Writing'
    BY <1>1, <1>2, <1>4 DEF IInv, Writing
  <1>8. PinsRetained' /\ TicketsPinned' /\ Pinned'
    BY <1>2, <1>3, <1>4, PinsStay DEF Archived
  <1>9. QED
    BY <1>4, <1>5, <1>6, <1>7, <1>8 DEF IInv

-----------------------------------------------------------------------------
(***************************************************************************)
(* The theorems.                                                           *)
(***************************************************************************)

LEMMA Initially == Init => IInv
  <1> SUFFICES ASSUME Init PROVE IInv
    OBVIOUS
  <1>1. /\ Dense(Unnumbered) /\ \A r \in Revisions : Unnumbered[r] = 0
        /\ Unnumbered \in [Revisions -> 0..Cardinality(Revisions)]
    BY RestingTyped, DenseBounded DEF Unnumbered
  <1>2. /\ releases \in Entry /\ Published(releases) = {} /\ releases.default = None
    BY <1>1 DEF Init, Entry, Statuses, Published
  <1>3. /\ prompt \in Prompts /\ shelf \in [Prompts -> {"none", "torn", "whole"}]
    BY DEF Init
  <1>4. /\ NoEdit \in Edit /\ NoEdit.at = "idle" /\ NoImport \in Import /\ NoImport.at = "idle"
    BY DEF NoEdit, NoImport, Edit, Import
  <1>5. /\ creator \in [Creators -> Creator] /\ \A c \in Creators : creator[c].at = "idle"
    <2>1. 1 \in Ids
      BY BoundAssumption DEF Ids
    <2>2. NoCreator \in Creator /\ NoCreator.at = "idle"
      BY <2>1 DEF NoCreator, Creator
    <2>3. QED
      BY <2>2 DEF Init
  <1>6. tickets \in [Ids -> Ticket] /\ \A i \in Ids : tickets[i].count = 0
    BY DEF Init, Ticket
  <1>7. given \in 1..MaxId + 1
    BY BoundAssumption DEF Init
  <1>8. TypeOK
    BY <1>1, <1>2, <1>3, <1>4, <1>5, <1>6, <1>7, RestingTyped, BoundAssumption DEF Init, TypeOK
  <1>9. Released /\ Settled
    BY <1>2 DEF Init, Released, Settled
  <1>10. Indexes
    BY RestingTyped DEF Init, Indexes
  <1>11. Writing
    BY <1>4, RestingTyped DEF Init, Writing
  <1>12. Pinned /\ PinsRetained /\ TicketsPinned
    BY <1>5, <1>6 DEF Pinned, PinsRetained, TicketsPinned, Taken
  <1>13. QED
    BY <1>8, <1>9, <1>10, <1>11, <1>12 DEF IInv

LEMMA NextStep == IInv /\ [Next]_vars => IInv'
  <1> SUFFICES ASSUME IInv, [Next]_vars PROVE IInv'
    OBVIOUS
  <1>1. ASSUME NEW r \in Revisions,
               \/ \E make \in BOOLEAN : Save(r, make)
               \/ Promote(r) \/ HandEdit(r) \/ \E p \in Prompts : BeginImport(r, p)
        PROVE  IInv'
    BY <1>1, SaveKeeps, PromoteKeeps, HandEditKeeps, BeginImportKeeps
  <1>2. ASSUME NEW p \in Prompts, Update(p) \/ HandEditPrompt(p)
        PROVE  IInv'
    BY <1>2, EditKeeps, HandEditPromptKeeps
  <1>3. ASSUME NEW c \in Creators,
               \/ Allocate(c) \/ Assign(c) \/ PinPrompt(c) \/ FillPin(c) \/ Create(c)
               \/ \E i \in Ids : Choose(c, i)
        PROVE  IInv'
    BY <1>3, CreatingKeeps, CreateKeeps
  <1>4. CASE Publishing
    BY <1>4, WriteFileKeeps, KeepKeeps, NumberKeeps, RegisterKeeps DEF Publishing
  <1>5. CASE Editing
    BY <1>5, EditKeeps
  <1>6. CASE List \/ Listed
    BY <1>6, ListKeeps, ListedKeeps
  <1>7. CASE ImportPrompt \/ ImportWorkflow \/ ImportTrial
    BY <1>7, ImportPromptKeeps, ImportWorkflowKeeps, ImportTrialKeeps
  <1>8. CASE Crash \/ Restart
    BY <1>8, CrashKeeps, RestartKeeps
  <1>9. CASE UNCHANGED vars
    <2> USE <1>9 DEF vars
    <2>1. TypeOK'
      BY DEF IInv, TypeOK
    <2>2. Released' /\ Indexes' /\ Settled'
      BY CatalogStays
    <2>3. Writing'
      BY DEF IInv, Writing, Published
    <2>4. PinsRetained' /\ TicketsPinned' /\ Pinned'
      BY PinsStay DEF Archived
    <2>5. QED
      BY <2>1, <2>2, <2>3, <2>4 DEF IInv
  <1>10. QED
    BY <1>1, <1>2, <1>3, <1>4, <1>5, <1>6, <1>7, <1>8, <1>9 DEF Next

LEMMA Invariant == Spec => []IInv
  BY Initially, NextStep, PTL DEF Spec

(* Only a promotion and the registration of a release that was published   *)
(* as the default move it.                                                 *)
LEMMA DefaultMoves ==
  ASSUME IInv, [Next]_vars, releases.default # None, releases'.default # releases.default
  PROVE  up /\ (lib.at = "idle" \/ lib.make) /\ UNCHANGED <<current, import>>
  <1>1. ~ UNCHANGED releases
    OBVIOUS
  <1>2. CASE \E r \in Revisions : Promote(r)
    BY <1>2 DEF Promote, Request, requests
  <1>3. CASE Register
    <2> DEFINE rev == lib.rev
               make == lib.make
               number == lib.seen[lib.rev]
               status == IF make THEN "active" ELSE "trial"
    <2>1. /\ up /\ current' = current /\ lib.at = "register"
          /\ releases' = RegisterRelease(releases, rev, number, status, make)
          /\ ~ lib.bundle => import' = import
      BY <1>3 DEF Register
    <2>2. make \/ Published(releases) # {}
      BY <2>1 DEF IInv, Writing
    <2>3. lib.bundle => ~ make
      BY <2>1 DEF IInv, Writing
    <2>4. ~ make => releases'.default = releases.default
      <3> HIDE DEF rev, make, number, status
      <3>1. SUFFICES ASSUME ~ make PROVE releases'.default = releases.default
        OBVIOUS
      <3>2. releases' = IF rev \in Published(releases) THEN releases
                        ELSE [releases EXCEPT !.status[rev] = status, !.number[rev] = number]
        BY <2>1, <3>1 DEF RegisterRelease
      <3>3. QED
        BY <3>2, Typed DEF Entry
    <2>5. QED
      BY <2>1, <2>3, <2>4
  <1>4. CASE ImportTrial
    BY <1>4, ImportTrialKeeps
  <1>5. CASE Restart
    BY <1>5, RestartKeeps
  <1>6. QED
    <2>1. \/ UNCHANGED releases \/ \E r \in Revisions : Promote(r)
          \/ Register \/ ImportTrial \/ Restart
      BY DEF Next, vars, workflow, Publishing, Editing, Save, HandEdit, BeginImport, Update,
         HandEditPrompt, Allocate, Assign, PinPrompt, FillPin, Create, Choose, WriteFile, Keep,
         Number, EditRefused, KeepOld, FillOld, Rename, KeepNew, FillNew, List, Listed,
         ImportPrompt, ImportWorkflow, Crash
    <2>2. QED
      BY <1>1, <1>2, <1>3, <1>4, <1>5, <2>1

(* A published family has exactly one active release, its default, and     *)
(* every release of it is archived and numbered: Publishing writes file,   *)
(* archive, index and catalog one after another, and Crash may fall        *)
(* between any two of them.                                                *)
THEOREM CatalogWhole == Spec => []OneDefault
  <1>1. IInv => OneDefault
    BY DEF IInv, OneDefault, Released
  <1>2. QED
    BY <1>1, Invariant, PTL

(* What a ticket was created with stays in the archives, and no number is  *)
(* given to two tickets: a request pins its revisions step by step         *)
(* (Assign, PinPrompt, FillPin, Create) while the libraries change.        *)
THEOREM PinsStayArchived == Spec => []PinsRetained
  <1>1. IInv => PinsRetained
    BY DEF IInv
  <1>2. QED
    BY <1>1, Invariant, PTL

(* Only a promotion, or a publication that asked for it, moves the default *)
(* of a family: no trial, import, edited file, crash or restart does.      *)
THEOREM DefaultStays == Spec => DefaultKept
  <1>1. IInv /\ [Next]_vars =>
          [releases.default # None /\ releases'.default # releases.default
             => up /\ (lib.at = "idle" \/ lib.make) /\ UNCHANGED <<current, import>>]_vars
    BY DefaultMoves
  <1>2. QED
    BY <1>1, Invariant, PTL DEF Spec, DefaultKept
=============================================================================
