------------------------------ MODULE Catalog ------------------------------
(***************************************************************************)
(* The workflow library and its releases, the prompt library, and what a   *)
(* new ticket pins: one family of workflows (a custom one: no built-in     *)
(* content to fall back on) whose definitions name one prompt.             *)
(*                                                                         *)
(* A revision is its content.  The family has a current file, an archive   *)
(* of revisions, an index that numbers them, and an entry in the release   *)
(* catalog; publishing writes them one after another.  The prompt has a    *)
(* file and an archive.  Each library runs its writers one at a time; but  *)
(* readers archive and number what they read outside the queue, tickets    *)
(* are created and bundles imported meanwhile, people edit the file, and   *)
(* the tracker may die between any two writes.                             *)
(*                                                                         *)
(* Left out: requests refused as stale or invalid, labels, agent profiles, *)
(* child workflows (pinned in the same way) and the numbers of prompts.    *)
(***************************************************************************)
EXTENDS Integers, FiniteSets, FiniteSetsExt, Functions

CONSTANTS
    Revisions, Prompts,   \* the contents of the workflow, of the prompt
    MaxId,                \* bound: ticket numbers
    Creators,             \* requests that create tickets, at a time
    MaxCrashes,           \* bound
    MaxRequests,          \* bound: requests and edits by hand in all
    None

ASSUME BoundAssumption == MaxId \in Nat \ {0} /\ MaxCrashes \in Nat /\ MaxRequests \in Nat
                          /\ IsFiniteSet(Revisions)
ASSUME NoneAssumption == None \notin Revisions \cup Prompts

Ids == 1..MaxId

VARIABLES
    current, archive, numbers,  \* of the workflow: file, .versions, index.json
    releases,                   \* the family's entry in the release catalog
    prompt, shelf,              \* the prompt's file; its archived revisions
    lib, edit,                  \* the writer in the queue of each library
    reader,                     \* a request that lists the workflows
    creator,                    \* requests that create a ticket
    import,                     \* a bundle that is being imported
    tickets, given,             \* tickets by number; the configured sequence
    up, crashes, asked

vars == <<current, archive, numbers, releases, prompt, shelf, lib, edit, reader,
          creator, import, tickets, given, up, crashes, asked>>
workflow == <<current, archive, numbers, releases>>
requests == <<reader, creator, import>>
rest == <<tickets, given, up, crashes>>

(* One more edit by hand; one more request, while the tracker is up.       *)
Touch == asked < MaxRequests /\ asked' = asked + 1
Request == up /\ Touch

Statuses == {"none", "active", "trial", "retired"}
Entry == [default : Revisions \cup {None}, status : [Revisions -> Statuses],
          number : [Revisions -> 0..Cardinality(Revisions)]]
Writer == [at : {"idle", "write", "keep", "number", "register"},
           rev : Revisions \cup {None}, make : BOOLEAN, seen : [Revisions -> Nat],
           bundle : BOOLEAN]
Edit == [at : {"idle", "old", "fillold", "rename", "new", "fillnew"},
         base : Prompts \cup {None}, rev : Prompts \cup {None}, bundle : BOOLEAN]
Ticket == [count : Nat, rev : Revisions \cup {None}, prompt : Prompts \cup {None}]
Creator == [at : {"idle", "assign", "prompt", "fill", "create"}, id : Ids,
            rev : Revisions \cup {None}, prompt : Prompts \cup {None}]
Import == [at : {"idle", "prompt", "prompting", "workflow", "saving", "activate"},
           rev : Revisions \cup {None}, prompt : Prompts \cup {None}, base : Revisions \cup {None}]

Unnumbered == [r \in Revisions |-> 0]
Resting == [at |-> "idle", rev |-> None, make |-> FALSE, seen |-> Unnumbered, bundle |-> FALSE]
NoEdit == [at |-> "idle", base |-> None, rev |-> None, bundle |-> FALSE]
NoReader == [at |-> "idle", rev |-> None, seen |-> Unnumbered]
NoCreator == [at |-> "idle", id |-> 1, rev |-> None, prompt |-> None]
NoImport == [at |-> "idle", rev |-> None, prompt |-> None, base |-> None]

Init == /\ current = None /\ archive = {} /\ numbers = Unnumbered
        /\ releases = [default |-> None, status |-> [r \in Revisions |-> "none"],
                       number |-> Unnumbered]
        /\ \E p \in Prompts : /\ prompt = p
                              /\ shelf = [q \in Prompts |-> IF q = p THEN "whole" ELSE "none"]
        /\ lib = Resting /\ edit = NoEdit /\ reader = NoReader
        /\ creator = [c \in Creators |-> NoCreator] /\ import = NoImport
        /\ tickets = [i \in Ids |-> [count |-> 0, rev |-> None, prompt |-> None]]
        /\ given = 1 /\ up = TRUE /\ crashes = 0 /\ asked = 0

-----------------------------------------------------------------------------
(***************************************************************************)
(* The release catalog: a state of the family's entry after each change.   *)
(***************************************************************************)

Published(e) == {r \in Revisions : e.status[r] # "none"}

(* The next number of the index as it was read; one that has a number      *)
(* keeps it.                                                               *)
Numbered(index, rev) ==
    IF index[rev] > 0 THEN index
    ELSE [index EXCEPT ![rev] = Max({index[r] : r \in Revisions}) + 1]

(* Fault: the former active release stays active.                          *)
ActivateDefaultToo(e, rev) == [e EXCEPT !.default = rev, !.status[rev] = "active"]

(* One default, one active release: the former active one is retired.      *)
ActivateDefault(e, rev) ==
    [e EXCEPT !.default = rev,
              !.status = [r \in Revisions |-> IF r = rev THEN "active"
                                              ELSE IF @[r] = "active" THEN "retired" ELSE @[r]]]

(* A release that is known keeps its number and its status.                *)
RegisterRelease(e, rev, number, status, makeDefault) ==
    LET known == IF rev \in Published(e) THEN e
                 ELSE [e EXCEPT !.status[rev] = status, !.number[rev] = number]
    IN IF makeDefault THEN ActivateDefault(known, rev) ELSE known

Promote(rev) == /\ Request /\ lib.at = "idle" /\ rev \in Published(releases)
                /\ releases' = ActivateDefault(releases, rev)
                /\ numbers' = Numbered(numbers, rev)
                /\ UNCHANGED <<current, archive, prompt, shelf, lib, edit, requests, rest>>

Trial(rev) == /\ releases.default # rev /\ rev \in Published(releases)
              /\ releases' = [releases EXCEPT !.status[rev] = "trial"]

-----------------------------------------------------------------------------
(***************************************************************************)
(* Publishing a revision.                                                  *)
(***************************************************************************)

BeginSave(rev, make, bundle) ==
    /\ up /\ lib.at = "idle"
    /\ lib' = [Resting EXCEPT !.at = "write", !.rev = rev, !.bundle = bundle,
                              !.make = make \/ current = None]
    /\ archive' = archive \cup ({current} \ {None})

Save(rev, make) == /\ BeginSave(rev, make, FALSE)
                   /\ Request
                   /\ UNCHANGED <<current, numbers, releases, prompt, shelf, edit, requests, rest>>

WriteFile == /\ up /\ lib.at = "write"
             /\ current' = lib.rev /\ lib' = [lib EXCEPT !.at = "keep"]
             /\ UNCHANGED <<archive, numbers, releases, prompt, shelf, edit, requests, rest, asked>>

Keep == /\ up /\ lib.at = "keep"
        /\ archive' = archive \cup {lib.rev}
        /\ lib' = [lib EXCEPT !.at = "number", !.seen = numbers]
        /\ UNCHANGED <<current, numbers, releases, prompt, shelf, edit, requests, rest, asked>>

Number == /\ up /\ lib.at = "number"
          /\ numbers' = IF lib.seen[lib.rev] > 0 THEN numbers ELSE Numbered(lib.seen, lib.rev)
          /\ lib' = [lib EXCEPT !.at = "register", !.seen = Numbered(@, lib.rev)]
          /\ UNCHANGED <<current, archive, releases, prompt, shelf, edit, requests, rest, asked>>

(* A save that is part of an import hands over to it.                      *)
Register ==
    /\ up /\ lib.at = "register"
    /\ releases' = RegisterRelease(releases, lib.rev, lib.seen[lib.rev],
                                   IF lib.make THEN "active" ELSE "trial", lib.make)
    /\ lib' = Resting
    /\ import' = IF lib.bundle /\ import.base # None
                 THEN [import EXCEPT !.at = "activate"] ELSE IF lib.bundle THEN NoImport ELSE import
    /\ UNCHANGED <<current, archive, numbers, prompt, shelf, edit, reader, creator, rest, asked>>

Publishing == WriteFile \/ Keep \/ Number \/ Register

(* A list of the workflows archives and numbers what it reads, outside     *)
(* the queue.                                                              *)
List == /\ Request /\ reader.at = "idle" /\ current # None
        /\ reader' = [at |-> "number", rev |-> current, seen |-> numbers]
        /\ archive' = archive \cup {current}
        /\ UNCHANGED <<current, numbers, releases, prompt, shelf, lib, edit, creator, import, rest>>

Listed == /\ up /\ reader.at = "number"
          /\ numbers' = IF reader.seen[reader.rev] > 0 THEN numbers
                        ELSE Numbered(reader.seen, reader.rev)
          /\ reader' = NoReader
          /\ UNCHANGED <<current, archive, releases, prompt, shelf, lib, edit, creator, import, rest, asked>>

-----------------------------------------------------------------------------
(***************************************************************************)
(* The prompt.  Archiving a revision that has no file there creates the    *)
(* file and then writes it: in between it is "torn".                       *)
(***************************************************************************)

Archiving(p) == shelf' = [shelf EXCEPT ![p] = IF @ = "none" THEN "torn" ELSE @]
Fill(p) == shelf' = [shelf EXCEPT ![p] = "whole"]
AfterOpening(p, fill, next) == IF shelf[p] = "none" THEN fill ELSE next

BeginEdit(p, bundle) ==
    /\ up /\ edit.at = "idle" /\ p # prompt
    /\ edit' = [at |-> "old", base |-> prompt, rev |-> p, bundle |-> bundle]

Update(p) == /\ Request /\ BeginEdit(p, FALSE)
             /\ UNCHANGED <<workflow, prompt, shelf, lib, requests, rest>>

(* The file has been edited by hand since.                                 *)
EditRefused == /\ up /\ edit.at = "old" /\ prompt # edit.base
               /\ edit' = NoEdit /\ import' = IF edit.bundle THEN NoImport ELSE import
               /\ UNCHANGED <<workflow, prompt, shelf, lib, reader, creator, rest, asked>>

KeepOld == /\ up /\ edit.at = "old" /\ prompt = edit.base /\ Archiving(edit.base)
           /\ edit' = [edit EXCEPT !.at = AfterOpening(edit.base, "fillold", "rename")]
           /\ UNCHANGED <<workflow, prompt, lib, requests, rest, asked>>

FillOld == /\ up /\ edit.at = "fillold" /\ Fill(edit.base)
           /\ edit' = [edit EXCEPT !.at = "rename"]
           /\ UNCHANGED <<workflow, prompt, lib, requests, rest, asked>>

Rename == /\ up /\ edit.at = "rename"
          /\ prompt' = edit.rev /\ edit' = [edit EXCEPT !.at = "new"]
          /\ UNCHANGED <<workflow, shelf, lib, requests, rest, asked>>

EndEdit == /\ edit' = NoEdit
           /\ import' = IF edit.bundle THEN [import EXCEPT !.at = "workflow"] ELSE import

KeepNew == /\ up /\ edit.at = "new" /\ Archiving(edit.rev)
           /\ IF shelf[edit.rev] = "none"
              THEN edit' = [edit EXCEPT !.at = "fillnew"] /\ UNCHANGED import
              ELSE EndEdit
           /\ UNCHANGED <<workflow, prompt, lib, reader, creator, rest, asked>>

FillNew == /\ up /\ edit.at = "fillnew" /\ Fill(edit.rev) /\ EndEdit
           /\ UNCHANGED <<workflow, prompt, lib, reader, creator, rest, asked>>

Editing == EditRefused \/ KeepOld \/ FillOld \/ Rename \/ KeepNew \/ FillNew

-----------------------------------------------------------------------------
(***************************************************************************)
(* Creating a ticket: a number, the workflow, the prompt, the file.        *)
(***************************************************************************)

Step(c, new) == creator' = [creator EXCEPT ![c] = new]
Taken == {i \in Ids : tickets[i].count > 0}

(* The sequence goes on from the first number that no ticket has.          *)
Allocate(c) == /\ Request /\ creator[c].at = "idle"
               /\ \E i \in given..MaxId :
                     /\ i \notin Taken /\ \A j \in given..i - 1 : j \in Taken
                     /\ given' = i + 1
                     /\ Step(c, [NoCreator EXCEPT !.at = "assign", !.id = i])
               /\ UNCHANGED <<workflow, prompt, shelf, lib, edit, reader, import, tickets, up, crashes>>

(* The operator's own choice of a number that is free.                     *)
Choose(c, i) == /\ Request /\ creator[c].at = "idle" /\ i \notin Taken
                /\ Step(c, [NoCreator EXCEPT !.at = "assign", !.id = i])
                /\ UNCHANGED <<workflow, prompt, shelf, lib, edit, reader, import, rest>>

Assignable == {r \in Published(releases) : releases.status[r] # "retired"}

Assign(c) == /\ up /\ creator[c].at = "assign"
             /\ \/ \E r \in Assignable \cap archive :
                      /\ Step(c, [creator[c] EXCEPT !.at = "prompt", !.rev = r])
                      /\ numbers' = Numbered(numbers, r)
                \/ Assignable = {} /\ Step(c, NoCreator) /\ UNCHANGED numbers
             /\ UNCHANGED <<current, archive, releases, prompt, shelf, lib, edit, reader, import, rest, asked>>

(* Fault: the revision is read, and left for the writer to archive.        *)
PinPromptRead(c) == /\ up /\ creator[c].at = "prompt"
                    /\ Step(c, [creator[c] EXCEPT !.prompt = prompt, !.at = "create"])
                    /\ UNCHANGED <<workflow, prompt, shelf, lib, edit, reader, import, rest, asked>>

PinPrompt(c) == /\ up /\ creator[c].at = "prompt" /\ Archiving(prompt)
                /\ Step(c, [creator[c] EXCEPT !.prompt = prompt,
                                              !.at = AfterOpening(prompt, "fill", "create")])
                /\ UNCHANGED <<workflow, prompt, lib, edit, reader, import, rest, asked>>

FillPin(c) == /\ up /\ creator[c].at = "fill" /\ Fill(creator[c].prompt)
              /\ Step(c, [creator[c] EXCEPT !.at = "create"])
              /\ UNCHANGED <<workflow, prompt, lib, edit, reader, import, rest, asked>>

(* The number may have been taken since.                                   *)
Create(c) == /\ up /\ creator[c].at = "create"
             /\ LET new == creator[c] IN
                tickets' = IF new.id \in Taken THEN tickets
                           ELSE [tickets EXCEPT ![new.id] =
                                   [count |-> @.count + 1, rev |-> new.rev, prompt |-> new.prompt]]
             /\ Step(c, NoCreator)
             /\ UNCHANGED <<workflow, prompt, shelf, lib, edit, reader, import, given, up, crashes, asked>>

-----------------------------------------------------------------------------
(***************************************************************************)
(* Importing a bundle: the prompt, then the workflow it was listed with    *)
(* before, then the trial.                                                 *)
(***************************************************************************)

BeginImport(r, p) == /\ Request /\ import = NoImport
                     /\ import' = [at |-> "prompt", rev |-> r, prompt |-> p, base |-> current]
                     /\ archive' = archive \cup ({current} \ {None})
                     /\ numbers' = IF current = None THEN numbers ELSE Numbered(numbers, current)
                     /\ UNCHANGED <<current, releases, prompt, shelf, lib, edit, reader, creator, rest>>

ImportPrompt == /\ import.at = "prompt"
                /\ \/ /\ prompt = import.prompt /\ import' = [import EXCEPT !.at = "workflow"]
                      /\ UNCHANGED edit
                   \/ BeginEdit(import.prompt, TRUE) /\ import' = [import EXCEPT !.at = "prompting"]
                /\ UNCHANGED <<workflow, prompt, shelf, lib, reader, creator, rest, asked>>

(* Somebody has published since: refused, the prompt stays imported.       *)
ImportWorkflow ==
    /\ up /\ import.at = "workflow"
    /\ \/ /\ import.base = import.rev /\ import' = [import EXCEPT !.at = "activate"]
          /\ UNCHANGED <<archive, lib>>
       \/ /\ import.base # import.rev /\ lib.at = "idle" /\ current # import.base
          /\ import' = NoImport /\ UNCHANGED <<archive, lib>>
       \/ /\ import.base # import.rev /\ current = import.base
          /\ BeginSave(import.rev, FALSE, TRUE) /\ import' = [import EXCEPT !.at = "saving"]
    /\ UNCHANGED <<current, numbers, releases, prompt, shelf, edit, reader, creator, rest, asked>>

ImportTrial == /\ up /\ import.at = "activate" /\ lib.at = "idle"
               /\ import' = NoImport
               /\ \/ Trial(import.rev)
                  \/ /\ import.rev \in {releases.default} \cup (Revisions \ Published(releases))
                     /\ UNCHANGED releases
               /\ UNCHANGED <<current, archive, numbers, prompt, shelf, lib, edit, reader, creator, rest, asked>>

-----------------------------------------------------------------------------
(***************************************************************************)
(* People at the files, a crash and the restart.                           *)
(***************************************************************************)

HandEdit(r) == /\ Touch /\ current # None /\ r # current /\ current' = r
               /\ UNCHANGED <<archive, numbers, releases, prompt, shelf, lib, edit, requests, rest>>

HandEditPrompt(p) == /\ Touch /\ p # prompt /\ prompt' = p
                     /\ UNCHANGED <<workflow, shelf, lib, edit, requests, rest>>

Crash == /\ up /\ crashes < MaxCrashes /\ crashes' = crashes + 1 /\ up' = FALSE
         /\ lib' = Resting /\ edit' = NoEdit /\ reader' = NoReader /\ import' = NoImport
         /\ creator' = [c \in Creators |-> NoCreator]
         /\ UNCHANGED <<workflow, prompt, shelf, tickets, given, asked>>

(* Fault: the current file is the default again.                           *)
ReconciledAnew(e, found, index) ==
    ActivateDefault([e EXCEPT !.status[current] = "active", !.number[current] = index[current]], current)

(* Every revision in the archive that has no release becomes a retired     *)
(* one; the current file, archived too, becomes the default of a family    *)
(* that the catalog does not have.                                         *)
Reconciled(e, found, index) ==
    LET known == [e EXCEPT !.status = [r \in Revisions |-> IF @[r] = "none" /\ r \in found
                                                           THEN "retired" ELSE @[r]],
                           !.number = [r \in Revisions |-> IF @[r] = 0 /\ r \in found
                                                           THEN index[r] ELSE @[r]]]
    IN IF Published(e) = {} THEN ActivateDefault(known, current) ELSE known

(* The revisions without a number get the next ones, in the order of the   *)
(* directory.                                                              *)
Indexed(found) ==
    LET fresh == {r \in found : numbers[r] = 0}
        last == Max({numbers[r] : r \in Revisions})
    IN {[r \in Revisions |-> IF r \in fresh THEN last + order[r] ELSE numbers[r]] :
           order \in Bijection(fresh, 1..Cardinality(fresh))}

Restart == /\ ~up /\ up' = TRUE
           /\ IF current = None THEN UNCHANGED <<archive, numbers, releases>>
              ELSE /\ archive' = archive \cup {current}
                   /\ numbers' \in Indexed(archive')
                   /\ releases' = Reconciled(releases, archive', numbers')
           /\ shelf' = [shelf EXCEPT ![prompt] = IF @ = "none" THEN "whole" ELSE @]
           /\ UNCHANGED <<current, prompt, lib, edit, requests, tickets, given, crashes, asked>>

Next == \/ \E r \in Revisions : \/ \E make \in BOOLEAN : Save(r, make)
                                \/ Promote(r) \/ HandEdit(r)
                                \/ \E p \in Prompts : BeginImport(r, p)
        \/ \E p \in Prompts : Update(p) \/ HandEditPrompt(p)
        \/ \E c \in Creators : \/ Allocate(c) \/ Assign(c) \/ PinPrompt(c) \/ FillPin(c) \/ Create(c)
                               \/ \E i \in Ids : Choose(c, i)
        \/ Publishing \/ Editing \/ List \/ Listed
        \/ ImportPrompt \/ ImportWorkflow \/ ImportTrial \/ Crash \/ Restart

Spec == Init /\ [][Next]_vars

-----------------------------------------------------------------------------
(***************************************************************************)
(* Properties.                                                             *)
(***************************************************************************)

TypeOK == /\ current \in Revisions \cup {None} /\ archive \subseteq Revisions
          /\ numbers \in [Revisions -> 0..Cardinality(Revisions)] /\ releases \in Entry
          /\ prompt \in Prompts /\ shelf \in [Prompts -> {"none", "torn", "whole"}]
          /\ lib \in Writer /\ edit \in Edit
          /\ reader \in [at : {"idle", "number"}, rev : Revisions \cup {None},
                         seen : [Revisions -> Nat]]
          /\ creator \in [Creators -> Creator] /\ import \in Import
          /\ tickets \in [Ids -> Ticket] /\ given \in 1..MaxId + 1
          /\ up \in BOOLEAN /\ crashes \in 0..MaxCrashes /\ asked \in 0..MaxRequests

(* A published family has exactly one active release, its default, and     *)
(* every release can be loaded and has a number: whatever is cut short.    *)
OneDefault == TypeOK /\ (Published(releases) # {} =>
    /\ {r \in Revisions : releases.status[r] = "active"} = {releases.default}
    /\ \A r \in Published(releases) : r \in archive /\ releases.number[r] > 0)

(* What a ticket pins stays in the archives, however the libraries change, *)
(* and no number is given to two tickets that are created at once.         *)
PinsRetained == \A i \in Ids :
    /\ tickets[i].count <= 1
    /\ i \in Taken => /\ tickets[i].rev \in archive
                      /\ shelf[tickets[i].prompt] # "none"

(* v3.md:29: "Publishing a trial does not move the default": nor does an   *)
(* import, an edited file, a crash or a restart; only what asked for it.   *)
DefaultKept == [][releases.default # None /\ releases'.default # releases.default
                    => /\ up /\ (lib.at = "idle" \/ lib.make)
                       /\ UNCHANGED <<current, import>>]_vars

(* v3.md:251: "tickets load their pinned revisions".                       *)
PinsReadable == \A i \in Taken : shelf[tickets[i].prompt] = "torn" =>
    edit.at \in {"fillold", "fillnew"} \/ \E c \in Creators : creator[c].at = "fill"

(* README.md:37: "numbers identify unique content".                        *)
NumbersUnique == \A r, s \in Published(releases) :
    releases.number[r] = releases.number[s] => r = s
=============================================================================
