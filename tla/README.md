# TLA+ models of the ticket workflow system

The repository holds a *tracker* (a REST service that keeps work tickets as
Markdown files and moves them through workflows), *supervisors* (one daemon per
project checkout that claims tickets, runs agents and scripts, and reports
back), an operator dashboard, installers and skills. This directory models the
coordination between them: what may happen to a ticket, in which order, when
operators, supervisors, timers, GitHub, editors and crashes act on it at once.

Paths below are relative to `src/workflow/`; line numbers are those of the
modelled commit. `PROJECT.json` has the exact lines of every definition.

## Inventory

| component (source) | state | operations | modules |
|---|---|---|---|
| ticket store (`tracker/src/server/ticket-store.ts`) | one Markdown file per ticket, an index, digests of known files, a queue, a lock file | create, edit, command, claim, heartbeat, delivery, telemetry, expiry, settlement of automatic nodes, scan, attachments, maintenance, traces | `TicketLease`, `WorkflowEngine`, `TicketFiles`, `ExecutionTrace` |
| REST handlers (`tracker/src/server/app.ts`) | what a handler read before its await | operator commands, lease requests, terminal callbacks, saves of workflows and prompts | the same, `SupervisorSlot`, `ActivityWorker`, `Catalog`, `Board` |
| workflow engine (`workflow-library.ts` 1266-1515, `ticket-store.ts` 213-364) | the `workflow` record of a ticket: node, visits, transitions, waits, stacks | initialise, enter, transition, settle, call and return | `WorkflowEngine`, `TicketLease` |
| workflow definitions (`workflow-library.ts` 630-900) | none | validate | `WorkflowGraph` |
| workflow catalog, prompts, bundles (`workflow-library.ts`, `prompt-library.ts`, `workflow-bundle.ts`, `artifact-versions.ts`) | files, archives, number indexes, the release catalog | save, publish, promote, import, list, reconcile, pin | `Catalog` |
| validation (`validation.ts`, `domain.ts`, `markdown.ts`) | none | session invariants: a refusal is a 422 | `TicketLease` (`Valid`) |
| artifact store (`artifact-store.ts`, `artifact-diagnostics.ts`), run ledger (`run-ledger.ts`) | blobs and records; externalised node runs | put, delete, diagnose, collect; externalise, hydrate, prune | `TicketFiles`, `ExecutionTrace` |
| intake store (`intake-store.ts`, supervisor `intake.ts`) | sources, cursors, runs with leases, candidates | schedule, claim, submit, complete, fail, reconcile | `Intake` |
| GitHub observer (`github-observer.ts`) | an observation per pull request | poll, reopen, answer a gate | `PullRequestFeedback`, `TicketLease` |
| configuration store (`config.ts`) | one YAML file and its revision | allocate ticket numbers, update | `Catalog`, `Board` |
| supervisor registry (`supervisor-registry.ts`) | the last presence of each supervisor, in memory | report, farewell, look up a hostname | `TicketLease` (`HostsNamed`) |
| supervisor loops (`supervisor/src/supervisor.ts`, `tracker-client.ts`, `herdr.ts`) | assignment record on disk, agents in Herdr | claim, deliver, heartbeat, control, guidance, recover | `SupervisorSlot` |
| activities (`activities.ts`) | checkouts, bundles, child processes | script, checkpoint, restore | `ActivityWorker` |
| execution traces (`execution-trace.ts`) | pending events | record, flush, complete | `ExecutionTrace` |
| operator interface (`tracker/src/client`) | a cached view, drafts, requests in flight | edit, save, command, refresh; edit the graph of a workflow | `Board`, `WorkflowEditor` |
| Jira, metrics, quality, quota, pricing, demo store, telemetry, bundles of an assignment, installers, skills | reports, external requests, text | | not modelled |

What is hard about it:

* a terminal callback is three steps (read by lease, await the workflow
  library, mutate) while operators, other callbacks, the sweeper and editors
  act in between;
* an operator's cancel, fail or migrate of executing work is a request that the
  supervisor must acknowledge, racing completion, expiry and delivery failure;
* repositories and supervisors are reserved by *unfinished* tickets, not by
  leases, under host names that the tracker forgets when it restarts; and
  finished tickets can be reopened;
* the tracker moves tickets by itself: waits, loops, forks and calls are
  settled whenever somebody claims work, in the middle of operator commands;
* a supervisor cannot see whether an agent has taken a paste, and a request
  that failed may have had its effect;
* restores replace several repositories one by one, operations of the intake
  store and publications are many file writes, and the process may die
  between any two;
* people edit the files the tracker owns, those of executing tickets too, and
  browsers hold drafts of what others change;
* the tracker's timers are armed again only after a pass that went well.

`PROJECT.json` lists the hazards line by line with the properties that cover
them, and says why where none does.

## Modules

`TicketStore.serial` queues every store operation, so in the models of the
ticket's life one store operation is one action, however many files it touches,
and a handler with several store calls is several actions. Where the writes of
an operation are the subject (`TicketFiles`, `Intake`, `Catalog`), each is a
step of its own and a crash may come between any two. Where a request may fail
before or after it took effect, request, effect and reply are separate.

| module | models | run |
|---|---|---|
| `TicketLease` | life of tickets: leases, callbacks, operator commands | `lifecycle`, `sharing`, `expiry`, `poisoned` |
| `LeaseRegistry`, `RepositoryLock` | abstract: what leases and reservations promise | refined in `sharing` |
| `WorkflowEngine` | one ticket through the nodes of its workflow | `engine` |
| `WorkflowGraph`, `WorkflowEditor` | what the tracker accepts as a definition; what the dashboard's editor does to one | assumptions of `engine` |
| `SupervisorSlot` | a supervisor, its agent and their lease | `slot` |
| `ActivityWorker` | scripts, checkpoints and restores | `activity` |
| `Intake` | a source of facts that become tickets | `intake` |
| `TicketFiles` | a ticket's file, ledger and artifacts on disk | `files` |
| `Catalog` | workflows, prompts, their releases and what tickets pin | `catalog` |
| `Board` | a browser window of an operator | `board` |
| `ExecutionTrace` | traces and evidence of an agent run | `trace` |
| `PullRequestFeedback` | what a poll of a pull request reports | assumptions of `lifecycle`, `sharing`, `expiry` |
| `Intake_proofs`, `Catalog_proofs`, `SupervisorSlot_proofs`, `Board_proofs`, `TicketFiles_proofs`, `ExecutionTrace_proofs` | theorems about the module each extends | |
| `TicketLease_proofs` | theorems about `TicketLease` and `PullRequestFeedback` | |
| `WorkflowEngine_proofs` | theorems about `WorkflowEngine`, the `WorkflowGraph` it reads, `WorkflowEditor` and `ActivityWorker`, which executes its nodes | |
| `MC...` | instances for TLC | |

The modules meet at narrow interfaces. `TicketLease` is the tracker's side of a
lease; `SupervisorSlot`, `ActivityWorker` and `ExecutionTrace` keep of it what a
supervisor can tell. `WorkflowEngine` runs the node graph that `TicketLease`
takes as a constant, with execution under a lease as one step; its definitions
are checked against `WorkflowGraph`. `Catalog` keeps the revisions that tickets
pin, of which `WorkflowEngine` runs one. `PullRequestFeedback` decides on the
reports that `TicketLease.GithubFeedback` and `Decide` act on.

### TicketLease

* `ticket[t]`, the fields of `TicketFrontmatter` the lifecycle tests: `status`;
  `node` (`workflow.current_node`); `done` (`phase = "done"`); `owner`
  (`assigned_supervisor`, `assigned_supervisor_host`); `exec` (`execution`: lease,
  supervisor, node, delivery status, `interrupt_request` as
  `interrupt`/`to`/`fresh`, and `lapsed` for a TTL that has passed); `losses`
  (`consecutive_lease_losses` per node); `moves` (`transition_count`); `open` (an
  unanswered question); `over` (nodes whose known cost exceeds their ceiling);
  `pause` (`cost_limit_pause`); `archived`; `off` (the stages whose `stage_enabled`
  is false); `callback` (`last_callback.lease_id`).
* `run[l]`, the node run that lease `l` opened, with its outcome.
* `issued`, the number of leases drawn; a lease is its number, so freshness of
  the UUID is by construction.
* `calls`, terminal callbacks (`complete`, `fail`, `activity-result`) between
  their read (`ReadCallback`) and their mutation (`CommitCallback`) or refusal
  (`DropCallback`). The same request may be sent again: a commit may leave its
  call in flight. The await between the two is where everything else happens.

Each other action is one handler or store method, named for it. `Store` is
`mutateLoaded`: a result that validation rejects changes nothing. `Lapse` is the
clock; `Crash` ends the tracker between two requests or in the middle of a
sweep, with the prefix it had written. All state but `calls` is in the files,
so restarting is not a step. `Attention` is what the inbox shows of a ticket.

Entering a node is `Enter`: past the transition limit the ticket is blocked; a
node in a stage the ticket has disabled is passed over to the stage's bypass
target, in a transition of its own; otherwise the node projects a status.
A bypass is assumed to lead to a stage that cannot be disabled
(`GraphAssumption`), as in the shipped workflows; chains of bypasses, and
conditions on workflow inputs, are left to `WorkflowEngine`. A sweep whose next
ticket would be stored in a state that validation refuses (`Poisoned`) stops
there with an error: `Sweep` has then expired any of the others, and the claims,
which start with the sweep, fail.

A claim is made for a supervisor and a host. The host is the hostname the
supervisor has reported, or, when the registry does not know it, the
supervisor's own identifier: between a restart of the tracker, or the
supervisor's farewell, and its next presence. Neither is tied to another step of
the model, so a claim may come with either at any time (`HostsNamed`). The claim
compares its host with the stored ones (`Conflicted`, `Candidates`), and stores
it. All that is claimed of exclusion is claimed of stored host names; of
machines it is false (see Findings).

A person may edit the file of an executing ticket (`FencingEdit`): to any status
but those that keep the lease, to another node or phase, or to no execution. The
scan drops the execution, closes its run, and makes a ticket left running or
blocked ready, or completed in its last phase, wherever it stands by then. A file
that is wrong in itself (`torn`), as when its phase is no longer its execution's,
was not hydrated from the run ledger, so the repair stores no runs (`Erase`): the
leases are over, the history is lost.

*Operator commands are single steps* although most read before they write: the
client sends the revision it read (`client/api.ts:624`), which the mutation
compares. *The acknowledgement of an interruption is one step* although it reads
first: a supervisor sends it only after it has seen the request, and a request
never changes while its lease lives, which is part of what `InterruptFences`
checks: a requested interruption stays until the lease ends, and the lease then
ends interrupted, in a delivery that failed, or in an edit that loses the
history. *Priorities* are left out: a claim may take any eligible ticket.
*Routes* are a graph: an outcome is a choice among a node's successors.

`LeaseRegistry` has tickets that hold at most one lease, the set of leases that have
ended and the number granted. `TicketLease` refines it under `holds[t] =
ticket[t].exec.lease` and `ended` = the leases whose run is settled: a lease is
ended by exactly one step, which also closes its run. `RepositoryLock` has the owner
of each ticket, a supervisor and the host name it took the ticket under: it takes
one only if it owns no other and no ticket owned under that host name has a common
repository. `TicketLease` refines it under `owner[t]` = the owner of an unfinished
ticket, where finished tickets are not reopened (see Findings).

### WorkflowEngine, WorkflowGraph, WorkflowEditor

The state of `WorkflowEngine` is the `workflow` record of one ticket: current
node and status, visits, transitions, the call stack, the fan-out frames with
the branches still to run and those that arrived, the wait with the time left
to its wake and its deadline, the metadata value, the disabled stages. `Settle`
is `settleAutomaticLoaded`: it loops over automatic nodes, 100 steps at most (8 in
the instance), and is a step that may come at any time, since a claim settles
all tickets. Operator commands act between settlements.

`WorkflowGraph!Valid` is `validateWorkflow` without texts: types and their
fields, routes and targets, defaults and codes, stages and bypasses, forks and
their joins, reachability. Its two graph searches are recursive functions,
compared in `MCWorkflowEngine` (`SearchAssumption`) with paths over every graph of
three nodes.

The engine's `Def` is what it reads of such definitions: `Compiled` of one node,
`Linked` of all workflows under the names `runtimeNodeKey` gives their nodes.
What the engine relies on there is `Interpretable`, an assumption that the theorem
`ValidIsInterpretable` derives from `Valid`. The instance's workflows are written
as definitions, accepted by `Valid` and linked (`ValidationAssumption`,
`CompiledAssumption`); beside them stand mistaken ones, which are refused.

`WorkflowEditor` has what the dashboard checks in a draft (`Clean`) and what its
buttons do (`AddNode`, `RenameNode`, `ChangeType`, `DeleteNode`).
`EditorAssumption` checks, over four definitions, every node and every type but
checkpoints: the editor lets through what the library accepts; renaming is undone
by renaming back, and keeps a definition valid; an added node leaves nothing
unreachable and nothing dangling, a node of another type nothing dangling; what a
deletion leaves dangling is reported. The theorems `EditorAdmitsValid`,
`RenamingKeepsValidity` and `AddedNodeConnects` say the first three of every
definition.

### SupervisorSlot

The daemon is a sequential program and `sup.pc` its position: every request it
awaits is a step, and may fail before or after its effect. Beside it: the
assignment record on disk, the pane as Herdr reports it (and the composer's
text, which it may show only as a token), the agent, which works, asks and
calls back when it likes, and the tracker's execution. Crashes lose `sup` but
not the record, and recovery decides from the record and the pane.

### ActivityWorker

The loop claims a node, starts the activity, polls the lease, uploads bundles
and reports. An activity is what it does to the trees of the repositories: a
checkpoint reads them, a restore reads, replaces one by one and puts them back
if one fails, a script writes what it likes, from a process that outlives its
abort. Nothing is resumed: whatever stops the loop leaves the lease to expire.

### Intake

Facts appear upstream in order; a cursor counts those a successful run handed
over. The store's operation `op` has the writes of one request as steps: the
candidate, the ticket, its ready command, the record, the cursor, the run. The
limits per run, per day and of open tickets defer admissions; a `Pass` of the
timer admits them later. Workers lose leases, scripts fail, replies are lost.

A `Save` of a source or campaign archives what it replaces, writes the file
(`Write`) and archives what it wrote (`Archive`), with a crash possible in between;
`kept` has the archived revisions, and a claim passes over a run whose source
revision is not among them. `timer` is the tracker's intake timer: it is armed
again after a pass that went well, so `PassFails` ends it until a `Restart`.

### TicketFiles

A text is the revision, ledger reference, artifact references and edits it
carries. The store's operation works on the indexed copy: write the ledger of
the next revision, compare the file, rename, prune the older ledgers, read back;
a scan does the same with what it read from an editor. The artifact store has
its own queue: uploads and maintenance passes interleave with all that. Time is
the age of a record or blob (young, past the grace, past the retention).

A pass asks for the size of every file it has listed below `blobs/`, the
temporary file of an upload included; when the upload has renamed it by then
(`Vanishes`), or anything else cannot be read, the pass fails (`PassFails`). The
pass the timer started then ends dead, for the timer is armed again only after a
pass that went well; another keeper's pass, an operator's, is over.

### Catalog

A family has its current file, an archive, an index of numbers and an entry in
the release catalog; a prompt has its file and an archive. `lib` and `edit` are
the writers in the two queues; readers number and archive outside them; tickets
are created (number, revision, prompt, file) and bundles imported meanwhile;
people edit both files; `Restart` is `reconcileCatalog` and the archiving of
the current prompt.

### Board

A window shows a ticket with a draft, or the configuration form; a request is a
flight, which the tracker serves at one step and answers at a later one;
replies come in any order or fail. A refresh is the closure of the render that
started it, and may start at any time: by an event, the timer or a command.

There are two ways to type. The pending editor's draft belongs to a ticket and is
saved there. What is typed into the description editor or the composer of a
live ticket (`live`) belongs to no ticket: it is sent to the one selected at that
moment (`SendLive`). A refresh of a ticket shown before selects it again and
leaves the editor open; the text so sent to another ticket than it was typed
for is `strayed`. `DraftsApart` says that nothing else comes to a wrong ticket.

### ExecutionTrace

A recorder streams batches of events; the assignment captures session evidence
when the run ends; a manifest closes the run. Each call may be given up while
the tracker still serves it, or its reply lost; a crash begins a new trace.
A batch is stored in two writes, its record and the ticket that lists it. A
tracker that dies between them leaves an orphan, which maintenance attaches to
the ticket later, when the recorder may have sent the batch again: `TraceWhole`
says that events are stored twice in no other way.

### PullRequestFeedback

`Observe` maps the stored observation, the comments on GitHub's first page and
the mergeable flag to new feedback, a conflict report and the next observation.
`FeedbackAssumption` runs three polls over every pair of comments, with every
time of making and deleting: each that counts is reported by the first poll that
finds it and no other, except what a finished ticket's first look finds.
`ConflictAssumption` does the same for every answer about merging.

## Runs

| run | instance | what it shows |
|---|---|---|
| `lifecycle` | 1 ticket, 1 supervisor, 2 leases, 1 callback in flight; work, a check that may be skipped, a gate, an end that GitHub reopens; every edit of an executing ticket's file | types; executions, runs and callbacks agree; no lease makes the sweep fail while bypasses lead to a gate; interruptions fence results; only a release, or an edit that moves an executing ticket, leaves an unfinished ticket to nobody |
| `sharing` | 2 tickets of one repository, 2 supervisors of one machine, whose hostname the tracker knows or not; work, a gate, an end | no two executions in one repository under one host name; refinement of `LeaseRegistry` and, without reopening, of `RepositoryLock` |
| `expiry` | 1 ticket, 4 leases, loss limit 3 as in the code; no edits | the third loss stops the ticket; every lapsed lease is settled |
| `engine` | a parent that polls under a deadline, calls a child, forks and joins; metadata; every command | calls nest; branches are joined once; no work beyond its limits is offered; a poll loop keeps its deadline, and ends |
| `slot` | 2 leases, 1 message, 1 fault | an assignment is pasted once per lease; delivered means taken up; acknowledged means stopped; interruptions and guidance are served |
| `activity` | 2 repositories, 3 leases, 2 checkpoints, 1 fault | a restore replaces every repository or none; every lease of the loop ends |
| `intake` | 2 facts, 1 worker, limits of 1, a midnight, 1 fault | no second ticket for a fact; the cursor passes no unrecorded fact; the day's limit; every fact is recorded, while its definitions are archived and the timer is armed again |
| `files` | an attachment and an upload of equal content, 2 edits, 1 pass, 1 crash | the ledger the file names exists; evidence is kept; an edit the check can see survives; orphans are settled as long as the timer lives |
| `catalog` | 2 contents of workflow and prompt, 2 creators, 5 requests or edits, 1 crash | one default, moved by requests only; pinned revisions stay; no number for two tickets |
| `board` | 2 tickets and the configuration, 2 edits, 1 command, 2 flights | drafts stay with their ticket, but for text that a refresh took along; a save that was overtaken is refused; the form never writes over another's configuration |
| `trace` | 1 kind of evidence, batches of 2, 2 recorders, 1 fault | traces are gapless, and stored twice by maintenance only; complete ones are marked; the slot is freed |
| `poisoned` | a review that bypasses to the end | the finding below: an expiry that validation refuses |

Between them the runs fire every action. `CHECK_DEADLOCK` is off (but in
`board`) because the bounds, or finished work, are a proper end.

**Bounds and why they are enough.** In `TicketLease` two leases let a stale request
meet a live successor and two tickets execute at once; four let a third loss follow
two others and be followed by a claim; one callback in flight is a duplicate or a
rival of the one committed before it, which may leave its call in flight; `MaxMoves`
is the workflow's own transition limit, small so that it is reached, the counter
saturating one above. `lifecycle` leaves `fail` and the return to draft to `expiry`;
terminating by cancellation is the same code. In `sharing` all supervisors are on
one machine, where repositories conflict, and `SYMMETRY` identifies behaviours that
differ in the names of tickets and supervisors (it has safety properties only). The
workflow of `engine` has every type of node that settles by itself, and a poll whose
deadline is two delays; visits saturate above their limit. One fault (a crash, a
failed request, a lost reply) in `slot`, `activity`, `intake` and `trace` falls
anywhere in a run of several leases, and what it leaves meets the next lease; two
would mostly repeat it. In `intake` one worker is enough: a result of a lease that
is over is refused whoever holds the run by then. In `files` two edits are one that
the tracker sees and one that races it; equal contents are where collecting a blob
is delicate. In `catalog` two contents are enough to be retired and to return (its
symmetry sets have no liveness property beside them), and a fault-free path of five
requests covers a publication, an import and two creations at once. In `board` two
flights are a refresh and a command.

**Fairness.** Only what the code's loops do is fair; operators, agents, upstream
facts and editors may stop for ever.

* `TicketLease`: `WF(Sweep)`: `index.ts:36` runs `expireLeases` on an interval
  for as long as the tracker lives.
* `WorkflowEngine`: time passes (`WF(Tick)`), and supervisors keep claiming,
  which settles; written `[]<>~Unsettled \/ []<><<Settle>>`, weak fairness with
  the enabling condition spelt out, because TLC is slow at `ENABLED` here.
* `SupervisorSlot`, `ActivityWorker`: the daemon's loops, and its restart, since
  it runs as a service; scripts end by their timeout; the sweeper.
* `Intake`: the timer while it is armed (strongly: the queue may be busy when it
  fires, but serves whoever waits), the operation under way, workers that poll.
  Nobody restarts the tracker, saves again, or closes a ticket for the model's sake:
  `FactsRecorded` excepts a timer that stays dead and a definition that stays
  unarchived.
* `TicketFiles`: the queues, the watcher and its scan, the maintenance timer and
  the steps of a pass under way, a restart after a crash, and the passing of time,
  which operations interrupt (strong). A timer that died is not fair:
  `OrphansSettle` excepts one that stays dead for ever.
* `ExecutionTrace`: the tracker answers, the supervisor goes on with the answer.
* `Board`: replies arrive. `Catalog` has no liveness property.

## What is proved

With TLAPS, for every value of the constants that satisfies the assumptions named
in the modules: bounds are naturals (those positive without which nothing could
happen), sentinels are not members of the sets they extend, the graph of
`TicketLease` is well typed, the definitions of `WorkflowEngine` are
`Interpretable`, and the sets whose sizes are counted (revisions, repositories,
kinds of evidence) are finite. Every safety property of the passing runs has a
theorem, the bounds of the instances gone: any number of tickets, leases and
crashes, and any definition the library accepts.

| module | theorems | from |
|---|---|---|
| `TicketLease` | `TypeCorrect`, `RunsMatch`, `CallbacksCurrent`, `RepositoriesExcluded`, `RegistryImplemented` | `IInv` |
| | `InterruptionsFence`, `NothingElseStrands` | `IInv /\ SInv` |
| | `SweepsComplete`, if no bypass leads to a terminal node | `IInv /\ SInv` |
| | `LostNodesWait`, if no operator moves tickets by hand | and `Counted` of every ticket |
| | `LockImplemented`, `SupervisorsOwnOne`, if finished tickets are not reopened | `IInv /\ SInv`, and `Apart` |
| `Intake` | `OneTicketPerFact`, `CursorNeverAhead`, `DayLimited` | `IInv` |
| `Catalog` | `CatalogWhole`, `PinsStayArchived`, `DefaultStays` | `IInv` |
| `SupervisorSlot` | `AssignmentPastedOnce`, `AcknowledgedIsStopped` | `IInv` |
| | `DeliveredHasReached`, if the provider does not collapse pastes | `IInv /\ Reached` |
| `Board` | `DraftsOfOneTicket`, `RacingEditsSurvive`, `ConfigSurvives` | `IInv` |
| `TicketFiles` | `LedgerThere`, `CommandsCompare`, `EvidenceStays` | `IInv` |
| `WorkflowEngine` | `EngineTypeCorrect`, `BranchesAccounted`, `WorkBounded` | `IInv` |
| | `CallsNested`, if no operator migrates inside a child workflow | `IInv` |
| | `DeadlinesKept`, if besides each wait is polled by one node alone | `IInv`, and `Timed` |
| `WorkflowGraph` | `SearchesAreExact`, `ValidIsConnected`; and that the engine's assumptions follow, `ValidIsInterpretable` | |
| `WorkflowEditor` | `EditorAdmitsValid` | |
| | `RenamingKeepsValidity`, if the new name is none the definition uses | |
| | `AddedNodeConnects`, but before a terminal node at which the workflow starts | |
| `PullRequestFeedback` | `FeedbackReportedOnce`, if GitHub numbers comments as they are made and deleted ones do not return | |
| `ActivityWorker` | `RestoredWhole` | `WorkerIInv` |
| `ExecutionTrace` | `TracesAreWhole`, `MarkedAtTheEnd` | `IInv` |

`PROJECT.json` names the property each one states. The hypotheses of the
conditional ones are those of the passing runs, and necessary: the findings
`poisoned`, `reopened`, `unseen` and `displaced` are what happens without them, an
operator who moves a ticket back to a node at its limit has it offered there again
at once, and a wait that two nodes poll restarts its deadline when the second leads
back to it (see Observations; the library does not refuse such a definition).

Each argument about a specification is an inductive invariant, preserved by one
lemma per action, with one step per conjunct that the action can disturb. TLC
checked each on the instances of the runs before it was proved. What the invariants
add to the properties:

* *`TicketLease`, `IInv`.* *Consistent*: an execution's lease has been issued, its
  run is open, is that ticket's and is at the ticket's node, under its supervisor;
  an open run's lease is held; a lease not yet issued has no run. *CallsMatch*: a
  call's node is that of its lease's run. *Exclusion*: executions under one host
  name do not overlap. `RunMatchesExecution` is not inductive without the bound on
  issued leases: a claim might grant a lease that some run already had.
  `RepoExclusion` is inductive although reservations are not exclusive after a
  reopening, because a claim checks those of *all* unfinished tickets and every
  executing ticket is unfinished. The mutations have four shapes: one keeps the
  lease (`KeepStep`), ends it (`EndStep`), grants one (`GrantStep`) or sweeps
  (`SweepStep`). `Closes` is what an end does to the runs, of one lease or, where an
  edit erases the history, of all of the ticket's.
* *`TicketLease`, `SInv`.* *Sound*, of every single ticket: it is valid; under a
  lease it is at a work node; without one nothing is requested of it; a requested
  move leads to no terminal node. Every action but an edit is a `Turn` of each
  ticket it touches: the result is sound, is not *Misplaced* (stranded, an open
  question aside) unless the ticket was or was released, and is *Counted* (a node at
  its limit of losses is the node the ticket stopped at) if the ticket was and
  nobody moves tickets by hand. An edit is an `EditTurn`: what it misplaces it has
  moved (`Displaced`). The lemmas `PlacePlaces`, `EnterPlaces`, `TransitionPlaces`
  and `RelocatePlaces` say where the workflow puts a ticket. `Progress` joins the
  turns with what the step leaves of an interruption (`Fenced`) and with the step of
  `RepositoryLock`: a ticket's owner keeps it or gives it up, except in a claim,
  whose candidate is the supervisor's own under the same host name, or nobody's
  while it owns nothing (`CandidateOwned`).
* *`Intake`.* An operation that creates a ticket is at a fact that has none
  (`Admits`); what a submission still has to record lies beyond what is recorded
  (`Covers`); the tickets made today are those of the ledger, those cut short and
  the one being recorded (`Counted`).
* *`Catalog`.* What each writer has prepared is archived before it is referred to
  (`Writing`, `Pinned`); when nobody publishes, a family with a file has a release
  (`Settled`); an index never runs past the number of revisions, whatever older
  copy of it a writer went on from (`Indexes`), so that numbers stay in their type.
* *`SupervisorSlot`.* Where the slot is in its program decides whether the
  assignment has been delivered (`Phases`); a lease it takes for undelivered has
  not been pasted since the last failure that went unreported (`Unpasted`); nothing
  sets the agent going between its stop and the report (`Quiet`). `Reached`: while
  nothing has failed, what slot and tracker take for delivered was taken up, and
  the composer is empty except while a paste is ambiguous.
* *`Board`.* What was typed is marked with the item it is kept for (`Owned`), or is
  live text, or went astray (`Spare`); no copy is newer than the original (`Dated`);
  a request the tracker would still accept was sent with all of the item in view
  (`Sound`); a revision of the configuration is one text, wherever the copy is
  (`OneText`).
* *`TicketFiles`.* The index is at the file's revision but between a rename and
  the load (`Ledgers`); a command writes what it compared (`Compared`); whatever is
  acknowledged is in every text there is, in memory and in preparation
  (`Acknowledged`), and in the list of every pass that could read the ticket
  (`Retained`).
* *`WorkflowEngine`.* *Shape* is the type without the bounds of the instance:
  stacks, frames and visits of any length and number, and the branches of each
  frame accounted for (`Branch`). *Sound* adds that work on offer is within its
  limits (`Claimable`), and that the call stack is a path of calls from the root
  to the active workflow (`Path`, in `Placed`), the part a migration inside a
  child breaks. Two recursions stand between a step and its result. A chain of
  bypasses (`Enter`) ends because each costs a transition and the ceiling is
  finite: were there a ticket it does not serve well, there would be one nearest to
  the ceiling (`Smallest`), and its successor in the chain is nearer still.
  A settlement (`Settled`) is a hundred steps in the code and any number here:
  what every step of one node keeps (`SettleNode`), a settlement keeps, by the same
  argument on the steps left (`Stepwise`, `Iterated`). `Timed` is what a started
  wait keeps until something leads back to it: its deadline never later, or the
  ticket where only its poller could return to it.
* *`WorkflowGraph`.* A search looks at a node once, so it ends. What it finds has a
  closed form, the least set closed under targets that covers the stack (`Found`);
  this solves the recursive equations of both searches, and nothing else does,
  because each step has seen more nodes or has a shorter stack. The order in which
  targets are looked at does not appear in it. From there a definition that `Valid`
  accepts is connected, and every route, code, join and start the engine looks up
  is there: one step of `NodeCompiled` per type of node. Beside `Valid` this takes
  what the callers of `validateWorkflow` see to: names are non-empty (`SAFE_ID`)
  and unique over all workflows (`runtimeNodeKey`), called workflows exist
  (`workflowIds`). The engine's model restricts the metadata to one key and its
  values to `Values`.
* *`WorkflowEditor`.* `Renamed` relates a definition to itself with one node called
  differently, field by field; to a name that nothing mentions this is one to one,
  and can be undone. The targets of a renamed node are the old ones renamed
  (`TargetsLed`), so a set closed in one graph is closed in the other
  (`ConnectedStill`, from `ValidIsConnected` and `SearchesAreExact`), and each
  condition of `validateWorkflow` carries over (`NodeStillValid`). In a definition
  the library accepts, the routes and the search of the editor are the library's
  (`EditorRoutesKnown`, `SameSearch`), and each error of `workflowErrors` is one of
  `validateWorkflow`'s too. An added node takes one target from other nodes and leads
  there itself (`Turns`, `FreshLeads`), so a set closed in the new graph is closed in
  the old one (`InsertedConnects`). It is the new node alone that is not reached if
  it is added before a terminal node at which the workflow starts, because `addNode`
  leaves the start where it was; the editor then reports it.
* *`PullRequestFeedback`.* A page holds the comments of a kind with the smallest
  numbers. A comment on a page is newer than the latest that the poll before saw
  exactly when no earlier page held it (`ListedWithin`, `LatestIsNewest`).
* *`ActivityWorker`.* A restore that nothing disturbs has replaced the
  repositories it no longer lists, or put them back (`Undivided`).
* *`ExecutionTrace`.* What the recorder holds is the end of its trace, and the call
  under way carries what it holds first (`Pending`); batches stored, or late and
  perhaps still stored, end at a closing event or before it (`Marked`), and follow
  one another without overlap (`Chained`), but for those that maintenance attached
  again, which begin where another does; a batch begins within what is acknowledged,
  and ends there, or continues it (`Grown`); `Counted` bounds the events of an
  assignment, for the types.

**Model-checked only.** Liveness under fairness is beyond the prover:
`LapsedLeaseSettles`, `WaitEnds`, `InterruptServed`, `GuidanceHeard`,
`LeaseSettles`, `FactsRecorded`, `OrphansSettle` and `SlotFreed` are what TLC finds on
the instances. So is what `EditorAssumption` says of retyping and deleting nodes,
over named definitions.

## Findings

What the documentation says and the code does not do. `poisoned` is one of the
runs; each other row has a configuration beside them that TLC finds violated in
seconds (`tlc -config <configuration>.cfg <module>.tla`). Where one lists several
properties TLC stops at the first it finds violated; leave the others out to see
each.

| configuration | property | what happens |
|---|---|---|
| `MCTicketLease_poisoned` | `SweepNeverPoisoned` | the expiry of an unacknowledged migration into a disabled stage that bypasses to the end is refused, and every later sweep and claim with it |
| `MCTicketLease_reopened` | `OneTicketPerSupervisor` | a reopened ticket keeps its supervisor, who may own another by now |
| `MCTicketLease_interrupted` | `InterruptHonoured` | a failed delivery discards a requested cancellation, failure or migration; nothing else does but an edit that loses the history (`InterruptionsFence`) |
| | `HistoryKept` | an edit that makes an executing ticket's file invalid in itself is repaired without its node runs: history and costs are gone |
| `MCTicketLease_stranded` | `NobodyStrands` | releasing the supervisor of a ticket blocked at a gate makes it ready there: no claim takes it, no decision is accepted, no inbox shows it |
| `MCTicketLease_misplaced` | `NobodyStrands` | an edit that moves an executing ticket to a gate makes it ready there, too |
| `MCTicketLease_hosts` | `MachineExclusion` | after a restart a supervisor claims under its identifier until it has reported its hostname: two executions on one machine in one repository |
| | `OwnerMayClaim` | a ticket so claimed stays reserved under the identifier: once its supervisor's hostname is known, that supervisor may not claim it, nor anything else |
| `MCWorkflowEngine_revived` | `StoppedStays` | a ticket failed or cancelled at an automatic node is settled on and goes back to work |
| `MCWorkflowEngine_displaced` | `CallsNest` | a migration out of a child workflow leaves the call stack; the node is looked up in the wrong definition, and every claim fails |
| `MCSupervisorSlot_unseen` | `DeliveredReached` | where the provider collapses pastes, an old one is taken for this assignment |
| `MCActivityWorker_findings` | `SavedBeforeChanged` | a restore uploads its `pre_restore` bundles only after it has replaced the repositories |
| | `StoppedBeforeAcknowledged` | an aborted script is not waited for |
| `MCIntake_findings` | `DisabledStops` | a run scheduled before its source was disabled is still executed |
| | `RunsClaimed` | a save cut short before its last write leaves a definition whose runs no claim takes |
| | `SourcesScheduled` | one pass that fails is the last until the tracker is restarted |
| `MCTicketFiles_findings` | `EvidenceNeverDeleted` | evidence of a ticket whose file is unreadable at the moment of a pass is collected |
| | `ScanKeepsEdits` | a scan overwrites what an editor saved since the scan's read |
| | `MaintenanceGoesOn` | an upload that renames its temporary file under a diagnosis ends maintenance until the tracker is restarted |
| `MCCatalog_findings` | `NumbersUnique` | two readers number two revisions at once and give them one number |
| | `PinsReadable` | a prompt revision cut short by a crash stays so in the archive |
| `MCBoard_findings` | `NoSilentOverwrite` | a refresh takes over a newer revision under an older draft, whose save then passes the check |
| | `TextWhereTyped` | a late refresh of ticket A selects it again under the open editor of ticket B, whose text is then saved in A |
| `MCExecutionTrace_findings` | `RetriesAccepted` | a batch retried after a lost reply has grown and is refused for ever |
| | `StoredOnce` | a batch whose record outlived the tracker is sent again, and maintenance lists both |

### Observations

Met while modelling; in the models as the code has them, where their state is
in a model at all.

* *Engine.* A block at a visit or transition limit is ignored on automatic
  nodes, since the settlement looks at the node only; a wait polled by two nodes
  loses its deadline when the second leaves for the first; the root's transition
  limit does not count in a child; a definition that is accepted may reach a
  fan-in without a fork; exit codes of checkpoints are not checked at all.
* *Observer.* Only the first page of 100 comments of each kind is read, so
  later feedback is never seen; a merge conflict is reported again after every
  answer "not known yet" (both in the assumptions of `MCTicketLease`).
* *Intake.* Reconciliation and the rerun of a cut-short run admit more than a
  run's limit; a crash between a ticket and its record makes the fact a
  duplicate and the day's count too low (`DayLimitKept` says by how much); a
  crash before the ready command leaves a ticket nobody makes ready; one
  candidate that always fails keeps the cursor where it is.
* *Supervisor.* The reminder sent "once per lease" (init.md:579) is sent again
  when the watch is entered again; a crash, or a failed report of a rejection,
  can lead to a second paste (`PastedOnce` excepts those); a control request
  that fails while the agent calls back leaves the agent unsettled.
* *Activities.* "latest" may resolve to the `pre_restore` checkpoint; a crash in
  the middle of a restore leaves the repositories half restored; at 200
  checkpoints a result is refused and the lease must expire.
* *Storage.* An older copy saved by an editor names a pruned ledger; a prune
  that fails after the rename leaves the index behind the file; a crash between
  removing an attachment's reference and its record brings it back; two trackers
  that start on a stale lock file may both take it (`ticket-store.ts:823`).
* *Catalog.* A crash between file and catalog leaves the revision "retired"
  after the restart; publishing retired content again leaves it retired; `PUT`
  with another id writes the other family's file and then answers 422; an import
  that fails has installed its prompts.
* *Dashboard.* A slow load may show ticket A after the operator opened B; a
  creation that timed out and is retried makes a second ticket; the workflow
  editor publishes some drafts the library refuses (a join that is no fan-in,
  codes used twice, a workflow that calls itself).
* *Traces.* Batches count against the ticket's artifacts; a batch above the
  request limit is refused for ever; a crash before the manifest leaves none;
  the spool file is never read back.

## Not modelled

* Text (prompts, Markdown, messages, logs), HTTP parsing, rendering, YAML.
* Floating-point reports: metrics, quality, quota, pricing; their one effect on
  tickets, a cost ceiling, is `Overspend`.
* The tracker's lock file (two processes and the operating system), Git and
  Herdr command lines, Jira, installers, skills: external programs or
  sequential ones, whose outcome is nondeterministic where it matters.
* Contexts handed from node to node, conversation policies, dependencies
  between tickets, idempotency keys of creation.
* Edits of the files of tickets that do not execute, of owner fields, and while
  the tracker is stopped; when exactly the registry knows a supervisor, and its
  refusal of a second live process of one identifier.
* On the dashboard, the answers to questions: they are kept by question.
* In the editor, names given twice: renaming a node keystroke by keystroke
  through another's name merges the two.

## Plan

1. Proofs: what deleting or retyping a node leaves of a definition that was accepted.
2. The tracker's lock file; wait delays as integers against the schedule; the
   composition of `SupervisorSlot` with `TicketLease`.

## Running

    tlc -config MCTicketLease_lifecycle.cfg MCTicketLease.tla
    for m in *_proofs.tla; do tlapm $m; done
