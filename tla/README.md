# Claudexor: a TLA+ verification project

Claudexor is a local control plane for coding agents. A long-lived daemon
accepts commands over a Unix socket and a loopback HTTP API, keeps them in one
SQLite store, runs them through an orchestrator that drives external harness
CLIs, and publishes durable events and terminals. This directory holds TLA+
models of the parts of the daemon where correctness depends on order,
concurrency or failure, the configurations that model-check them, and proofs
of the theorems that hold for every instance.

Contents: [inventory](#inventory), [plan](#plan), [modules](#modules),
[runs](#runs), [fairness](#fairness), [mutants](#mutants), [proofs](#proofs),
[disagreements](#disagreements-between-code-and-comments),
[what is not modelled](#what-is-not-modelled).

## Inventory

Paths are below `src/packages/` unless they say otherwise.

| Component | State it keeps | Operations | Hard behaviour | What makes it correct |
|---|---|---|---|---|
| Writer lease (`daemon/src/writer-lease.ts`) | a directory with `owner.json`, one tombstone per replaced owner | acquire, classify an owner, quarantine, release | uncoordinated processes, crash between two file system calls, recycled pids | one writer; a running owner is never displaced; a dead one can be replaced |
| Command queue (`daemon/src/server.ts`, `job-admission.ts`, `job-settlement.ts`, `enqueue-command.ts`) | queue, active jobs, cancel marks, abort controllers | enqueue, drain, run, cancel, stop | awaits between plan and commit, failing writes, stop and crash at any point | one job per request, caps, one runner per thread, final and truthful outcomes |
| Command rows (`daemon/src/store/commands.ts`) | `command`, `run_terminal`, idempotency rows | accept, update, persistTerminal, recover | the durable terminal against later patches, restart | the durable terminal decides; nothing is run twice |
| Delegate families (`orchestrator/src/delegationBudgetAuthority.ts`, `daemon/src/delegation-admission.ts`) | parent ledgers, pending and attached children | register, admit, attach, close, drain, release | parent and child wait for each other at the cap; cancel during the drain | a parent's terminal comes after its family |
| Next messages (`daemon/src/deferred-messages.ts`, `daemon/src/store/deferred-messages.ts`) | one draft per predecessor run: waiting, held, dispatched, cleared | save, edit, hold, send now, clear, automatic dispatch, stop fence | asynchronous validation against edits, stop and shutdown; restart | sent at most once, only the revision that was validated, never after Stop |
| Durability (`daemon/src/store/flusher.ts`, `flusher-worker.ts`, `mutation.ts`) | WAL, flush generations, waiters, outstanding commands | commit, register, mark, `flushed()`, flush pass, restart of the worker | commits during a pass, a worker that dies, power loss | an answered `flushed()` means that every commit before it is on the disk |
| Obligations (`daemon/src/store/obligations.ts`) | one row per file effect owed | create, register, materialize, clear, complete what is open | crash between the effect and the deletion of the row | an effect is complete and durable before its obligation is forgotten |
| Terminal files (`daemon/src/store/terminal-files.ts`) | receipts of a run | stage, materialize, repair | crash after the SQL terminal | the files follow the durable terminal |
| Run events (`event-log/src/index.ts`, `daemon/src/journaled-run-events.ts`) | `events.jsonl` and its journal copy | append, prepare and commit a terminal | a sink that fails between the two | one terminal; the file never claims what the journal refused |
| Root authority (`daemon/src/root-authority.ts`) | the barrier in the lease anchor | install the barrier, migrate in place | old daemons that know the old protocol | an old daemon never becomes a second writer |
| Partitions, generations (`daemon/src/store/partitions.ts`, `generations.ts`, `owner-generations.ts`) | partition epochs | seal, activate, migrate | crash in a cut-over | one live generation |
| Import and recovery (`daemon/src/store/importer.ts`, `sql-recovery*.ts`, `engine-state-recovery.ts`) | legacy journals, exports | import, verify, export, replace | crash in a file sequence | no accepted record is lost |
| Retention and pruning (`daemon/src/store/retention*.ts`, `command-prune.ts`, `purge-files.ts`) | reference counts, tombstones | page, prune, purge | references added while a page is swept | what is referenced is kept |
| Blobs, resources, uploads (`daemon/src/store/blob-files.ts`, `resources.ts`, `uploads.ts`) | files and their rows | stage, publish, claim, release | a file without a row and the reverse | a row's bytes exist |
| Threads and projects (`daemon/src/threads.ts`, `projects.ts`, `store/thread*.ts`) | thread lifecycle, turns, worktrees | create, turn, retire, close | closing against new turns | no turn on a closed thread |
| Interactions and decisions (`daemon/src/interactions.ts`, `operator-decisions.ts`, `store/interactions.ts`) | pending questions and answers | ask, answer, expire | answer against timeout, replay | one answer |
| Quota registry (`daemon/src/quota-*.ts`, `model-*-ledger.ts`, `credential-unusable-ledger.ts`) | snapshots per account and window, poll lanes | refresh, supersede, pace | late answers of a poll | a newer fact is not overwritten |
| Client and event RPC (`daemon/src/client.ts`, `rpc-followers.ts`, `events.ts`) | sockets, cursors | call, follow | reconnect | no event skipped |
| Orchestrator strategies (`orchestrator/src/orchestrator.ts` and its helpers) | a run in progress | ask, plan, race, convergence | aborts, retries, rotation of credentials | one terminal per announced run |
| Budget (`budget`) | ledgers, leases, circuit breaker | reserve, settle, release, pace | concurrent reservations | spend never exceeds what was granted |
| Workspace (`workspace`) | git worktrees, isolation | create, snapshot, revert | crash in a git sequence | the user's tree is not lost |
| Review, arbitration, synthesis (`review`, `arbitration`, `synthesis`) | findings, decisions | review, rank, converge | stalled convergence | a clean verdict needs current evidence |
| Delivery (`delivery`) | patches | dry run, apply, branch, commit, PR | the tree changes under an apply | what is applied is what was approved |
| Core and harnesses (`core`, `harness-codex`, `harness-claude`, `harness-cursor`, `harness-opencode`, `harness-agy`, `harness-grok`, `harness-acp`, `harness-raw-api`, `harness-fake`, `gateway`) | child processes, streams | spawn, parse, terminate | abort and reap | no process outlives its run unnoticed |
| Surfaces (`control-api`, `cli`, `mcp-server`, `acp-server`, `src/apps/macos`, `src/plugins`) | sessions, SSE cursors | translate requests | reconnect, replay | they add no state of their own |
| Support (`schema`, `util`, `config`, `context`, `policy`, `secrets`, `artifact-store`, `canary`, `claudexor`, `src/benchmarks`, `src/site`, `src/scripts`, `src/release`) | data shapes, files | validate, read, write | | |

How they interact: a surface calls the daemon (`dispatch`). Acceptance writes a
command row and publishes the job to the queue; the queue calls the injected
runner, which calls the orchestrator; the orchestrator reports the run identity
back (`onRunStart`), emits events and one terminal through the event log into the
SQL store, and returns; the queue settles the row, retries admission and tells the
next-message owner that the job ended. Every durable write goes through one
mutation boundary, whose commits the flusher makes durable. The lease decides
which process may do any of this.

## Plan

Order: first what decides whether accepted work is run once and ends truthfully,
then what survives a failure, then the components around them.

| Step | Module | Models | State |
|---|---|---|---|
| 1 | `WriterLease`, `WriterLeaseProofs` | the lease, one action per file system call | checked and proved |
| 2 | `CommandQueue`, `CommandQueueProofs` | acceptance, admission, runners, families, cancellation, stop, crash, restart | checked and proved |
| 3 | `DeferredMessages`, `DeferredMessagesProofs` | the next message of a run | checked and proved |
| 4 | `Durability`, `DurabilityProofs` | flusher, obligations, power loss | checked and proved |
| 5 | `FlushedWrites`, `FlushedWritesProofs` | the promise of `flushed()`; `Durability` implements it | checked and proved, the refinement too |
| 6 | `BlobOwners`, `BlobOwnersProofs` | uploads, publication, holders, bodies, collection and sweep of one content-addressed file, through power losses | checked and proved |
| 7 | `RunTerminal`, `RunTerminalProofs` | the end of a run: verdict, log, store, file, repair | checked and proved |
| 8 | `FamilyBudget`, `FamilyBudgetProofs` | the money of a Delegate family and the barrier around it | checked and proved |
| 9 | `Retention`, `RootAuthority`, `QuotaLanes`, `ApplyGate` | paged references; the migration of the lease anchor; late polls; a verified tree that changes | open |

"Proved" is said of the safety and action properties; liveness is model-checked only.
Modules that are proved about declare their parameters as CONSTANTS with named
assumptions, have one action per operation and use no RECURSIVE operator.

## Modules

### WriterLease

One `Claimant` is one daemon process. Its `pc` says which call of
`acquireDaemonWriterLease` or `release` comes next; `lease` and `tomb` are the two
kinds of paths. `MakeDirectory`, `WriteOwner`, `Inspect`, `Classify`, `Confirm`,
`Quarantine` and `Recheck` are the loop with its two attempts; `CheckOwn`,
`UnlinkOwner` and `RemoveDirectory` are `release`. A process dies between any two
calls. `Classify` draws the birth identity and the presence of the owner's pid from
what an observation can yield (`Identities`, `Presences`): with `BlindReads` it may
yield nothing, with `Legacy` an owner file has no identity. Links, permissions and
half-written owner files are the value `Ownerless`, for which the code has one answer.

### CommandQueue

An action is the code between two awaits of the daemon's single thread.

| Code | Model |
|---|---|
| `command.state`, `run_terminal`, idempotency row | `state`, `terminal`, the winner of a key |
| `queue`, `activeJobs`, `cancelled`, `controllers` of `DaemonServer` | `queue`, `active`, `cancelled`, `aborted` |
| where `runJob` is | `phase` |
| the parents of `DelegationBudgetAuthority`, whether they accept, their pending and attached children | `registered`, `accepting`, `pending`, `attached` |
| `enqueueStaged` before and after its await | `Enqueue`, `Commit` |
| one iteration of `drain()` | `DrainNext`, `DrainFails`, `DrainEnds` |
| `runJob` | `Announce`, `Hold`, `CloseFamily`, `BarrierDone`, `DrainTimeout`, `Persist`, `Return`, `Settle`, `Throw`, with the failing variants |
| `cancelJob`, `stop`, `stopOnce`, recovery | `Cancel`, `Fence`, `Stop`, `StopConfirmed`, `StopRefused`, `Crash`, `Restart` |

`drain()` is a loop of separate transactions, so a crash can cut it: `draining` is
TRUE inside it and only the loop or a crash can go on. A failing SQL write is a
variant of the action that writes (`DrainFails`, `CancelFails`, `PersistFails`,
`SettleFails`, `PruneFails`), with what the code has and has not changed by then. The engine inside a run is what the daemon sees of it.

### DeferredMessages

There is one predecessor and any number of drafts for it; drafts of different
predecessors share nothing. `row` is the stored draft with its revision and hold,
`waiting`, `stopped`, `changed` and `flight` are the fields of the class with those
names. `Mutate` and `Commit` are the two sides of a create, an edit or a clear;
`Validated`, `ValidateFails` and `Promote` the three turns of `evaluate`. What
`evaluate` does after its last await (the loop over `changed`) belongs to the same
action, because only microtasks separate them; the deletion of the flight in
`.finally` is part of that step too. `fenced` is a history variable: the drafts that were
reserved when a Stop or a restart came. A later settlement
(`run-scope-later-record.ts`) is recorded only by the life of the daemon that ran the
predecessor. The successor job is an ordinary job of `CommandQueue` from its
publication on.

### Durability

`wal` is the sequence of database states since the last barrier; a power loss leaves
one of them, and for every directory entry of an effect that is `"cached"` it
chooses whether it was written. `gen`, `out`, `waiters` are the fields of
`FlusherController`, `tracked` that of `Obligations`, `inbox` and `outbox` the two
message ports, `pass` the worker (`target` is `gMax`, `proven` is
`lastProvenDataVersion`). The worker's pass is cut where something can come between:
`StartPass` (messages and directories), `Sample` (`data_version`), `Barrier` (fsync of
the WAL), `Post`. Reading the messages and syncing the directories are one step:
a message matters only to the next pass, and a pass that dies in its directories
leaves what a shorter pass would have left.

An obligation is a writer (terminal files: touch, register, materialize in one
synchronous section, held by `turn`) or a purge (in `Purge`: it awaits the barrier of
its decision, and its deletions interleave with everything). `Decide`, `Retry` and `Redo` are the three
callers of a handler. Ordinary work waits for `completeOpen`, as `claudexord.ts` opens
normal admission only after `recoverAfterStartup`. Contents are written with `O_DSYNC`
and left out; so are passive checkpoints, which only move what is durable already, and the
payload updates a purge records on its way, each with a barrier of its own.

### FlushedWrites

What `flushed()` promises, in six steps of an abstract store: a write is waiting until it
is answered or refused; an answer needs the write among what no power loss can undo. It
says nothing of workers, generations or passes. `Durability` implements it under the
mapping in `Promise`: `latest` is the writes in the last state of `wal`, `durable` those in
its first, which is the state of the last barrier, and a caller is waiting from its commit on, whether its waiter is registered, in the
inbox or with a dead worker.

### BlobOwners

One digest and everybody who needs its file. `db` is the part of the database that
`BLOB_OWNER_PREDICATE` and `cleanupUploadPart` read; `old` are the states a power loss may
leave instead, `may` the same for each directory entry. `turn` is the synchronous section
that is open: `Finalize`, `Link`, `Publish` are tx1, the link and tx2 of a publication,
`Materialize` the commit `completeOpen` adds, `Clean` what follows a cleared row. Sections
of one commit are one action. Generations only matter by what a pass covers, so they are
ages: `new`, `passing`, `synced`. `change`, `wait` and `moved` are `OwnerGenerations`: the
last change of a key, the barrier its flight awaits, and whether the owners moved since.
`FlightRetries`, `FlightKeeps` and `FlightUnlinks` are the three ends of its loop body;
a woken flight is a microtask, so nothing but synchronous code runs before it.
`SweepList` and `SweepTake` are the sweep after a start. A flush pass is its start, which
syncs, and its report: anything the worker syncs between the two would be lost no earlier
and reported no sooner than the model says.

### RunTerminal

`file` is `events.jsonl` as the kinds and numbers of its lines, `sql` the stored terminal,
`ob` its obligation, `job` the command row. `log` is the live `EventLog` (its next number,
whether it defers a terminal, which one it holds, whether it is poisoned), `net` is
`guardAnnouncedRun`: `at` names the await it is in, `ended` the decision of
`cancellationDecided`, `barrier` whether the child barrier and the process scope are
through. `Prepare` and `StagedCommit` are the two sides of the staging await; `Commit`
chooses among the store's refusal with its rollback, a commit that the file follows, and one
that it does not follow. A run may be a Delegate parent, whose decision is taken after the
drain and not before. The audit rows of the control API (`Audit`) go through the live log or, if there
is none, after the last line. `JobRecovers` and `Restart` repeat the repair.

### FamilyBudget

`lease`, `hold`, `unknown`, `started`, `cash` and `overshot` are the fields of
`SharedFinancialState`; `parent`, `accepting`, `pending`, `attached` and `released` those
of the registry. Every call is synchronous, so it is one action; the interleaving is
between calls. Routes are three: free, paid at an unknown price, paid at an estimate. `job`
is the daemon's view of each child, with the mark of a cancel that could not be recorded.
`excess` (cash above the hold of its lease) and `late` (children attached after the
timeout of the drain) are history variables: they name the two ways in which the code lets
money through on purpose or for lack of a check.

## Runs

| Run | Instance | Shows |
|---|---|---|
| `lease` | 3 claimants, 2 crashes, one owner without an identity, observations that may fail | one writer; only dead owners are moved; an orphan stays; contenders do not all refuse a dead owner's lease |
| `requests` | a request and its retry, a second request, a model operation; cap 2, class caps 1; cancel, stop, crash, restart | each accepted key is one job with one owner; caps; completion retries admission |
| `family` | a Delegate parent, two children, an ordinary job of the second child's thread; cap 2 | no shared thread; the overflow is one child; the parent's terminal follows its family |
| `faults` | parent, child, ordinary job; cap 1; one failing write anywhere, cancel, stop, crash, restart | the durable terminal decides; nothing starts twice, cancelled, or after a stop; every accepted job ends |
| `store_stop` | the requests, a failing write and a stop | a disagreement, see below |
| `prune_fault` | the requests, a failing write | a disagreement, see below |
| `next_message` | two creates, an edit, a clear; Stop, shutdown, ordinary continuation, crash, restart, one failing write | one continuation; what is sent or refused was validated; what was fenced is not sent; what is held stays held; what waits is decided |
| `effects` | a writer into two directories and a purge of one of them; any two mishaps | a row is gone only when its effect is durable; nothing is deleted before its decision is |
| `flushed` | a caller and a purge; any two mishaps | `Durability` implements `FlushedWrites`; every call ends; every materialized row is cleared |
| `blobs` | an import, a draft and the command that takes over from it, a body of the same digest; one crash or power loss | a publication survives; owners keep their bytes; only unneeded files are unlinked; an unowned one goes |
| `terminal` | an ordinary run or a Delegate parent; three events, three audits, four mishaps | the log is ordered, loses no line and has the stored terminal only; a late abort loses; a stored terminal arrives or its failure is disclosed |
| `budget` | a parent, two children, two leases, cap 3, amounts up to 2 | no headroom is lent twice; one unknown price; debts are kept; silence after the barrier |

In `effects` and `flushed` a mishap is a death of the worker, a crash, a power loss, a
failing effect or a failing clear; in `terminal` a crash, a refused commit, a broken
rollback, a failing file write or a failing barrier.

Why the bounds suffice for what the runs ask. Three claimants are the dead owner, the
one that replaces it and the one that acts on what it read before. Two calls of one key and one of another are all the idempotency
row distinguishes; the caps are reached by four jobs, and the single overflow needs
two children. One failing write shows every error path once, alone or before a crash.
Four mutate calls give a create, a rival, an edit and a clear. With one directory of each effect's
own and one shared, a registration can be covered while the next is not. Two mishaps
are what the durability properties need to be violated by the mutants: the worker must
die after the clearing transaction has failed. One unread report (`MaxPosted`) is
enough because a report covers every earlier one.
In `blobs`, `MaxBehind` = 1 admits a request only while at most one earlier state of the
database is not durable; the steps inside a request and the reports add more, so a power loss
has several states to choose from. One crash or power loss after any step is what a publication and its
recovery distinguish; a second would only repeat the recovery. Two owners of each kind are there
(a holder and its successor, a body and a publication), and a new owner can come during
any wait of a flight.
In `terminal` three events let one be appended before, during and after the staging, three
audits likewise; four mishaps allow a failed barrier, a refused commit, a failed repair and a
crash in one behaviour. In `budget` two leases of amounts up to 2 exceed the cap of 3
together and not alone, and with two children one can be drained while the other is not.

The runs may stop (all calls made, every process ended), so deadlock is not an error in
any of them; that nothing is stuck is what the liveness properties say.

## Fairness

- `WriterLease`: weak fairness of each process's own calls, since they are synchronous code. Starting and stopping have none.
- `CommandQueue`: weak fairness of the drain loop and of each runner. Every wait inside a run has a deadline in the code (harness silence, reaping, the drain of a family).
- `DeferredMessages`: weak fairness of each flight (validation and staging end) and of the last step of the predecessor's runner. Calls, Stop and settlements have none.
- `Durability`: weak fairness of a synchronous section and of a started pass; strong fairness of starting a pass that reads all its messages (a timer every 200 ms), of reading a report, an exit and of the restart, which other turns of the main thread can disable for a while but not for ever, because the event loop serves its ports and timers in turn. A crash or power loss has none, and clients need not write again.
- `BlobOwners`: weak fairness of an open section, of a woken flight, of starting a pass and of the redo after a start: each is synchronous code or a timer that nothing disables. Strong fairness of reading a report and of the two steps of the sweep, which requests disable for their own duration: the event loop takes a queued event in its turn. No request is promised.
- `RunTerminal`: weak fairness of the program's own steps, of the barrier (30 s for children, a reap deadline for the scope) and of the supervisor's restart. A strategy need not return, and no event, audit or abort is promised.
- `FamilyBudget`: none; it states no liveness.

## Mutants

Next to a definition stands what a plausible slip would make of it (named in the
comment "Mutant"); replacing the definition by it violates the property the mutant is
listed for: a dropped recheck after an await, a fence that is not saved, a generation
taken before the registrations, a data version read after the barrier. A property
without such a mutant is not kept.

## Proofs

Every safety and action property that a passing run checks is also a theorem, for every
value of the constants that satisfies the named assumptions: any number of processes,
calls, uploads, directories and mishaps. Each proof module has an inductive invariant
`IInv` (or a named counterpart), which TLC checked on an instance before it was proved, lemmas on
the operators the model is built from, one lemma per action or family of actions, and at
the end the theorems. The two exceptions to "as checked" are named under
`CommandQueueProofs`.

### WriterLeaseProofs

For any set of claimants, any number of crashes, any
set of legacy owners and blind observations, from the assumptions that the values
`Absent` and `Ownerless` are not claimants, differ, and that the bound is a natural number:

- `WriterLeaseSafety`: `TypeOK`, `MutualExclusion` and `HolderKeepsLease`;
- `QuarantineSafety`: `QuarantineOnlyDead` and `ContendedMeansReplaced`;
- `OrphanSafety`: the action property `OrphanIsNeverTaken`.

Mutual exclusion is not inductive: a claimant may rename the path long after it
judged the owner, and a state in which that path already names a running daemon would satisfy
every listed property and lead to two holders. The invariant `IInv` rules it out by
four facts about contenders. `SeenIsOwner`: whoever is past the confirmation has seen
a dead process. `RenameIsFenced`: as long as it can rename, the seen owner is either
still at the path or at its tombstone, in which case the rename fails.
`OneGeneration`: it is never at both. `DirectoryInUse`: an ownerless directory has at most one process
working on it. `TwoAttempts` bounds the loop, for `TypeOK`. The step lemmas are one
per action; steps that touch only the claimant's own variables share `OwnStep`,
`RetryStep` and `LeaveStep`. `TypeOK`, `HolderKeepsLease` and `ContendedMeansReplaced`
are proved for every instance and therefore not run.

### CommandQueueProofs

For any finite set of calls, any keys, threads, families, caps, write failures and restarts,
with or without crashes, stops and cancels. Assumed: `None` is no call and no outcome
(`CallAssumption`, `NoVerdictAssumption`: it is the absence of a row value), a retry is the same
request and a child has no children (`LineageAssumption`), and the caps are positive.

`IInv` is `TypeOK` with five parts, each about two places where the daemon keeps the same fact.
`QueueInv`: the queue holds a job once, and only jobs that wait. `RunnerInv`: a slot is held
exactly while `runJob` is somewhere, and where it is decides what row, run identity and terminal
may be. `TerminalInv`: a job with a stored terminal has that outcome and is past its run.
`FamilyInv`: parents register only while their run is alive and admit children only before their
barrier. `DrainInv`: unless its parent's drain timed out, a child that waits or works is in one of
the sets the barrier waits for. None of the listed properties is inductive alone. For
example, `FamilyDrained` is lost in a state where a queued child is missing from `pending`.

- `DurableTerminalWins`, `FamilyIsDrained`, `RunnerStartsOnce` (an action property), `CapsHold`:
  with any number of failing writes.
- `AcceptanceIsExactlyOnce`: retries of one key make one job, with any number of failing
  writes; and the accepted rows without an owner (`Lost`: queued and not in the queue, or running without a
  runner) are at most as many as the writes that failed, so that none is lost before the first. More is
  not true: a row whose start could not be written keeps its slot with no runner (run
  `store_stop`). `AcceptedExactlyOnce` is the case of no failed write, and the run that checks it has none.
- `CompletionReadmits`: while no write has failed; run `prune_fault` shows why not after that.

The caps are about cardinalities of sets, and the removal of cancelled jobs from the queue is
written with `Place` and `Without`: the k-th job kept is the one with k-1 kept before it. Their lemmas
(what a removal leaves, and that it keeps the order and adds nothing) follow from the library's theorems on
finite sets.

### DeferredMessagesProofs

For any finite set of calls, any keys, failed writes and restarts. Assumed: `None` is no call and no
reason of a hold (`NoReasonAssumption`: a draft without a hold has none of the reasons of
`DeferredMessageHold`), and calls with one key ask for the same action.

One evaluation is a loop over awaits whose turns differ in where they start. `Landed` says in one
formula what a turn makes of its draft; a lemma per caller shows that the caller does that, and
the invariant and the action properties follow from `Landed`. `IInv`: a draft is named after the create
call its key binds (`DraftInv`); a flight past its first await has seen the end and the
clean custody of its predecessor (`FlightInv`); what keeps a fenced draft from being sent is its hold, the fence
in memory, or the restart after which no scope is reported as settled (`FenceInv`); there is one
reservation or one claim (`SoleInv`). Without `FenceInv` a restart would lose the fence that memory held.

- `OneSuccessor`: `OneContinuation`. `SentAsValidated`, `FenceHolds`, `HoldsAreKept`: the action
  properties `DecidedAsValidated`, `FencedIsNeverSent`, `HeldStaysHeld`.

### DurabilityProofs

For any finite sets of callers, obligations and directories, and any number of worker deaths,
crashes, power losses, failing effects and failing clears. `ObAssumption` says that callers,
obligations and `None` differ, that `None` is neither a directory nor a generation, and that
the sets are finite: a process has finitely many of each.

`WalInv` orders the states a power loss can leave: a later one holds every write of an earlier one.
`CoverInv` says what a report stands for once the worker is about to post it: every waiter
of its generation or an earlier one has its write in the durable state. `OrderInv` (generations grow along the
outstanding commands and the port) and `Owed` (an entry is on the disk, or a registration no
larger than the tracked generation still has to be carried out by this worker or the next) follow a registration from
its generation to the sync. `ForgottenIsDurable` alone is not inductive: what makes the clearing
transaction safe is `Owed` for the generation the report covers, and a restarted worker gets the commands that were outstanding.

- `ForgottenObligationsAreDurable`, `DeletionsFollowDecisions`: the two safety properties.
- `FlushedKeepsItsPromise`: `Spec => Promise!Spec`, the refinement. Initial states map to initial states, and
  each step to one of the six steps of `FlushedWrites` or to a stutter, under the mapping the run
  uses.

`Picked` and `Place` say which commands stay outstanding after a report or a death of the worker, in their order; that
they enumerate a finite set without gaps is shown with the library's least element of a
well-founded order.

### FlushedWritesProofs

`AnswersSurvive`: in every behaviour of `FlushedWrites`, an answered write is durable and
stays so. `DurabilityProofs` takes it through the refinement: `AnsweredWritesSurvive` says it of the store,
in every instance of `Durability` and through power losses.

### BlobOwnersProofs

For any finite sets of uploads, holders and bodies of the digest, any derivations among holders, any
number of crashes and power losses. `KeyAssumption` says that the blob's key is no upload, that
imports are uploads, and the types of the bounds.

- `PublicationIsKept`: `PublicationSurvives`. What makes it true lies in the past: the obligation was cleared under
  a generation that covers the link. `SectionInv` says, for the open section, that its generation is
  still to be synced and the blob's directory is registered (`Secure`), or is being synced and no
  state a power loss may leave can do without (`Settled`); `MatInv` says the same of every materialized
  obligation; `PublishedInv` keeps `Settled` once some state has no obligation any more. A redo after a
  crash goes the same way, so the theorem holds through crashes and recovery.
- `OnlyUnneededUnlinked`: the action property `UnlinkedIsUnneeded`. `CustodyInv` says what an age stands for: if the last
  change of a key, or the barrier its flight waits for, is covered by a pass, no state a power loss may
  leave has other owners than the current one, unless the owners moved meanwhile (`moved`, which the
  re-check after the barrier reads). A part that is cleaned at once, without a barrier, is published without an
  obligation, and `PublishedInv` gives what the barrier would have. All other steps of a live process
  unlink nothing (`OthersUnlinkNothing`).
- `OwnersBytesAreKept`: `OwnersKeepBytesInOneLife`, from `LifeInv`: while no process has gone down, whoever
  needs the bytes now, or will once an obligation is cleared, has the blob certain or its directory
  registered. After a restart this is false (see below), which is why the property says so.

Most steps are `Calm`: they commit at most one state that takes no upload back, and leave the blob's
chances. What calm steps keep is proved once (`CalmKeeps`, `CalmStep`, `StepKeeps`); the
exceptions are the unlink of the blob, the start of a pass, and going down.

### RunTerminalProofs

For any bounds on events, audits and mishaps, ordinary runs and Delegate parents. `NoneAssumption`
says that the absence of a terminal is no verdict, no decision and no record of one.

The order of the file is a property of neighbours; an append needs it of any two lines
(`SortedInv`), and who may append is `AuthorityInv`: a net that can still commit has a live log and
nothing stored; after the store has decided, a registered log refuses everybody; before it, the live log numbers past
every line. `StageInv` says that while a terminal is staged the file has grown exactly when the log's
number has, so that the rollback of a refused commit cuts off nobody's line. `VerdictInv` and
`KeptInv` follow a decision not to cancel through the net.

- `LogIsWellFormed`: `WellFormedLog`. `NoLineIsTakenBack`: the action property `LogOnlyGrows`.
- `KeptDecisionStands`: the action property `LateAbortLoses`.

### FamilyBudgetProofs

For any finite set of children and of leases (a run makes finitely many attempts), any cap
(or none), any bound on amounts, from `TaskAssumption` (the parent, the children and `None`
differ) and `AmountAssumption` (the cap and the bounds are natural numbers, the sets are finite):

- `TypesAreCorrect`: `TypeOK`; in particular no remainder falls below zero.
- `CapIsKept`: `WithinCap`. Inductive with the types and `OneUnknownPaid`: a reservation fits what is
  left, every later step moves money between a hold and cash, and what exceeds a lease's own hold is counted in
  `excess`. It is a statement about a sum over the leases. The sum is the fold of
  the community modules, and its laws (it exists, grows in each summand, and changes by the change of one) are proved
  by the smallest subset on which they would be wrong, which the library's theorems on finite sets give.
- `AtMostOneUnknownPaid`: `OneUnknownPaid`. It is inductive with the types: a new unknown
  price needs an empty slot, a repriced lease at most its own, and every end of a lease
  clears its entries.
- `UnknownDebtIsKept`: the action property `DebtIsKept`, from the types alone: only an end of
  a lease, or a zero route before dispatch, takes a lease out of `unknown`.
- `SilenceAfterBarrier`: `ChildrenAreSilent`. It is not inductive: after the barrier a child that is
  still attached with a live view could reserve. The strengthening says that an open lease
  of a child belongs to an attached child with a live view (`OpenLeasesAreScoped`) and what
  the barrier has reached in each state of the parent (`BarrierHolds`): drained means that
  nobody is pending or attached and nobody can attach; timed out means that every attached
  child is released or late; gone means that nobody is left.

### Checked only by TLC

The liveness properties (`StaleIsTakenOver`, `AcceptedSettles`, `WaitingIsDecided`, `FlushIsAnswered`,
`MaterializedIsCleared`, `UnownedIsCollected`, `TerminalReachesLog`): fairness and ENABLED are out
of the prover's reach. The two disagreements below are counterexamples, which TLC finds.

## Disagreements between code and comments

- `store_stop`: `runJob` writes the start of a job before its `try`. If that write
  fails the job stays in `activeJobs` for good, and a stop for store recovery is
  refused, although the comment at `packages/daemon/src/server.ts:181` says that it may proceed once every
  runner has exited.
- `prune_fault`: the `finally` of `runJob` prunes before it drains. If the retention
  write fails the drain is skipped, and an admissible job waits for another
  completion or request; the comment at `packages/daemon/src/server.ts:457` says that completion retries admission.

Weaknesses met while modelling, which no run reports, because the documents that speak
of them are general or say nothing:

- After a crash, nobody registers the blobs directory again. A body file whose entry was
  never synced is found by the next process, whose barrier makes its row durable without it:
  a power loss can then leave the row without the bytes. `OwnersKeepBytes` fails across
  restarts, and the checked property is the one within the life of a process
  (`OwnersKeepBytesInOneLife`).
- After a start whose repair of a terminal failed, an audit is numbered after the last line of the
  file, which is the number of the missing terminal. Later repairs then find a conflict for
  good. The failure is disclosed each time, as `TerminalReachesLog` asks.
- If a refused commit follows an abort that came during the barrier, an ordinary run that
  had returned becomes cancelled. `LateAbortLoses` names this exception.
- A cancel whose write fails leaves the job of a child queued; `drain` records it later
  without returning its pending admission, and the parent's barrier ends by its timeout.
- A pending admission may still attach between that timeout and the release of the parent: its
  spend is not fenced until then. `ChildrenAreSilent` names these children (`late`).

## What is not modelled

- Components with status `not_modelled` in `PROJECT.json`, with the reason beside each:
  open steps of the plan, data shapes, or sequences of external commands (git,
  harness CLIs) whose effect lies outside the program.
- In `CommandQueue`: time limits (their abort is that of a cancel), reads, the socket, money (it is
  in `FamilyBudget`, without the queue), partitions.
- In `DeferredMessages`: message bodies and attachments, chains of successors, and the
  turn of the microtask queue between the last look of a flight and its removal.
- In `Durability`: the orderly stop, checkpoints, the contents of files.
- In `BlobOwners`: several digests (their files share nothing but directories), bodies small enough to be
  stored inline, failing unlinks, the synchronous discard after a model publication, and the
  order between candidates of a sweep.
- In `RunTerminal`: the contents of artifacts, the bytes a power loss takes from a file (see
  `Durability`), the global journal of events and its cursors.
- In `FamilyBudget`: quota routing, valuations, per-task totals, prompt-loop evidence.
- The repository holds a quarter of a million lines, most of them surfaces, adapters of
  harnesses, schemas, scripts and tests; the models cover the state machines at the core of the
  daemon and a small share of all lines.
- Hazards without a property are listed in `PROJECT.json` with a note.
