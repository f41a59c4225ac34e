---------------------------- MODULE CommandQueue -----------------------------
(***************************************************************************)
(* The daemon's command path: acceptance (enqueue-command.ts), the single  *)
(* queue with its admission limits (job-admission.ts), the runner of each  *)
(* job (server.ts, job-settlement.ts), the durable command rows            *)
(* (store/commands.ts), the Delegate families (orchestrator's              *)
(* delegationBudgetAuthority.ts), cancellation, stop, crash and restart.   *)
(*                                                                         *)
(* The daemon is one JavaScript thread: an action is the code between two  *)
(* awaits.  draining is TRUE inside the synchronous loop of drain(), whose *)
(* iterations are separate transactions that a crash can separate; nothing *)
(* but the loop and a crash can happen while it is TRUE.                   *)
(*                                                                         *)
(* Simplifications.  A job is named after the enqueue call that minted its *)
(* id.  A run identity is a Boolean of its job.  The engine inside a run   *)
(* is reduced to what the daemon sees of it: it announces itself, holds a  *)
(* verdict, drains its Delegate children, commits its terminal and         *)
(* returns.  Next messages, pruning and terminal files are other modules.  *)
(***************************************************************************)
EXTENDS Naturals, Sequences, SequencesExt, FiniteSets, FiniteSetsExt

CONSTANTS
    Call,          \* enqueue calls; an accepted call names its job
    Key,           \* idempotency keys
    Thread,        \* conversation threads
    None,          \* "no such value"
    KeyOf,         \* [Call -> Key]: calls with one key are retries of one request
    ThreadOf,      \* [Call -> Thread \cup {None}]
    ClassOf,       \* [Call -> {"model", "non_model"}]
    ParentOf,      \* [Call -> Call \cup {None}]: the Delegate parent of a child
    Cap,           \* max_concurrent
    ClassCap,      \* [Class -> Nat]: the cap of each admission class
    MaxChildren,   \* MAX_DELEGATED_CHILDREN
    MaxRestarts,   \* bound: daemon starts after the first
    MaxFaults,     \* bound: SQL writes that fail
    MayCrash, MayStop, MayCancel   \* which disturbances a model includes

Class == {"model", "non_model"}

ASSUME CallAssumption == None \notin Call /\ IsFiniteSet(Call)
ASSUME RequestAssumption ==
    /\ KeyOf \in [Call -> Key]
    /\ ThreadOf \in [Call -> Thread \cup {None}]
    /\ ClassOf \in [Call -> Class]
    /\ ParentOf \in [Call -> Call \cup {None}]
\* A retry is the same request; a child cannot enable Delegate itself.
ASSUME LineageAssumption ==
    /\ \A c, d \in Call : KeyOf[c] = KeyOf[d] =>
         ThreadOf[c] = ThreadOf[d] /\ ClassOf[c] = ClassOf[d]
           /\ ParentOf[c] = ParentOf[d]
    /\ \A c \in Call : ParentOf[c] # None =>
         ParentOf[ParentOf[c]] = None /\ ClassOf[ParentOf[c]] = "non_model"
ASSUME CapAssumption == Cap \in Nat \ {0} /\ ClassCap \in [Class -> Nat \ {0}]
ASSUME BoundAssumption ==
    MaxChildren \in Nat /\ MaxRestarts \in Nat /\ MaxFaults \in Nat
ASSUME ToggleAssumption == {MayCrash, MayStop, MayCancel} \subseteq BOOLEAN

VARIABLES
    \* durable rows
    state,       \* command.state of each job, "none" before acceptance
    runId,       \* the jobs whose row carries a run identity
    terminal,    \* run_terminal: the lifecycle of the durable terminal
    \* one daemon process
    mode,        \* "up", "stop" or "storeStop" while draining, "refused", "down"
    draining,    \* inside the loop of drain()
    calls,       \* progress of each enqueue call
    queue,       \* DaemonServer.queue
    active,      \* DaemonServer.activeJobs
    cancelled,   \* DaemonServer.cancelled
    aborted,     \* jobs whose AbortController fired
    phase,       \* where the runJob of each job is
    verdict,     \* the lifecycle the engine holds, then the settling patch
    registered,  \* DelegationBudgetAuthority.parents
    accepting,   \* those whose family still admits children
    pending,     \* children admitted but not attached to their parent's ledger
    attached,    \* children attached to their parent's ledger
    failures,    \* jobs whose runJob promise rejected (taskFailures)
    \* bookkeeping
    started,     \* jobs whose runner was ever called
    timedOut,    \* parents whose child drain timed out
    restarts, faults

durable  == <<state, runId, terminal>>
families == <<registered, accepting, pending, attached>>
bounds   == <<restarts, faults>>
vars == <<state, runId, terminal, mode, draining, calls, queue, active,
          cancelled, aborted, phase, verdict, registered, accepting, pending,
          attached, failures, started, timedOut, restarts, faults>>

Verdicts == {"succeeded", "failed", "cancelled", "interrupted"}
ASSUME NoVerdictAssumption == None \notin Verdicts
States == {"none", "queued", "running"} \cup Verdicts
Phases == {"none", "run", "barrier", "drain", "staged", "persisted", "returned",
           "leaked"}

Delegated(j) == ParentOf[j] # None
Children(p) == {c \in Call : ParentOf[c] = p}
Accepted(j) == state[j] # "none"

Init ==
    /\ state = [c \in Call |-> "none"]
    /\ runId = {}
    /\ terminal = [c \in Call |-> None]
    /\ mode = "up"
    /\ draining = FALSE
    /\ calls = [c \in Call |-> "idle"]
    /\ queue = <<>>
    /\ active = {} /\ cancelled = {} /\ aborted = {}
    /\ phase = [c \in Call |-> "none"]
    /\ verdict = [c \in Call |-> None]
    /\ registered = {} /\ accepting = {} /\ pending = {} /\ attached = {}
    /\ failures = {} /\ started = {} /\ timedOut = {}
    /\ restarts = 0 /\ faults = 0

Stopping == mode \in {"stop", "storeStop", "refused"}

\* A turn of the daemon's thread: the process lives and drain() is not running.
Turn == mode # "down" /\ ~draining

\* A SQL write may fail; each failure is one of MaxFaults.
Fault == faults < MaxFaults /\ faults' = faults + 1

\* Mutants: the terminal is taken before it exists.
WinnerUnchecked(j, patch) == terminal[j]

\* nextRecord: a durable terminal wins over the patch.
Winner(j, patch) == IF terminal[j] # None THEN terminal[j] ELSE patch

\* Mutant: stopping is not looked at.
CallDrainAlways == draining' = TRUE

CallDrain == draining' = (mode = "up")

(***************************************************************************)
(* Acceptance.  planEnqueue: replay first, then Stop, then lineage; the    *)
(* call then stages its bodies (an await) and plans everything again in    *)
(* the turn that accepts.                                                  *)
(***************************************************************************)
Replayed(c) == \E j \in Call : Accepted(j) /\ KeyOf[j] = KeyOf[c]

AcceptedChildren(p) == {j \in Children(p) : Accepted(j)}

\* Mutant: a parent that closes its family still admits.
CanAdmitChildLate(c) ==
    LET p == ParentOf[c]
    IN  /\ p \in registered /\ p \in runId /\ state[p] = "running"
        /\ Cardinality(AcceptedChildren(p)) < MaxChildren

\* admitDelegatedRequest and DelegationBudgetAuthority.assertCanAdmitChild
CanAdmitChild(c) ==
    LET p == ParentOf[c]
    IN  /\ p \in runId /\ state[p] = "running"
        /\ p \in accepting
        /\ Cardinality(AcceptedChildren(p)) < MaxChildren

Plan(c) ==
    IF Replayed(c) THEN "replay"
    ELSE IF Stopping \/ (Delegated(c) /\ ~CanAdmitChild(c)) THEN "refused" ELSE "admit"

Enqueue(c) ==
    /\ Turn
    /\ calls[c] = "idle"
    /\ calls' = [calls EXCEPT ![c] = IF Plan(c) = "admit" THEN "staging" ELSE Plan(c)]
    /\ UNCHANGED <<durable, mode, draining, queue, active, cancelled, aborted,
                   phase, verdict, families, failures, started, timedOut, bounds>>

CommitAs(c, plan) ==
    /\ Turn
    /\ calls[c] = "staging"
    /\ calls' = [calls EXCEPT ![c] = plan]
    /\ IF plan = "admit"
         THEN /\ state' = [state EXCEPT ![c] = "queued"]
              /\ pending' = IF Delegated(c) THEN pending \cup {c} ELSE pending
              /\ queue' = Append(queue, c)
              /\ CallDrain
         ELSE UNCHANGED <<state, pending, queue, draining>>
    /\ UNCHANGED <<runId, terminal, mode, active, cancelled, aborted, phase, verdict,
                   registered, accepting, attached, failures, started, timedOut, bounds>>

\* Mutant: the plan made before staging is used.
CommitStale(c) == CommitAs(c, "admit")

\* enqueueCommand after staging: accept, noteChildAccepted, publishQueued.
Commit(c) == CommitAs(c, Plan(c))

(***************************************************************************)
(* Admission.  A Delegate child passes the caps while no other child is    *)
(* active; the thread of a job is never shared.                            *)
(***************************************************************************)
\* Mutant: the Delegate overflow also passes its thread.
ThreadBusyForOrdinary(j) ==
    /\ ~Delegated(j) /\ ThreadOf[j] # None
    /\ \E a \in active : ThreadOf[a] = ThreadOf[j]

ThreadBusy(j) ==
    ThreadOf[j] # None /\ \E a \in active : ThreadOf[a] = ThreadOf[j]

\* Mutant: only the global cap counts.
CapReachedGlobally(j) == Cardinality(active) >= Cap

CapReached(j) ==
    \/ Cardinality(active) >= Cap
    \/ Cardinality({a \in active : ClassOf[a] = ClassOf[j]}) >= ClassCap[ClassOf[j]]

\* Mutant: every child overflows.
OverflowAlways(j) == Delegated(j)

Overflow(j) == Delegated(j) /\ \A a \in active : ~Delegated(a)

Eligible(j) == ~ThreadBusy(j) /\ (Overflow(j) \/ ~CapReached(j))

\* Mutant: the head of the queue blocks what is behind it.
PickedHead(i) == i = 1 /\ Eligible(queue[1])

\* eligibleJobIndex: the first eligible child, else the first eligible job.
Picked(i) ==
    LET kind == IF \E k \in DOMAIN queue : Delegated(queue[k]) /\ Eligible(queue[k])
                  THEN {k \in DOMAIN queue : Delegated(queue[k])}
                  ELSE DOMAIN queue
    IN  /\ i \in kind /\ Eligible(queue[i])
        /\ \A k \in kind : k < i => ~Eligible(queue[k])

DrainEnds ==
    /\ draining
    /\ ~\E i \in DOMAIN queue : Picked(i)
    /\ draining' = FALSE
    /\ UNCHANGED <<durable, mode, calls, queue, active, cancelled, aborted, phase,
                   verdict, families, failures, started, timedOut, bounds>>

\* One iteration: the job leaves the queue; a cancelled one is only recorded,
\* any other becomes active and its runner is called.
DrainNextSkipping(skipped) ==
    /\ draining
    /\ \E i \in DOMAIN queue :
         LET j == queue[i]
         IN  /\ Picked(i)
             /\ queue' = RemoveAt(queue, i)
             /\ IF j \in skipped
                  THEN /\ state' = [state EXCEPT ![j] = Winner(j, "cancelled")]
                       /\ UNCHANGED <<active, phase, started>>
                  ELSE /\ active' = active \cup {j}
                       /\ state' = [state EXCEPT ![j] = Winner(j, "running")]
                       /\ phase' = [phase EXCEPT ![j] = "run"]
                       /\ started' = started \cup {j}
    /\ UNCHANGED <<runId, terminal, mode, draining, calls, cancelled, aborted,
                   verdict, families, failures, timedOut, bounds>>

\* Mutant: the mark of a cancel is not looked at.
DrainNextUnchecked == DrainNextSkipping({})

DrainNext == DrainNextSkipping(cancelled)

\* The write of that iteration fails.  For a cancelled job the error leaves
\* drain() and rejects the runJob that called it, if one did; for any other it
\* rejects the new runJob before its try block, so that nothing removes the job
\* from activeJobs again.
DrainFails ==
    /\ draining /\ Fault
    /\ \E i \in DOMAIN queue :
         LET j == queue[i]
         IN  /\ Picked(i)
             /\ queue' = RemoveAt(queue, i)
             /\ IF j \in cancelled
                  THEN /\ draining' = FALSE
                       /\ failures' \in {failures, failures \cup {j}}
                       /\ UNCHANGED <<active, phase>>
                  ELSE /\ active' = active \cup {j}
                       /\ phase' = [phase EXCEPT ![j] = "leaked"]
                       /\ failures' = failures \cup {j}
                       /\ UNCHANGED draining
    /\ UNCHANGED <<durable, mode, calls, cancelled, aborted, verdict, families,
                   started, timedOut, restarts>>

(***************************************************************************)
(* The engine inside a run, as the daemon sees it.                         *)
(***************************************************************************)
Running(j) == Turn /\ phase[j] = "run"

AbortVerdict(j) == IF j \in aborted THEN "cancelled" ELSE "failed"

\* attachChild: a child takes a view of its parent's ledger before it starts.
Attach(j) ==
    /\ Running(j) /\ j \in pending /\ ParentOf[j] \in registered
    /\ pending' = pending \ {j}
    /\ attached' = attached \cup {j}
    /\ UNCHANGED <<durable, mode, draining, calls, queue, active, cancelled, aborted,
                   phase, verdict, registered, accepting, failures, started, timedOut,
                   bounds>>

\* onRunStart: the run identity reaches the row.  Model operations have none.
Announce(j) ==
    /\ Running(j) /\ j \notin runId
    /\ ClassOf[j] = "non_model" /\ (Delegated(j) => j \in attached)
    /\ runId' = runId \cup {j}
    /\ UNCHANGED <<state, terminal, mode, draining, calls, queue, active, cancelled,
                   aborted, phase, verdict, families, failures, started, timedOut,
                   bounds>>

\* activateDelegationParent, when a route can carry Delegate
Activate(j) ==
    /\ Running(j) /\ j \in runId /\ Children(j) # {} /\ j \notin registered
    /\ registered' = registered \cup {j}
    /\ accepting' = accepting \cup {j}
    /\ UNCHANGED <<durable, mode, draining, calls, queue, active, cancelled, aborted,
                   phase, verdict, pending, attached, failures, started, timedOut,
                   bounds>>

\* The strategy ends and its terminal is held for the barrier.
Hold(j) ==
    /\ Running(j) /\ j \in runId
    /\ \E v \in IF j \in aborted THEN {"cancelled"} ELSE {"succeeded", "failed"} :
         verdict' = [verdict EXCEPT ![j] = v]
    /\ phase' = [phase EXCEPT ![j] = "barrier"]
    /\ UNCHANGED <<durable, mode, draining, calls, queue, active, cancelled, aborted,
                   families, failures, started, timedOut, bounds>>

\* The splice of each job of gone: the others keep their order.
Place(kept, i) == Cardinality({k \in kept : k <= i})

Without(s, gone) ==
    LET kept == {i \in DOMAIN s : s[i] \notin gone}
    IN  [n \in 1..Cardinality(kept) |-> s[CHOOSE i \in kept : Place(kept, i) = n]]

(***************************************************************************)
(* cancelJob, for a set of jobs with a record: a queued one is recorded    *)
(* and leaves the queue, a run stops admitting children, a running one is  *)
(* signalled.                                                              *)
(***************************************************************************)
CancelJobs(jobs) ==
    LET waiting == {j \in jobs : state[j] = "queued"}
    IN  /\ cancelled' = cancelled \cup jobs
        /\ state' = [j \in Call |-> IF j \in waiting THEN Winner(j, "cancelled") ELSE state[j]]
        /\ queue' = Without(queue, waiting)
        /\ pending' = pending \ waiting
        /\ aborted' = aborted \cup (jobs \cap active)

Cancel(j) ==
    /\ MayCancel /\ Turn /\ Accepted(j) /\ j \notin cancelled
    /\ CancelJobs({j})
    /\ accepting' = IF j \in runId THEN accepting \ {j} ELSE accepting
    /\ UNCHANGED <<runId, terminal, mode, draining, calls, active, phase, verdict,
                   registered, attached, failures, started, timedOut, bounds>>

\* The record of a queued job cannot be written: the cancel throws, but the
\* mark stays and drain() honours it.
CancelFails(j) ==
    /\ MayCancel /\ Turn /\ state[j] = "queued" /\ j \notin cancelled /\ Fault
    /\ cancelled' = cancelled \cup {j}
    /\ UNCHANGED <<durable, mode, draining, calls, queue, active, aborted, phase, verdict,
                   families, failures, started, timedOut, restarts>>

\* claudexor.delegationFence: a running parent stops admitting children.
Fence(j) ==
    /\ MayCancel /\ Turn /\ j \in runId \cap accepting /\ state[j] = "running"
    /\ accepting' = accepting \ {j}
    /\ UNCHANGED <<durable, mode, draining, calls, queue, active, cancelled, aborted,
                   phase, verdict, registered, pending, attached, failures, started,
                   timedOut, bounds>>

(***************************************************************************)
(* The barrier before a terminal: a Delegate parent closes its family,     *)
(* cancels every child that is admitted or attached, and waits.            *)
(***************************************************************************)
Family(p) == Children(p) \cap (pending \cup attached)

CloseFamily(j) ==
    /\ Turn /\ phase[j] = "barrier" /\ j \in registered
    /\ CancelJobs(Family(j))
    /\ accepting' = accepting \ {j}
    /\ phase' = [phase EXCEPT ![j] = "drain"]
    /\ UNCHANGED <<runId, terminal, mode, draining, calls, active, verdict, registered,
                   attached, failures, started, timedOut, bounds>>

\* A cancel that came while the children drained wins for a parent, and what
\* they spent may fail it; for any other run the held verdict stands, unless
\* the strategy had thrown.
BarrierDone(j) ==
    /\ Turn
    /\ \/ phase[j] = "barrier" /\ j \notin registered
       \/ phase[j] = "drain" /\ Family(j) = {}
    /\ phase' = [phase EXCEPT ![j] = "staged"]
    /\ \E v \in IF j \in registered
                 THEN IF j \in aborted THEN {"cancelled"} ELSE {verdict[j], "failed"}
                 ELSE IF j \in aborted /\ verdict[j] = "failed"
                        THEN {"failed", "cancelled"} ELSE {verdict[j]} :
         verdict' = [verdict EXCEPT ![j] = v]
    /\ UNCHANGED <<durable, mode, draining, calls, queue, active, cancelled, aborted,
                   families, failures, started, timedOut, bounds>>

\* waitForChildren times out: the run fails, its terminal does not wait.
DrainTimeout(j) ==
    /\ Turn /\ phase[j] = "drain" /\ Family(j) # {}
    /\ phase' = [phase EXCEPT ![j] = "staged"]
    /\ verdict' = [verdict EXCEPT ![j] = AbortVerdict(j)]
    /\ timedOut' = timedOut \cup {j}
    /\ UNCHANGED <<durable, mode, draining, calls, queue, active, cancelled, aborted,
                   families, failures, started, bounds>>

PersistRow(j, newState) ==
    /\ Turn /\ phase[j] = "staged" /\ terminal[j] = None
    /\ terminal' = [terminal EXCEPT ![j] = verdict[j]]
    /\ state' = newState
    /\ phase' = [phase EXCEPT ![j] = "persisted"]
    /\ UNCHANGED <<runId, mode, draining, calls, queue, active, cancelled, aborted,
                   verdict, families, failures, started, timedOut, bounds>>

\* Mutant: the row is left to the settling write.
PersistTerminalOnly(j) == PersistRow(j, state)

\* SqlCommandStore.persistTerminal: the row and the durable terminal in one
\* transaction; a second terminal of the run violates its primary key.
Persist(j) == PersistRow(j, [state EXCEPT ![j] = verdict[j]])

\* The transaction fails: the engine rolls back and emits a failed terminal.
PersistFails(j) ==
    /\ Turn /\ phase[j] = "staged" /\ Fault
    /\ verdict' = [verdict EXCEPT ![j] = AbortVerdict(j)]
    /\ UNCHANGED <<durable, mode, draining, calls, queue, active, cancelled, aborted,
                   phase, families, failures, started, timedOut, restarts>>

(***************************************************************************)
(* The end of a runner.                                                    *)
(***************************************************************************)
\* DelegationBudgetAuthority.releaseRun, and cancelAcceptedChild for a child
\* that was never attached.
Release(released, j) ==
    /\ registered' = registered \ {j}
    /\ accepting' = accepting \ {j}
    /\ pending' = pending \ released
    /\ attached' = attached \ released

\* Mutant: the admission of a child that never attached is not returned.
ReleaseAttached(j) ==
    Release(IF j \in registered THEN Children(j) ELSE {j} \cap attached, j)

ReleaseRun(j) == Release({j} \cup (IF j \in registered THEN Children(j) ELSE {}), j)

\* The result is taken, the patch is fixed, its bodies are staged (an await).
\* A committed run returns its verdict.  A job without a run returns what it
\* likes, or a malformed result that counts as failed, or cancelled if aborted.
Return(j) ==
    /\ Turn
    /\ \/ /\ phase[j] = "persisted"
          /\ UNCHANGED verdict
       \/ /\ phase[j] = "run" /\ j \notin runId /\ ClassOf[j] = "model"
          /\ \E v \in {"succeeded", "failed", AbortVerdict(j)} :
               verdict' = [verdict EXCEPT ![j] = v]
    /\ ReleaseRun(j)
    /\ phase' = [phase EXCEPT ![j] = "returned"]
    /\ UNCHANGED <<durable, mode, draining, calls, queue, active, cancelled, aborted,
                   failures, started, timedOut, bounds>>

\* The finally block of runJob: the slot is free and the queue is drained.
FreeSlot(j) ==
    /\ active' = active \ {j}
    /\ aborted' = aborted \ {j}
    /\ phase' = [phase EXCEPT ![j] = "none"]
    /\ verdict' = [verdict EXCEPT ![j] = None]

Finish(j, patch) ==
    /\ state' = [state EXCEPT ![j] = Winner(j, patch)]
    /\ FreeSlot(j)
    /\ CallDrain
    /\ UNCHANGED <<runId, terminal, mode, calls, queue, cancelled, failures, started,
                   timedOut, bounds>>

Settle(j) ==
    /\ Turn /\ phase[j] = "returned"
    /\ Finish(j, verdict[j])
    /\ UNCHANGED families

\* The runner throws: before its run exists (any refusal), or after the durable
\* terminal with its files still pending ("terminal_recovery_required").
Throw(j) ==
    /\ Turn
    /\ \/ phase[j] = "run" /\ j \notin runId /\ Finish(j, AbortVerdict(j))
       \/ phase[j] = "persisted" /\ Finish(j, "interrupted")
    /\ ReleaseRun(j)

\* The settling write fails.  settleJobError writes again what it makes of the
\* error; when that fails too, runJob rejects after it freed the slot.
SettleErrorAs(j, outcome) ==
    /\ Turn /\ phase[j] = "returned" /\ Fault
    /\ FreeSlot(j)
    /\ \/ /\ state' = [state EXCEPT ![j] = outcome]
          /\ UNCHANGED failures
       \/ /\ failures' = failures \cup {j}
          /\ UNCHANGED state
    /\ CallDrain
    /\ UNCHANGED <<runId, terminal, mode, calls, queue, cancelled, families, started,
                   timedOut, restarts>>

\* Mutant: the error is recorded over the durable terminal.
SettleFailsOverwrites(j) == SettleErrorAs(j, AbortVerdict(j))

SettleFails(j) == SettleErrorAs(j, Winner(j, AbortVerdict(j)))

\* pruneHistory throws in the finally block: the call of drain() behind it is
\* skipped and runJob rejects.
PruneFails(j) ==
    /\ Turn /\ phase[j] = "returned" /\ Fault
    /\ state' = [state EXCEPT ![j] = Winner(j, verdict[j])]
    /\ FreeSlot(j)
    /\ failures' = failures \cup {j}
    /\ UNCHANGED <<runId, terminal, mode, draining, calls, queue, cancelled, families,
                   started, timedOut, restarts>>

(***************************************************************************)
(* Stop, crash, restart.                                                   *)
(***************************************************************************)
Stop ==
    /\ MayStop /\ Turn /\ mode = "up"
    /\ mode' \in {"stop", "storeStop"}
    /\ aborted' = aborted \cup active
    /\ UNCHANGED <<durable, draining, calls, queue, active, cancelled, phase, verdict,
                   families, failures, started, timedOut, bounds>>

\* What the process forgets.  A call that has no answer is lost to its client.
Forget ==
    /\ mode' = "down" /\ draining' = FALSE
    /\ calls' = [c \in Call |-> IF calls[c] = "staging" THEN "lost" ELSE calls[c]]
    /\ queue' = <<>> /\ active' = {} /\ cancelled' = {} /\ aborted' = {}
    /\ phase' = [c \in Call |-> "none"]
    /\ verdict' = [c \in Call |-> None]
    /\ registered' = {} /\ accepting' = {} /\ pending' = {} /\ attached' = {}
    /\ failures' = {}
    /\ UNCHANGED <<durable, started, timedOut, bounds>>

\* stopOnce, once every runner task settled: confirmed only if no slot is taken
\* and no task failed, where a stop for store recovery forgives the storage
\* failures (all failures of this model are).
TasksSettled == \A j \in Call : phase[j] \in {"none", "leaked"}

StopConfirmed ==
    /\ Turn /\ mode \in {"stop", "storeStop"} /\ TasksSettled
    /\ active = {} /\ (mode = "stop" => failures = {})
    /\ Forget

StopRefused ==
    /\ Turn /\ mode \in {"stop", "storeStop"} /\ TasksSettled
    /\ ~(active = {} /\ (mode = "stop" => failures = {}))
    /\ mode' = "refused"
    /\ UNCHANGED <<durable, draining, calls, queue, active, cancelled, aborted, phase,
                   verdict, families, failures, started, timedOut, bounds>>

Crash == MayCrash /\ mode # "down" /\ Forget

\* recoverAfterStartup: a job that was not observed to end is interrupted, or
\* takes its durable terminal; none is run again.
Recover(live, newQueue) ==
    /\ mode = "down" /\ restarts < MaxRestarts
    /\ mode' = "up"
    /\ restarts' = restarts + 1
    /\ state' = [j \in Call |-> IF state[j] \in live
                                 THEN Winner(j, "interrupted") ELSE state[j]]
    /\ queue' = newQueue
    /\ UNCHANGED <<runId, terminal, draining, calls, active, cancelled, aborted,
                   phase, verdict, families, failures, started, timedOut, faults>>

\* Mutants: only the running rows are recovered; unfinished work is queued again.
RestartRunning == Recover({"running"}, queue)
RestartResumes ==
    Recover({}, SetToSeq({j \in Call : state[j] \in {"queued", "running"}}))

Restart == Recover({"queued", "running"}, queue)

RunnerStep(j) ==
    \/ Attach(j) \/ Announce(j) \/ Activate(j) \/ Hold(j)
    \/ CloseFamily(j) \/ BarrierDone(j) \/ Persist(j) \/ Return(j)
    \/ Settle(j) \/ Throw(j)

FaultStep(j) == PersistFails(j) \/ SettleFails(j) \/ PruneFails(j)

Next ==
    \/ \E c \in Call : Enqueue(c) \/ Commit(c)
    \/ DrainNext \/ DrainEnds \/ DrainFails
    \/ \E j \in Call : \/ RunnerStep(j) \/ DrainTimeout(j) \/ FaultStep(j)
                       \/ Cancel(j) \/ CancelFails(j) \/ Fence(j)
    \/ Stop \/ StopConfirmed \/ StopRefused \/ Crash \/ Restart

Spec == Init /\ [][Next]_vars

-----------------------------------------------------------------------------
\* Types of the rows, the queue and the runners.
TypeOK ==
    /\ state \in [Call -> States]
    /\ runId \subseteq Call
    /\ terminal \in [Call -> Verdicts \cup {None}]
    /\ mode \in {"up", "stop", "storeStop", "refused", "down"}
    /\ draining \in BOOLEAN
    /\ calls \in [Call -> {"idle", "staging", "admit", "replay", "refused", "lost"}]
    /\ queue \in Seq(Call)
    /\ active \subseteq Call /\ cancelled \subseteq Call /\ aborted \subseteq Call
    /\ phase \in [Call -> Phases]
    /\ verdict \in [Call -> Verdicts \cup {None}]
    /\ registered \subseteq Call /\ accepting \subseteq Call
    /\ pending \subseteq Call /\ attached \subseteq Call
    /\ failures \subseteq Call /\ started \subseteq Call /\ timedOut \subseteq Call
    /\ restarts \in 0..MaxRestarts /\ faults \in 0..MaxFaults

\* A runner in progress: it may still touch the thread's tree and the accounts.
Runs(j) == phase[j] \notin {"none", "leaked"}

OneJobPerKey ==
    \A i, j \in Call : Accepted(i) /\ Accepted(j) /\ KeyOf[i] = KeyOf[j] => i = j

EveryLiveRowIsOwned ==
    mode # "down" =>
        \A j \in Call :
            /\ state[j] = "queued" => \E i \in DOMAIN queue : queue[i] = j
            /\ state[j] = "running" => Runs(j)

\* Acceptance is exactly once: the retries of one request, whenever they are sent
\* and however their staging overlaps, make one job, and no accepted job is lost,
\* since while the daemon lives a queued row waits in the queue and a running row
\* has its runner.
AcceptedExactlyOnce == OneJobPerKey /\ EveryLiveRowIsOwned

OneRunnerPerThread ==
    \A i, j \in Call :
        Runs(i) /\ Runs(j) /\ ThreadOf[i] = ThreadOf[j] /\ ThreadOf[i] # None => i = j

\* The caps hold up to the single Delegate overflow: a job beyond them means
\* one child at work and no other child with it, ordinary work alone never
\* exceeds the global or its class's cap, and no thread ever has two runners.
AdmissionCaps ==
    LET children == {j \in active : Delegated(j)}
        ordinary == active \ children
    IN  /\ Cardinality(active) <= Cap + 1
        /\ Cardinality(active) > Cap => Cardinality(children) = 1
        /\ Cardinality(ordinary) <= Cap
        /\ \A k \in Class :
             Cardinality({j \in ordinary : ClassOf[j] = k}) <= ClassCap[k]
        /\ OneRunnerPerThread

\* The durable terminal is the command's outcome, whatever abort, throw, failed
\* write or restart comes after it.
DurableVerdictWins ==
    \A j \in Call : terminal[j] # None => state[j] = terminal[j]

Starts(j) == phase[j] = "none" /\ phase'[j] # "none"

\* A runner is called at most once for a job, over all lives of the daemon; never
\* for a job that was cancelled before, even when the record of the cancel could
\* not be written and the job stayed queued; and never once stop() was called,
\* whatever completes or ends its staging then.
StartsOnce ==
    [][\A j \in Call : Starts(j) => j \notin started /\ j \notin cancelled /\ ~Stopping]_vars

\* A Delegate parent publishes its terminal only after its family is gone: no
\* child is admitted, queued or at work, unless the drain timed out.
FamilyDrained ==
    \A p \in Call : terminal[p] # None /\ p \notin timedOut =>
        \A c \in Children(p) :
            /\ c \notin pending \cup attached
            /\ state[c] # "queued"
            /\ phase[c] \in {"none", "returned", "leaked"}

\* Completion retries admission, without head-of-line blocking: between turns
\* no job waits whose thread is free and whose caps are not reached.
CompletionRetriesAdmission ==
    mode = "up" /\ ~draining => \A i \in DOMAIN queue : ~Eligible(queue[i])

\* A stop for store recovery, all of whose failures are storage failures and
\* all of whose runners have exited, is never refused.
StoreRecoveryIsNotRefused == [][mode = "storeStop" => mode' # "refused"]_vars

\* The loop of drain() and each runner go on: every wait inside a run has its
\* own deadline (harness silence, reaping, the child drain).
FairSpec ==
    /\ Spec
    /\ WF_vars(DrainNext \/ DrainEnds)
    /\ \A j \in Call : WF_vars(RunnerStep(j))

\* Every accepted job reaches an outcome: the queue neither starves a job nor
\* deadlocks a parent with its children, at the tightest caps and whatever is
\* cancelled meanwhile, unless the daemon ends or a write fails.
AcceptedSettles ==
    \A j \in Call :
        state[j] = "queued" ~> state[j] \in Verdicts \/ mode # "up" \/ faults > 0
=============================================================================
