------------------------------ MODULE RunTerminal ------------------------------
(***************************************************************************)
(* How one run ends: the net around its strategy that chooses the verdict  *)
(* (orchestrator/runTerminals.ts), the log that freezes, stages and        *)
(* commits the terminal event (event-log/index.ts), the command row and    *)
(* the terminal the store commits first (daemon/store/commands.ts), the    *)
(* repair of the run's file (store/terminal-files.ts) and the audit rows   *)
(* that the control API appends to that file at any time.                  *)
(*                                                                         *)
(* Events are their sequence number and their kind.  A synchronous section *)
(* is one action; the awaits are the places of the net ("at").  A terminal *)
(* of the file that no retry completed may leave a torn last line; other   *)
(* lines are appended whole.  The loss of unsynced bytes in a power loss   *)
(* is the subject of Durability.                                           *)
(***************************************************************************)
EXTENDS Naturals, Sequences

CONSTANTS
    None,        \* "no such value"
    MaxEvents,   \* bound: ordinary events of the run
    MaxAudits,   \* bound: audit rows
    MaxMishaps   \* bound: crashes, failing writes and failing barriers together

ASSUME BoundAssumption == {MaxEvents, MaxAudits, MaxMishaps} \subseteq Nat

VARIABLES
    \* the disk
    file,        \* the lines of events.jsonl
    torn,        \* it ends with part of the terminal's line
    sql,         \* run_terminal: the terminal [seq, verdict] or None
    ob,          \* the terminal_files obligation
    job,         \* the command row: its state and its error code
    \* the process
    up,
    log,         \* the run's EventLog
    prepared,    \* PreparedTerminal: its event and previousBytes, in lines
    net,         \* guardAnnouncedRun
    aborted,     \* the run's abort signal
    disclosed,   \* completeOpen's receipt names the obligation as failed
    \* bookkeeping
    mishaps

disk == <<file, torn, sql, ob, job>>
vars == <<disk, up, log, prepared, net, aborted, disclosed, mishaps>>

Verdict == {"succeeded", "failed", "cancelled"}

\* None is neither a verdict, nor how a strategy ended, nor a terminal.
ASSUME NoneAssumption ==
    /\ None \notin Verdict \cup {"kept", "aborted"}
    /\ None \notin [seq : Nat, verdict : Verdict]
    /\ None \notin [seq : Nat, verdict : Verdict, lines : Nat]

Line(s, k, v) == [seq |-> s, kind |-> k, verdict |-> v]
Event(s, k) == Line(s, k, None)
Terminal(t) == Line(t.seq, "terminal", t.verdict)

NoLog == [live |-> FALSE, next |-> 1, defers |-> FALSE, held |-> None,
          poisoned |-> FALSE, check |-> FALSE]
NoNet == [at |-> "gone", delegate |-> FALSE, barrier |-> "todo", ended |-> None,
          result |-> None, rescue |-> FALSE, foreign |-> FALSE]

\* The run is announced: its log is live and holds its terminal (runScope.ts).
Init ==
    /\ file = <<Event(1, "event")>> /\ torn = FALSE
    /\ sql = None /\ ob = "none" /\ job = [state |-> "running", code |-> None]
    /\ up = TRUE /\ disclosed = FALSE /\ aborted = FALSE /\ prepared = None /\ mishaps = 0
    /\ log = [NoLog EXCEPT !.live = TRUE, !.next = 2, !.defers = TRUE]
    /\ \E d \in BOOLEAN : net = [NoNet EXCEPT !.at = "strategy", !.delegate = d]

Mishap == mishaps < MaxMishaps /\ mishaps' = mishaps + 1
Count(k) == Len(SelectSeq(file, LAMBDA e : e.kind = k))

(***************************************************************************)
(* The file.                                                               *)
(***************************************************************************)
TerminalInFile == \E i \in DOMAIN file : file[i].kind = "terminal"

\* A torn last line counts by its position.
LastSeqInFile ==
    LET last == IF file = <<>> THEN 0 ELSE file[Len(file)].seq
    IN  IF torn /\ Len(file) >= last THEN Len(file) + 1 ELSE last

\* A line appended to a torn one makes one malformed line of both.
AppendLine(e) ==
    /\ file' = Append(file, IF torn THEN [e EXCEPT !.kind = "malformed"] ELSE e)
    /\ torn' = FALSE

\* normalizedTerminalEvents throws: the file contradicts the stored terminal.
Follows(i) == \E j \in 1..(i - 1) : file[j].kind = "terminal"
Conflicts(t) ==
    \E i \in DOMAIN file :
        \/ file[i].kind = "malformed"
        \/ i > 1 /\ file[i].seq <= file[i - 1].seq
        \/ file[i].kind = "terminal" /\ (file[i] # Terminal(t) \/ Follows(i))
        \/ ~Follows(i) /\ file[i] # Terminal(t) /\ file[i].seq >= t.seq
        \/ Follows(i) /\ file[i].kind = "event"

\* writeFiles: a missing terminal is appended, in the place of a torn one.
Repair(t) ==
    /\ ~Conflicts(t)
    /\ file' = IF TerminalInFile THEN file ELSE Append(file, Terminal(t))
    /\ torn' = FALSE
    /\ ob' = "materialized"

\* Mutant: the obligation is left to the repair that succeeds.
RepairFailsSilently(t) ==
    /\ IF Conflicts(t) THEN UNCHANGED mishaps ELSE Mishap
    /\ UNCHANGED <<file, torn, ob>>

\* The write fails and may leave part of the line, or the file conflicts.
RepairFails(t) ==
    /\ IF Conflicts(t) THEN UNCHANGED <<torn, mishaps>>
       ELSE Mishap /\ (UNCHANGED torn \/ (~TerminalInFile /\ torn' = TRUE))
    /\ ob' = "pending"
    /\ UNCHANGED file

(***************************************************************************)
(* The log: ordinary events and audits.                                    *)
(***************************************************************************)
Working == {"strategy", "barrier", "flush", "held", "rescue", "fallback"}

\* emit of an ordinary event by the live log.
EmitLine(k) ==
    /\ AppendLine(Event(log.next, k))
    /\ log' = [log EXCEPT !.next = @ + 1]

Progress ==
    /\ up /\ net.at \in Working /\ log.live /\ ~log.poisoned
    /\ Count("event") < MaxEvents
    /\ EmitLine("event")
    /\ UNCHANGED <<sql, ob, job, up, prepared, net, aborted, disclosed, mishaps>>

\* releaseRecoveredTerminalFence.
Released == log.poisoned /\ TerminalInFile

\* Mutant: an audit never goes through the live log.
AuditFromTail ==
    /\ up /\ Count("audit") < MaxAudits
    /\ AppendLine(Event(LastSeqInFile + 1, "audit"))
    /\ UNCHANGED <<sql, ob, job, up, log, prepared, net, aborted, disclosed, mishaps>>

\* appendRunEvent: through the live log, which refuses while it is poisoned, or
\* after the last line of the file when nobody owns it.
Audit ==
    /\ up /\ Count("audit") < MaxAudits
    /\ IF log.live /\ ~Released
       THEN ~log.poisoned /\ EmitLine("audit")
       ELSE /\ AppendLine(Event(LastSeqInFile + 1, "audit"))
            /\ log' = [log EXCEPT !.live = FALSE]
    /\ UNCHANGED <<sql, ob, job, up, prepared, net, aborted, disclosed, mishaps>>

\* The check that poisonAfterDurableCommit leaves for the next turn.
LateCheck ==
    /\ up /\ log.check
    /\ log' = [log EXCEPT !.check = FALSE, !.live = @ /\ ~TerminalInFile]
    /\ UNCHANGED <<disk, up, prepared, net, aborted, disclosed, mishaps>>

\* A host cancel or the run's deadline.
Abort ==
    /\ up /\ ~aborted /\ net.at \in Working \cup {"staging", "caught", "rescueBarrier"}
    /\ aborted' = TRUE
    /\ UNCHANGED <<disk, up, log, prepared, net, disclosed, mishaps>>

(***************************************************************************)
(* The log: the terminal.                                                  *)
(***************************************************************************)
\* Mutant: the signal is read when the terminal is prepared.
CancelledNow == aborted

\* cancellationDecided.
Cancelled == IF net.ended = None THEN aborted ELSE net.ended = "aborted"

\* The event of a prepared terminal: a decided cancellation replaces the verdict.
Prepare(v) ==
    [seq |-> log.next, verdict |-> IF Cancelled THEN "cancelled" ELSE v, lines |-> Len(file)]

\* Facts that cannot be prepared make the run a failed one.
PrepareFailure(v) == [Prepare(v) EXCEPT !.verdict = "failed"]

Truncate(lines) ==
    /\ file' = IF Len(file) > lines THEN SubSeq(file, 1, lines) ELSE file
    /\ UNCHANGED torn

\* commitTerminal: the events appended while the bytes were staged come first.
Numbered(p) == [seq |-> log.next, verdict |-> p.verdict]
\* Mutant: the rollback boundary is the one from before the staging.
BoundaryPrepared(p) == p.lines

Boundary(p) == IF p.seq # log.next THEN Len(file) ELSE p.lines

\* Mutant: the line is written before the store decides, and stays.
CommitRefusedWritten(p, place) ==
    /\ Mishap /\ sql = None
    /\ file' = Append(file, Terminal(Numbered(p))) /\ UNCHANGED torn
    /\ log' = [log EXCEPT !.next = @ + 1]
    /\ net' = [net EXCEPT !.at = place]
    /\ UNCHANGED <<sql, ob, job>>

\* persistTerminal is refused, which a second terminal of the run always is; the
\* log rolls back, and is poisoned when it cannot.
CommitRefused(p, place) ==
    /\ \E broken \in BOOLEAN :
          /\ mishaps' = mishaps + (IF sql = None THEN 1 ELSE 0) + (IF broken THEN 1 ELSE 0)
          /\ log' = [log EXCEPT !.poisoned = broken]
    /\ mishaps' <= MaxMishaps
    /\ Truncate(Boundary(p))
    /\ net' = [net EXCEPT !.at = place]
    /\ UNCHANGED <<sql, ob, job>>

\* persistTerminal commits the terminal, the command's state and the obligation,
\* and the file follows at once; the log retires.
CommitWhole(p) ==
    /\ sql = None /\ sql' = Numbered(p)
    /\ job' = [job EXCEPT !.state = p.verdict]
    /\ Repair(Numbered(p))
    /\ log' = [log EXCEPT !.live = FALSE, !.next = @ + 1]
    /\ net' = [net EXCEPT !.at = "returned"]
    /\ UNCHANGED mishaps

\* The file does not follow: the log stays registered and refuses everybody.
CommitPending(p) ==
    /\ sql = None /\ sql' = Numbered(p)
    /\ job' = [job EXCEPT !.state = p.verdict]
    /\ RepairFails(Numbered(p))
    /\ log' = [log EXCEPT !.poisoned = TRUE, !.check = TRUE]
    /\ net' = [net EXCEPT !.at = "recovery"]

Commit(p, place) ==
    /\ CommitRefused(p, place) \/ CommitWhole(p) \/ CommitPending(p)
    /\ UNCHANGED <<up, aborted, disclosed>>

\* Where an error of this commit goes: to the net, or past it.
Thrown == IF net.rescue THEN "escaped" ELSE "caught"

(***************************************************************************)
(* The net around the strategy.                                            *)
(***************************************************************************)
Hold(v) == log' = [log EXCEPT !.held = v]
Go(place) == net' = [net EXCEPT !.at = place]

\* The strategy emits its terminal, which the log holds.
StrategyHolds ==
    /\ up /\ net.at = "strategy" /\ log.held = None
    /\ \E v \in {x \in Verdict : x = "cancelled" => aborted} : Hold(v)
    /\ UNCHANGED <<disk, up, prepared, net, aborted, disclosed, mishaps>>

\* It returns, with the held verdict or without a terminal; for an ordinary run
\* the decision to cancel is frozen here.
StrategyReturns ==
    /\ up /\ net.at = "strategy"
    /\ \E v \in Verdict :
          /\ v = "cancelled" => aborted
          /\ log.held # None => v = log.held
          /\ net' = [net EXCEPT !.at = "barrier", !.result = v,
                                !.ended = IF aborted THEN "aborted" ELSE "kept"]
    /\ UNCHANGED <<disk, up, log, prepared, aborted, disclosed, mishaps>>

StrategyThrows ==
    /\ up /\ net.at = "strategy"
    /\ Go("caught")
    /\ UNCHANGED <<disk, up, log, prepared, aborted, disclosed, mishaps>>

\* A Delegate parent whose children are drained takes the signal as it is now,
\* and a family that overspent fails a success.
AfterDrain(v) ==
    IF net.delegate /\ aborted THEN v = "cancelled"
    ELSE v = net.result \/ (net.delegate /\ net.result = "succeeded" /\ v = "failed")

\* runBarrier after a return: the children are drained and the scope settled.
BarrierHolds ==
    /\ up /\ net.at = "barrier"
    /\ \E v \in Verdict :
          /\ AfterDrain(v)
          /\ IF v = net.result THEN UNCHANGED log ELSE Hold(v)
          /\ net' = [net EXCEPT !.at = "flush", !.barrier = "ok", !.result = v]
    /\ UNCHANGED <<disk, up, prepared, aborted, disclosed, mishaps>>

BarrierFails ==
    /\ up /\ net.at \in {"barrier", "held", "rescueBarrier"} /\ Mishap
    /\ net' = [net EXCEPT !.barrier = "failed",
                          !.at = IF @ = "barrier" THEN "caught" ELSE "rescue",
                          !.foreign = @ \/ net.at # "barrier",
                          !.rescue = net.at # "barrier"]
    /\ log' = IF net.at = "held" THEN [log EXCEPT !.held = None] ELSE log
    /\ UNCHANGED <<disk, up, prepared, aborted, disclosed>>

\* A Delegate parent's records cannot be reconciled after the drain.
ReconcileFails ==
    /\ up /\ net.at = "barrier" /\ net.delegate /\ Mishap
    /\ net' = [net EXCEPT !.at = "caught", !.barrier = "ok"]
    /\ log' = IF aborted THEN [log EXCEPT !.held = None] ELSE log
    /\ UNCHANGED <<disk, up, prepared, aborted, disclosed>>

\* flushContinuationTerminal: custody is settled, then the held terminal is
\* prepared and its bytes are staged off the thread.
Flush ==
    /\ up /\ net.at = "flush" /\ log.held # None
    /\ \/ prepared' = Prepare(log.held) /\ UNCHANGED mishaps
       \/ prepared' = PrepareFailure(log.held) /\ Mishap
    /\ log' = [log EXCEPT !.held = None, !.defers = FALSE]
    /\ Go("staging")
    /\ UNCHANGED <<disk, up, aborted, disclosed>>

\* Nothing is held.  Custody may fail.
FlushNothing ==
    /\ up /\ net.at = "flush" /\ log.held = None
    /\ log' = [log EXCEPT !.defers = FALSE]
    /\ \/ Go("fallback") /\ UNCHANGED mishaps
       \/ Go("caught") /\ Mishap
    /\ UNCHANGED <<disk, up, prepared, aborted, disclosed>>

\* A strategy that returned without a terminal gets one.
Fallback ==
    /\ up /\ net.at = "fallback"
    /\ prepared' = Prepare(net.result)
    /\ net' = [net EXCEPT !.at = "staging", !.rescue = TRUE]
    /\ UNCHANGED <<disk, up, log, aborted, disclosed, mishaps>>

StagedCommit ==
    /\ up /\ net.at = "staging"
    /\ Commit(prepared, Thrown)
    /\ prepared' = None

\* A verdict still held stands after an error, unless the run is aborted by now
\* or the barrier has failed or fails.
KeepsHeld == log.held # None /\ ~aborted /\ net.barrier # "failed"

CatchHeld ==
    /\ up /\ net.at = "caught" /\ KeepsHeld
    /\ net' = [net EXCEPT !.at = IF net.barrier = "ok" THEN "flush" ELSE "held",
                          !.ended = IF net.delegate THEN @ ELSE "kept",
                          !.result = log.held, !.rescue = TRUE]
    /\ UNCHANGED <<disk, up, log, prepared, aborted, disclosed, mishaps>>

HeldBarrierHolds ==
    /\ up /\ net.at = "held"
    /\ net' = [net EXCEPT !.at = "flush", !.barrier = "ok"]
    /\ UNCHANGED <<disk, up, log, prepared, aborted, disclosed, mishaps>>

CatchOther ==
    /\ up /\ net.at = "caught" /\ ~KeepsHeld
    /\ log' = [log EXCEPT !.held = None]
    /\ net' = [net EXCEPT !.at = IF net.barrier = "todo" THEN "rescueBarrier" ELSE "rescue",
                          !.rescue = TRUE]
    /\ UNCHANGED <<disk, up, prepared, aborted, disclosed, mishaps>>

RescueBarrierHolds ==
    /\ up /\ net.at = "rescueBarrier"
    /\ net' = [net EXCEPT !.at = "rescue", !.barrier = "ok"]
    /\ UNCHANGED <<disk, up, log, prepared, aborted, disclosed, mishaps>>

\* The net's own verdict: cancelled for an aborted run whose barrier did not
\* fail here, failed otherwise.
RescueVerdict == IF aborted /\ ~net.foreign THEN "cancelled" ELSE "failed"

RescueHolds ==
    /\ up /\ net.at = "rescue" /\ log.defers /\ ~log.poisoned
    /\ Hold(RescueVerdict)
    /\ net' = [net EXCEPT !.at = "flush", !.result = RescueVerdict]
    /\ UNCHANGED <<disk, up, prepared, aborted, disclosed, mishaps>>

\* After a commit was attempted the log holds nothing: this one is not staged.
RescueCommits ==
    /\ up /\ net.at = "rescue" /\ ~log.defers /\ ~log.poisoned
    /\ Commit(Prepare(RescueVerdict), "escaped")
    /\ UNCHANGED prepared

RescueRefused ==
    /\ up /\ net.at = "rescue" /\ log.poisoned
    /\ Go("escaped")
    /\ UNCHANGED <<disk, up, log, prepared, aborted, disclosed, mishaps>>

(***************************************************************************)
(* The daemon's job, and its restart.                                      *)
(***************************************************************************)
\* updateRecord: a stored terminal wins over the patch (nextRecord).
Settled(state) == IF sql = None THEN state ELSE sql.verdict

JobReturns ==
    /\ up /\ net.at = "returned"
    /\ job' = [job EXCEPT !.state = Settled(net.result)]
    /\ Go("gone")
    /\ UNCHANGED <<file, torn, sql, ob, up, log, prepared, aborted, disclosed, mishaps>>

JobThrows ==
    /\ up /\ net.at = "escaped"
    /\ job' = [job EXCEPT !.state = Settled(IF aborted THEN "cancelled" ELSE "failed")]
    /\ Go("gone")
    /\ UNCHANGED <<file, torn, sql, ob, up, log, prepared, aborted, disclosed, mishaps>>

\* Mutant: the job does not try the repair again.
JobRecoversRow ==
    /\ up /\ net.at = "recovery"
    /\ Go("gone")
    /\ UNCHANGED <<disk, up, log, prepared, aborted, disclosed, mishaps>>

\* settleJobError with terminal_recovery_required: the repair is tried again, and
\* its failure becomes the command's error.
JobRecovers ==
    /\ up /\ net.at = "recovery"
    /\ \/ Repair(sql) /\ UNCHANGED <<job, mishaps>>
       \/ RepairFails(sql) /\ job' = [job EXCEPT !.code = "terminal_recovery_required"]
    /\ Go("gone")
    /\ UNCHANGED <<sql, up, log, prepared, aborted, disclosed>>

Crash ==
    /\ up /\ Mishap
    /\ up' = FALSE
    /\ log' = NoLog /\ net' = NoNet /\ prepared' = None /\ aborted' = FALSE /\ disclosed' = FALSE
    /\ UNCHANGED disk

\* completeOpen redoes every open obligation, then the jobs that were running are
\* interrupted, and requests are served whether or not the repair succeeded.
Restart ==
    /\ ~up /\ up' = TRUE
    /\ IF ob = "none" THEN UNCHANGED <<file, torn, ob, disclosed, mishaps>>
       ELSE \/ Repair(sql) /\ UNCHANGED <<disclosed, mishaps>>
            \/ RepairFails(sql) /\ disclosed' = TRUE
    /\ job' = [job EXCEPT !.state =
                  IF @ = "running" THEN Settled("interrupted") ELSE @]
    /\ UNCHANGED <<sql, log, prepared, net, aborted>>

Recovery == LateCheck \/ JobReturns \/ JobThrows \/ JobRecovers \/ Restart
Barriers ==
    \/ BarrierHolds \/ HeldBarrierHolds \/ RescueBarrierHolds
    \/ BarrierFails \/ ReconcileFails
Ending ==
    \/ Flush \/ FlushNothing \/ Fallback \/ StagedCommit
    \/ CatchHeld \/ CatchOther \/ RescueHolds \/ RescueCommits \/ RescueRefused

Next ==
    \/ Progress \/ Audit \/ Abort
    \/ StrategyHolds \/ StrategyReturns \/ StrategyThrows
    \/ Barriers \/ Ending \/ Recovery
    \/ Crash

Spec == Init /\ [][Next]_vars

\* The program's own steps, the deadline of its barrier and the supervisor's
\* restart; a strategy need not return.
FairSpec == Spec /\ WF_vars(Recovery) /\ WF_vars(Barriers) /\ WF_vars(Ending)

(***************************************************************************)
(* Properties.                                                             *)
(***************************************************************************)
Place == Working \cup {"staging", "caught", "rescueBarrier", "returned", "escaped",
                       "recovery", "gone"}

\* Types.
TypeOK ==
    /\ \A i \in DOMAIN file :
          /\ file[i].seq \in Nat \ {0}
          /\ file[i].kind \in {"event", "audit", "terminal", "malformed"}
          /\ file[i].verdict \in (IF file[i].kind = "terminal" THEN Verdict ELSE {None})
    /\ sql # None => sql.verdict \in Verdict /\ sql.seq \in Nat
    /\ ob \in {"none", "pending", "materialized"} /\ (sql = None) = (ob = "none")
    /\ job.state \in Verdict \cup {"running", "interrupted"}
    /\ job.code \in {None, "terminal_recovery_required"}
    /\ {torn, up, aborted, disclosed, log.live, log.defers, log.poisoned, log.check,
        net.delegate, net.rescue, net.foreign} \subseteq BOOLEAN
    /\ log.held \in Verdict \cup {None} /\ log.next \in Nat
    /\ net.at \in Place /\ net.barrier \in {"todo", "ok", "failed"}
    /\ net.ended \in {None, "kept", "aborted"} /\ net.result \in Verdict \cup {None}
    /\ (net.at = "staging") = (prepared # None)
    /\ mishaps \in 0..MaxMishaps

\* Sequence numbers only grow along the file, which the resume of a stream relies
\* on; nothing but audits follows the terminal, so there is one; and the file never
\* says more than the store: its terminal is the stored one (event-log/index.ts,
\* journaled-run-events.ts, terminal-files.ts).
WellFormedLog ==
    /\ \A i \in 2..Len(file) : file[i].seq > file[i - 1].seq
    /\ \A i \in DOMAIN file : Follows(i) => file[i].kind = "audit"
    /\ \A i \in DOMAIN file :
          file[i].kind = "terminal" => sql # None /\ file[i] = Terminal(sql)

\* No line is ever taken back: the rollback of a refused terminal keeps what was
\* appended while its bytes were staged (event-log/index.ts).
LogOnlyGrows ==
    [][Len(file') >= Len(file) /\ SubSeq(file', 1, Len(file)) = file]_file

\* An abort that comes after an ordinary run's strategy has returned does not
\* make the run cancelled, unless its barrier or its commit failed
\* (runTerminals.ts).
LateAbortLoses ==
    [][sql = None /\ sql' # None /\ ~net.delegate /\ net.ended = "kept"
          /\ sql'.verdict = "cancelled"
       => net.barrier = "failed" \/ net.at = "rescue"]_vars

\* A stored terminal reaches the file, or the failure is disclosed: by the code of
\* the command, or by the receipt of the start that could not repair it.
TerminalReachesLog == sql # None ~> (TerminalInFile \/ job.code # None \/ disclosed)

================================================================================
