-------------------------- MODULE RunTerminalProofs --------------------------
(***************************************************************************)
(* Proofs about RunTerminal, for any number of events, audits and mishaps: *)
(* types, the order of the run's file, that no line of it is taken back,   *)
(* and that a late abort does not replace the verdict of a finished run.   *)
(*                                                                         *)
(* Written says in one formula what a step may do to the file; every       *)
(* action is shown to do that (StepWrites), and what is promised of the    *)
(* file follows from Written alone (FileKept).                             *)
(***************************************************************************)
EXTENDS RunTerminal, TLAPS

\* The lines of a file, and the shapes of the records of the state.
LineSet == [seq : Nat \ {0}, kind : {"event", "audit", "terminal", "malformed"},
            verdict : Verdict \cup {None}]
LogSet == [live : BOOLEAN, next : Nat \ {0}, defers : BOOLEAN, held : Verdict \cup {None},
           poisoned : BOOLEAN, check : BOOLEAN]
NetSet == [at : Place, delegate : BOOLEAN, barrier : {"todo", "ok", "failed"},
           ended : {None, "kept", "aborted"}, result : Verdict \cup {None},
           rescue : BOOLEAN, foreign : BOOLEAN]

\* Types of the disk.
DiskTypes ==
    /\ file \in Seq(LineSet)
    /\ \A i \in 1..Len(file) :
          IF file[i].kind = "terminal" THEN file[i].verdict \in Verdict
          ELSE file[i].verdict = None
    /\ torn \in BOOLEAN
    /\ sql \in [seq : Nat \ {0}, verdict : Verdict] \cup {None}
    /\ ob \in {"none", "pending", "materialized"} /\ (sql = None <=> ob = "none")
    /\ job \in [state : Verdict \cup {"running", "interrupted"},
                code : {None, "terminal_recovery_required"}]

\* Types of the process.
ProcessTypes ==
    /\ up \in BOOLEAN /\ aborted \in BOOLEAN /\ disclosed \in BOOLEAN
    /\ log \in LogSet /\ net \in NetSet
    /\ prepared \in [seq : Nat \ {0}, verdict : Verdict, lines : Nat] \cup {None}
    /\ (net.at = "staging" <=> prepared # None)
    /\ mishaps \in 0..MaxMishaps

\* Where the net no longer commits.
Over == {"returned", "recovery", "gone"}

\* Who may still write the file.  A torn line stands for a stored terminal that is
\* not in the file; a net that can still commit has a live log and nothing stored;
\* after the store has decided, a log that stays registered refuses everybody; and
\* before it the live log numbers past every line.
AuthorityInv ==
    /\ torn => sql # None /\ ~TerminalInFile
    /\ net.at \notin Over => log.live /\ sql = None
    /\ net.at \in {"returned", "recovery"} => sql # None
    /\ sql # None /\ log.live => log.poisoned
    /\ log.check => sql # None
    /\ sql = None /\ log.live => \A i \in 1..Len(file) : file[i].seq < log.next

\* Any two lines are in order, not only neighbours: what an append needs to know.
SortedInv ==
    \A i, j \in 1..Len(file) : i < j => file[i].seq < file[j].seq

\* While a terminal is staged, the file has grown exactly when the log's number has:
\* otherwise the rollback of a refused commit would cut off other lines.
StageInv ==
    prepared # None =>
        /\ prepared.seq <= log.next
        /\ prepared.seq = log.next => prepared.lines = Len(file)

\* A cancelled verdict has an abort behind it, a commit is attempted with nothing
\* left to hold, and where the barrier is still to be run.
VerdictInv ==
    /\ net.at \in {"barrier", "flush", "held", "fallback"} => net.result # None
    /\ log.held = "cancelled" \/ net.result = "cancelled" => aborted
    /\ net.at \in {"staging", "fallback"} => ~log.defers
    /\ net.at \in {"strategy", "barrier", "held", "rescueBarrier"} => net.barrier = "todo"
    /\ net.at = "strategy" => net.ended = None

\* An ordinary run whose decision not to cancel is frozen carries a cancelled verdict
\* only after a failed barrier.
KeptInv ==
    ~net.delegate /\ net.ended = "kept" =>
        /\ log.held = "cancelled" \/ net.result = "cancelled"
             \/ (prepared # None /\ prepared.verdict = "cancelled")
           => net.barrier = "failed"
        /\ net.at \in {"caught", "rescue"} /\ log.defers => net.barrier = "failed"
        /\ net.at = "rescueBarrier" => ~log.defers

\* The inductive invariant of the end of a run.
IInv ==
    /\ DiskTypes /\ ProcessTypes /\ WellFormedLog /\ SortedInv
    /\ AuthorityInv /\ StageInv /\ VerdictInv /\ KeptInv

-----------------------------------------------------------------------------
\* A line that may be appended: numbered past the others, in the place of a terminal
\* the stored one, and an audit after it.
Fits(e) ==
    /\ e \in LineSet
    /\ IF e.kind = "terminal" THEN e.verdict \in Verdict ELSE e.verdict = None
    /\ \A i \in 1..Len(file) : file[i].seq < e.seq
    /\ e.kind = "terminal" => sql' # None /\ e = Terminal(sql')
    /\ TerminalInFile => e.kind = "audit"

\* What a step does to the file and to the stored terminal.
Written ==
    /\ file' = file \/ \E e \in LineSet : Fits(e) /\ file' = Append(file, e)
    /\ sql # None => sql' = sql

\* None is none of the values it stands beside.
LEMMA NoneFacts ==
    /\ None \notin Verdict
    /\ \A s \in Nat \ {0}, v \in Verdict :
         [seq |-> s, verdict |-> v] # None
    /\ \A s \in Nat \ {0}, v \in Verdict, n \in Nat :
         [seq |-> s, verdict |-> v, lines |-> n] # None
<1>1. None \notin Verdict
  BY NoneAssumption
<1>2. ASSUME NEW s \in Nat \ {0}, NEW v \in Verdict PROVE [seq |-> s, verdict |-> v] # None
  <2>1. [seq |-> s, verdict |-> v] \in [seq : Nat, verdict : Verdict]
    OBVIOUS
  <2> QED
    BY <2>1, NoneAssumption
<1>3. ASSUME NEW s \in Nat \ {0}, NEW v \in Verdict, NEW n \in Nat
      PROVE  [seq |-> s, verdict |-> v, lines |-> n] # None
  <2>1. [seq |-> s, verdict |-> v, lines |-> n] \in [seq : Nat, verdict : Verdict, lines : Nat]
    OBVIOUS
  <2> QED
    BY <2>1, NoneAssumption
<1> QED
  BY <1>1, <1>2, <1>3

\* The lines of a file and their numbers.
LEMMA Lines ==
    ASSUME file \in Seq(LineSet)
    PROVE  /\ Len(file) \in Nat /\ DOMAIN file = 1..Len(file)
           /\ \A i \in 1..Len(file) :
                file[i] \in LineSet /\ file[i].seq \in Nat \ {0}
<1>1. \A i \in 1..Len(file) : file[i] \in LineSet
  OBVIOUS
<1>2. \A x \in LineSet : x.seq \in Nat \ {0}
  BY DEF LineSet
<1> QED
  BY <1>1, <1>2

\* A line that the live log emits fits: nothing is stored yet, so the line is whole
\* and numbered past the others.
LEMMA EmitFits ==
    ASSUME IInv, log.live, ~log.poisoned, NEW k \in {"event", "audit"}, EmitLine(k),
           UNCHANGED sql
    PROVE  /\ Written
           /\ sql = None /\ file' = Append(file, Event(log.next, k)) /\ torn' = FALSE
           /\ log' = [log EXCEPT !.next = log.next + 1]
<1> DEFINE e == Event(log.next, k)
<1>1. sql = None /\ torn = FALSE
  BY DEF IInv, AuthorityInv, DiskTypes
<1>2. file' = Append(file, e) /\ torn' = FALSE
  BY <1>1 DEF EmitLine, AppendLine
<1>3. ~TerminalInFile
  BY <1>1 DEF IInv, WellFormedLog, TerminalInFile
<1>4. e \in LineSet /\ e.kind # "terminal" /\ e.verdict = None /\ e.seq = log.next
  BY DEF Event, Line, LineSet, IInv, ProcessTypes, LogSet
<1>5. Fits(e)
  BY <1>1, <1>3, <1>4 DEF Fits, IInv, AuthorityInv
<1> QED
  BY <1>1, <1>2, <1>4, <1>5 DEF Written, EmitLine

\* A line that is appended after the last one fits, also when it completes a torn one.
LEMMA TailFits ==
    ASSUME IInv, AppendLine(Event(LastSeqInFile + 1, "audit")), UNCHANGED sql,
           ~log.live \/ Released
    PROVE  Written /\ torn' = FALSE
<1> DEFINE e == IF torn THEN [Event(LastSeqInFile + 1, "audit") EXCEPT !.kind = "malformed"]
                ELSE Event(LastSeqInFile + 1, "audit")
<1>1. file \in Seq(LineSet) /\ Len(file) \in Nat
  BY DEF IInv, DiskTypes
<1>2. \A i \in 1..Len(file) : file[i].seq \in Nat \ {0}
  BY <1>1, Lines
<1>3. \A i \in 1..Len(file) : file[i].seq <= file[Len(file)].seq
  <2>1. SUFFICES ASSUME NEW i \in 1..Len(file) PROVE file[i].seq <= file[Len(file)].seq
    OBVIOUS
  <2>2. CASE i = Len(file)
    BY <2>1, <2>2, <1>1, <1>2
  <2>3. CASE i < Len(file)
    BY <2>1, <2>3, <1>1, <1>2 DEF IInv, SortedInv
  <2> QED
    BY <2>1, <2>2, <2>3, <1>1
<1>4. LastSeqInFile \in Nat /\ \A i \in 1..Len(file) : file[i].seq <= LastSeqInFile
  <2>1. CASE file = <<>>
    BY <2>1 DEF LastSeqInFile
  <2>2. CASE file # <<>>
    <3>1. Len(file) \in 1..Len(file)
      BY <2>2, <1>1
    <3>2. file[Len(file)].seq \in Nat
      BY <3>1, <1>2
    <3> QED
      BY <2>2, <1>1, <1>3, <3>2, <1>2 DEF LastSeqInFile
  <2> QED
    BY <2>1, <2>2
<1>5. e = [seq |-> LastSeqInFile + 1, kind |-> IF torn THEN "malformed" ELSE "audit",
           verdict |-> None]
  BY DEF Event, Line
<1>6. e \in LineSet /\ e.seq = LastSeqInFile + 1 /\ e.kind # "terminal" /\ e.verdict = None
      /\ (e.kind = "audit" <=> ~torn)
  BY <1>4, <1>5 DEF LineSet
<1>7. TerminalInFile => ~torn
  BY DEF IInv, AuthorityInv
<1>8. file' = Append(file, e) /\ torn' = FALSE
  BY DEF AppendLine
<1> HIDE DEF e
<1>9. \A i \in 1..Len(file) : file[i].seq < e.seq
  BY <1>2, <1>4, <1>6
<1>10. Fits(e)
  BY <1>6, <1>7, <1>9 DEF Fits
<1> QED
  BY <1>6, <1>8, <1>10 DEF Written

\* The repair of the terminal t
LEMMA RepairFits ==
    ASSUME IInv, NEW t \in [seq : Nat \ {0}, verdict : Verdict], sql' = t, Repair(t),
           sql = None \/ sql = t
    PROVE  Written /\ torn' = FALSE /\ ob' = "materialized"
<1>1. t # None
  BY NoneFacts
<1>2. file \in Seq(LineSet) /\ \A i \in 1..Len(file) : file[i].seq \in Nat
  BY Lines DEF IInv, DiskTypes
<1>3. CASE TerminalInFile
  BY <1>3, <1>1 DEF Repair, Written
<1>4. CASE ~TerminalInFile
  <2>1. file' = Append(file, Terminal(t))
    BY <1>4 DEF Repair
  <2>2. Terminal(t) = [seq |-> t.seq, kind |-> "terminal", verdict |-> t.verdict]
    BY DEF Terminal, Line
  <2>3. Terminal(t) \in LineSet /\ Terminal(t).kind = "terminal"
        /\ Terminal(t).seq = t.seq /\ Terminal(t).verdict \in Verdict
    BY <2>2 DEF LineSet
  <2>4. ASSUME NEW i \in 1..Len(file) PROVE file[i].seq < t.seq
    <3>1. i \in DOMAIN file /\ file[i].kind # "terminal" /\ ~Follows(i)
      BY <1>2, <1>4, <2>4 DEF TerminalInFile, Follows
    <3>2. file[i] # Terminal(t)
      BY <3>1, <2>3
    <3>3. ~(file[i].seq >= t.seq)
      BY <3>1, <3>2 DEF Repair, Conflicts
    <3> QED
      BY <3>3, <1>2, <2>4
  <2>5. Fits(Terminal(t))
    BY <1>1, <1>4, <2>3, <2>4 DEF Fits
  <2> QED
    BY <1>1, <2>1, <2>3, <2>5 DEF Written, Repair
<1> QED
  BY <1>3, <1>4

\* The rollback of a refused commit cuts nothing off.
LEMMA RefusedKeeps ==
    ASSUME IInv, NEW p \in [seq : Nat \ {0}, verdict : Verdict, lines : Nat],
           p.seq = log.next => p.lines = Len(file), Truncate(Boundary(p))
    PROVE  file' = file /\ torn' = torn
<1>1. Boundary(p) = Len(file)
  BY DEF Boundary
<1>2. Len(file) \in Nat
  BY DEF IInv, DiskTypes
<1> QED
  BY <1>1, <1>2 DEF Truncate

\* An attempt to commit that is refused leaves the disk as it was.
Refused(place) ==
    /\ UNCHANGED disk /\ mishaps' \in 0..MaxMishaps
    /\ \E broken \in BOOLEAN : log' = [log EXCEPT !.poisoned = broken]
    /\ net' = [net EXCEPT !.at = place]

\* The terminal p is stored, and its line is written or owed.
Stored(p) ==
    /\ sql = None /\ sql' = [seq |-> log.next, verdict |-> p.verdict]
    /\ sql' \in [seq : Nat \ {0}, verdict : Verdict] /\ sql' # None
    /\ job' = [job EXCEPT !.state = p.verdict]
    /\ mishaps' \in 0..MaxMishaps
    /\ \/ /\ torn' = FALSE /\ ob' = "materialized"
          /\ log' = [log EXCEPT !.live = FALSE, !.next = log.next + 1]
          /\ net' = [net EXCEPT !.at = "returned"]
       \/ /\ file' = file /\ ob' = "pending" /\ (torn' = torn \/ (torn' = TRUE /\ ~TerminalInFile))
          /\ log' = [log EXCEPT !.poisoned = TRUE, !.check = TRUE]
          /\ net' = [net EXCEPT !.at = "recovery"]

\* An attempt to commit p is refused with the disk as it was, or stores p.
LEMMA CommitFits ==
    ASSUME IInv, NEW p \in [seq : Nat \ {0}, verdict : Verdict, lines : Nat],
           p.seq = log.next => p.lines = Len(file),
           NEW place, Commit(p, place)
    PROVE  Written /\ (Refused(place) \/ Stored(p))
<1> USE BoundAssumption
<1>n. mishaps \in 0..MaxMishaps /\ MaxMishaps \in Nat /\ log \in LogSet
  BY DEF IInv, ProcessTypes
<1>s. /\ Numbered(p) = [seq |-> log.next, verdict |-> p.verdict]
      /\ Numbered(p) \in [seq : Nat \ {0}, verdict : Verdict]
      /\ Numbered(p) # None
  <2>1. Numbered(p) = [seq |-> log.next, verdict |-> p.verdict]
    BY DEF Numbered
  <2>2. log.next \in Nat \ {0} /\ p.verdict \in Verdict
    BY <1>n DEF LogSet
  <2> QED
    BY <2>1, <2>2, NoneFacts
<1>1. CASE CommitRefused(p, place)
  <2>1. file' = file /\ torn' = torn
    BY <1>1, RefusedKeeps DEF CommitRefused
  <2>2. mishaps' \in 0..MaxMishaps
    <3>1. PICK broken \in BOOLEAN :
            mishaps' = mishaps + (IF sql = None THEN 1 ELSE 0) + (IF broken THEN 1 ELSE 0)
      BY <1>1 DEF CommitRefused
    <3>2. mishaps' <= MaxMishaps
      BY <1>1 DEF CommitRefused
    <3> QED
      BY <3>1, <3>2, <1>n
  <2>3. \E broken \in BOOLEAN : log' = [log EXCEPT !.poisoned = broken]
    BY <1>1 DEF CommitRefused
  <2>4. net' = [net EXCEPT !.at = place] /\ UNCHANGED <<sql, ob, job>>
    BY <1>1 DEF CommitRefused
  <2>5. Refused(place)
    BY <2>1, <2>2, <2>3, <2>4 DEF Refused, disk
  <2> QED
    BY <2>1, <2>4, <2>5 DEF Written
<1>2. CASE CommitWhole(p)
  <2>1. sql = None /\ sql' = Numbered(p) /\ Repair(Numbered(p))
    BY <1>2 DEF CommitWhole
  <2>2. Written /\ torn' = FALSE /\ ob' = "materialized"
    BY <2>1, <1>s, RepairFits
  <2>3. mishaps' \in 0..MaxMishaps
    BY <1>2, <1>n DEF CommitWhole
  <2>4. /\ job' = [job EXCEPT !.state = p.verdict]
        /\ log' = [log EXCEPT !.live = FALSE, !.next = log.next + 1]
        /\ net' = [net EXCEPT !.at = "returned"]
    BY <1>2 DEF CommitWhole
  <2> QED
    BY <2>1, <2>2, <2>3, <2>4, <1>s DEF Stored
<1>3. CASE CommitPending(p)
  <2>1. /\ sql = None /\ sql' = Numbered(p) /\ RepairFails(Numbered(p))
        /\ job' = [job EXCEPT !.state = p.verdict]
        /\ log' = [log EXCEPT !.poisoned = TRUE, !.check = TRUE]
        /\ net' = [net EXCEPT !.at = "recovery"]
    BY <1>3 DEF CommitPending
  <2>2. file' = file /\ ob' = "pending" /\ (torn' = torn \/ (torn' = TRUE /\ ~TerminalInFile))
    BY <2>1 DEF RepairFails
  <2>3. mishaps' \in 0..MaxMishaps
    BY <2>1, <1>n DEF RepairFails, Mishap
  <2>4. Written
    BY <2>1, <2>2 DEF Written
  <2> QED
    BY <2>1, <2>2, <2>3, <2>4, <1>s DEF Stored
<1> QED
  BY <1>1, <1>2, <1>3 DEF Commit

\* The staged terminal is one that CommitFits is about.
LEMMA Staged ==
    ASSUME IInv, net.at = "staging"
    PROVE  /\ prepared \in [seq : Nat \ {0}, verdict : Verdict, lines : Nat]
           /\ prepared.seq = log.next => prepared.lines = Len(file)
BY DEF IInv, ProcessTypes, StageInv

\* So is one prepared at this moment.
LEMMA PreparedHere ==
    ASSUME IInv, NEW v \in Verdict
    PROVE  /\ Prepare(v) \in [seq : Nat \ {0}, verdict : Verdict, lines : Nat]
           /\ Prepare(v).lines = Len(file) /\ Prepare(v).seq = log.next
           /\ Prepare(v).verdict = IF Cancelled THEN "cancelled" ELSE v
           /\ PrepareFailure(v) = [seq |-> log.next, verdict |-> "failed", lines |-> Len(file)]
           /\ PrepareFailure(v) \in [seq : Nat \ {0}, verdict : Verdict, lines : Nat]
<1>1. log.next \in Nat \ {0}
  BY DEF IInv, ProcessTypes, LogSet
<1>2. Len(file) \in Nat
  BY Lines DEF IInv, DiskTypes
<1>3. "cancelled" \in Verdict /\ "failed" \in Verdict
  BY DEF Verdict
<1> QED
  BY <1>1, <1>2, <1>3 DEF Prepare, PrepareFailure

\* The verdict of the net; a cancelled one has an abort behind it.
LEMMA RescueVerdicts == RescueVerdict \in Verdict /\ (RescueVerdict = "cancelled" => aborted)
BY DEF RescueVerdict, Verdict

\* The staged terminal is one that CommitFits is about.
LEMMA StagedOutcome ==
    ASSUME IInv, StagedCommit
    PROVE  /\ net.at = "staging" /\ Written /\ (Refused(Thrown) \/ Stored(prepared))
           /\ UNCHANGED <<up, aborted, disclosed>> /\ prepared' = None
<1>1. net.at = "staging" /\ Commit(prepared, Thrown) /\ prepared' = None
  BY DEF StagedCommit
<1>2. Written /\ (Refused(Thrown) \/ Stored(prepared))
  BY <1>1, Staged, CommitFits
<1> QED
  BY <1>1, <1>2 DEF Commit

\* What the commit of the net's own terminal does.
LEMMA RescueOutcome ==
    ASSUME IInv, RescueCommits
    PROVE  /\ net.at = "rescue" /\ ~log.defers /\ Written
           /\ Refused("escaped") \/ Stored(Prepare(RescueVerdict))
           /\ UNCHANGED <<up, aborted, disclosed, prepared>>
<1>1. /\ net.at = "rescue" /\ ~log.defers /\ UNCHANGED prepared
      /\ Commit(Prepare(RescueVerdict), "escaped")
  BY DEF RescueCommits
<1>2. Written /\ (Refused("escaped") \/ Stored(Prepare(RescueVerdict)))
  BY <1>1, PreparedHere, RescueVerdicts, CommitFits
<1> QED
  BY <1>1, <1>2 DEF Commit

\* A repair by the job or by a restart, successful or not.
LEMMA RepairedLater ==
    ASSUME IInv, sql # None, UNCHANGED sql, Repair(sql) \/ RepairFails(sql),
           mishaps' = mishaps \/ RepairFails(sql)
    PROVE  /\ Written /\ mishaps' \in 0..MaxMishaps
           /\ ob' \in {"pending", "materialized"}
           /\ torn' = FALSE \/ (file' = file
                                 /\ (torn' = torn \/ (torn' = TRUE /\ ~TerminalInFile)))
<1>1. sql \in [seq : Nat \ {0}, verdict : Verdict]
  BY DEF IInv, DiskTypes
<1>2. mishaps \in 0..MaxMishaps /\ MaxMishaps \in Nat
  BY BoundAssumption DEF IInv, ProcessTypes
<1>3. CASE Repair(sql) /\ mishaps' = mishaps
  BY <1>1, <1>2, <1>3, RepairFits
<1>4. CASE RepairFails(sql)
  <2>1. mishaps' \in 0..MaxMishaps
    BY <1>2, <1>4 DEF RepairFails, Mishap
  <2>2. file' = file /\ ob' = "pending" /\ (torn' = torn \/ (torn' = TRUE /\ ~TerminalInFile))
    BY <1>4 DEF RepairFails
  <2> QED
    BY <2>1, <2>2 DEF Written
<1> QED
  BY <1>3, <1>4

\* The log stays a log.
LEMMA LogFacts == ASSUME log \in LogSet
  PROVE /\ [log EXCEPT !.live = FALSE, !.next = log.next + 1] \in LogSet
        /\ [log EXCEPT !.poisoned = TRUE, !.check = TRUE] \in LogSet
        /\ [log EXCEPT !.next = log.next + 1] \in LogSet
        /\ [log EXCEPT !.live = FALSE] \in LogSet
<1>1. log.next + 1 \in Nat \ {0}
  BY DEF LogSet
<1>2. [log EXCEPT !.live = FALSE, !.next = log.next + 1] \in LogSet
  BY <1>1 DEF LogSet
<1>3. [log EXCEPT !.poisoned = TRUE, !.check = TRUE] \in LogSet
  BY DEF LogSet
<1>4. [log EXCEPT !.next = log.next + 1] \in LogSet
  BY <1>1 DEF LogSet
<1>5. [log EXCEPT !.live = FALSE] \in LogSet
  BY DEF LogSet
<1> QED
  BY <1>2, <1>3, <1>4, <1>5

\* The actions that leave the disk alone.
Quiet ==
    \/ Abort \/ StrategyHolds \/ StrategyReturns \/ StrategyThrows
    \/ Barriers \/ Crash \/ LateCheck
    \/ Flush \/ FlushNothing \/ Fallback
    \/ CatchHeld \/ CatchOther \/ RescueHolds \/ RescueRefused

\* They do leave it alone.
LEMMA QuietDisk == ASSUME Quiet PROVE UNCHANGED disk
BY DEF Quiet, Abort, StrategyHolds, StrategyReturns, StrategyThrows, Barriers, BarrierHolds,
       HeldBarrierHolds, RescueBarrierHolds, BarrierFails, ReconcileFails, Crash, LateCheck,
       Flush, FlushNothing, Fallback, CatchHeld, CatchOther, RescueHolds, RescueRefused

\* Before a terminal is stored the log is live.
LEMMA Live ==
    ASSUME IInv, net.at \notin Over
    PROVE  log.live /\ sql = None
BY DEF IInv, AuthorityInv

\* Every step writes the file as Written says.
LEMMA StepWrites == ASSUME IInv, [Next]_vars PROVE Written
<1>u. CASE UNCHANGED vars
  BY <1>u DEF vars, disk, Written
<1>q. CASE Quiet
  BY <1>q, QuietDisk DEF disk, Written
<1>1. CASE Progress
  <2>1. log.live /\ ~log.poisoned /\ EmitLine("event") /\ UNCHANGED sql
    BY <1>1 DEF Progress
  <2> QED
    BY <2>1, EmitFits
<1>2. CASE Audit
  <2>1. CASE log.live /\ ~Released
    <3>1. ~log.poisoned /\ EmitLine("audit") /\ UNCHANGED sql
      BY <1>2, <2>1 DEF Audit
    <3> QED
      BY <2>1, <3>1, EmitFits
  <2>2. CASE ~(log.live /\ ~Released)
    <3>1. AppendLine(Event(LastSeqInFile + 1, "audit")) /\ UNCHANGED sql
      BY <1>2, <2>2 DEF Audit
    <3> QED
      BY <2>2, <3>1, TailFits
  <2> QED
    BY <2>1, <2>2
<1>3. CASE StagedCommit
  BY <1>3, StagedOutcome
<1>4. CASE RescueCommits
  BY <1>4, RescueOutcome
<1>5. CASE JobReturns
  BY <1>5 DEF JobReturns, Written
<1>6. CASE JobThrows
  BY <1>6 DEF JobThrows, Written
<1>7. CASE JobRecovers
  <2>1. sql # None
    BY <1>7 DEF JobRecovers, IInv, AuthorityInv
  <2>2. (Repair(sql) /\ mishaps' = mishaps) \/ RepairFails(sql)
    BY <1>7 DEF JobRecovers
  <2>3. UNCHANGED sql
    BY <1>7 DEF JobRecovers
  <2> QED
    BY <2>1, <2>2, <2>3, RepairedLater
<1>8. CASE Restart
  <2>1. UNCHANGED sql
    BY <1>8 DEF Restart
  <2>2. CASE ob = "none"
    BY <1>8, <2>1, <2>2 DEF Restart, Written
  <2>3. CASE ob # "none"
    <3>1. sql # None
      BY <2>3 DEF IInv, DiskTypes
    <3>2. (Repair(sql) /\ mishaps' = mishaps) \/ RepairFails(sql)
      BY <1>8, <2>3 DEF Restart
    <3> QED
      BY <2>1, <3>1, <3>2, RepairedLater
  <2> QED
    BY <2>2, <2>3
<1> QED
  BY <1>u, <1>q, <1>1, <1>2, <1>3, <1>4, <1>5, <1>6, <1>7, <1>8 DEF Next, Barriers, Ending,
     Recovery, Quiet

\* Appending keeps the lines there are.
LEMMA AppendedLines ==
    ASSUME file \in Seq(LineSet), NEW e \in LineSet, file' = Append(file, e)
    PROVE  /\ file' \in Seq(LineSet) /\ Len(file') = Len(file) + 1
           /\ \A i \in 1..Len(file) : i \in 1..Len(file') /\ file'[i] = file[i]
           /\ file'[Len(file) + 1] = e /\ Len(file) + 1 \in 1..Len(file')
           /\ \A i \in 1..Len(file') : i \in 1..Len(file) \/ i = Len(file) + 1
OBVIOUS

\* Such a step keeps the file well formed and in order.
LEMMA FileKept ==
    ASSUME IInv, Written
    PROVE  /\ file' \in Seq(LineSet) /\ WellFormedLog' /\ SortedInv'
           /\ \A i \in 1..Len(file') :
                IF file'[i].kind = "terminal" THEN file'[i].verdict \in Verdict
                ELSE file'[i].verdict = None
<1>1. file \in Seq(LineSet)
  BY DEF IInv, DiskTypes
<1>2. CASE file' = file
  <2>1. WellFormedLog /\ SortedInv /\ DiskTypes /\ (sql # None => sql' = sql)
    BY DEF IInv, Written
  <2>2. SortedInv'
    BY <1>2, <2>1 DEF SortedInv
  <2>3. WellFormedLog'
    BY <1>2, <2>1 DEF WellFormedLog, Follows, Terminal
  <2> QED
    BY <1>1, <1>2, <2>1, <2>2, <2>3 DEF DiskTypes
<1>3. ASSUME NEW e \in LineSet, Fits(e), file' = Append(file, e)
      PROVE  /\ file' \in Seq(LineSet) /\ WellFormedLog' /\ SortedInv'
             /\ \A i \in 1..Len(file') :
                  IF file'[i].kind = "terminal" THEN file'[i].verdict \in Verdict
                  ELSE file'[i].verdict = None
  <2> DEFINE n == Len(file)
  <2>0. n \in Nat /\ DOMAIN file = 1..n /\ (\A i \in 1..n : file[i].seq \in Nat) /\ e.seq \in Nat
    BY <1>1, Lines DEF LineSet
  <2>1. /\ file' \in Seq(LineSet) /\ Len(file') = n + 1
        /\ \A i \in 1..n : i \in 1..Len(file') /\ file'[i] = file[i]
        /\ file'[n + 1] = e
        /\ \A i \in 1..Len(file') : i \in 1..n \/ i = n + 1
    BY <1>1, <1>3, AppendedLines
  <2>2. DOMAIN file' = 1..Len(file')
    BY <2>1
  <2> HIDE DEF n
  <2>3. SortedInv'
    <3>1. SUFFICES ASSUME NEW i \in 1..Len(file'), NEW j \in 1..Len(file'), i < j
                   PROVE  file'[i].seq < file'[j].seq
      BY DEF SortedInv
    <3>2. i \in 1..n
      BY <3>1, <2>0, <2>1
    <3>3. CASE j \in 1..n
      BY <3>1, <3>2, <3>3, <2>1 DEF IInv, SortedInv, n
    <3>4. CASE j = n + 1
      BY <3>2, <3>4, <2>1, <1>3 DEF Fits, n
    <3> QED
      BY <2>1, <3>3, <3>4
  <2>4. \A i \in 2..Len(file') : file'[i].seq > file'[i - 1].seq
    <3>1. SUFFICES ASSUME NEW i \in 2..Len(file') PROVE file'[i].seq > file'[i - 1].seq
      OBVIOUS
    <3>2. i \in 1..Len(file') /\ i - 1 \in 1..Len(file') /\ i - 1 < i
      BY <2>0, <2>1
    <3>3. file'[i].seq \in Nat /\ file'[i - 1].seq \in Nat
      BY <2>0, <2>1, <3>2
    <3>4. file'[i - 1].seq < file'[i].seq
      BY <2>3, <3>2 DEF SortedInv
    <3> QED
      BY <3>3, <3>4
  <2>5. \A i \in 1..Len(file') : Follows(i)' => file'[i].kind = "audit"
    <3>1. SUFFICES ASSUME NEW i \in 1..Len(file'), Follows(i)' PROVE file'[i].kind = "audit"
      OBVIOUS
    <3>2. PICK j \in 1..(i - 1) : file'[j].kind = "terminal"
      BY <3>1 DEF Follows
    <3>3. j \in 1..n /\ file[j].kind = "terminal"
      BY <2>0, <2>1, <3>2
    <3>4. CASE i \in 1..n
      <4>1. Follows(i)
        BY <3>2, <3>3 DEF Follows
      <4> QED
        BY <2>0, <2>1, <3>4, <4>1 DEF IInv, WellFormedLog
    <3>5. CASE i = n + 1
      <4>1. TerminalInFile
        BY <2>0, <3>3 DEF TerminalInFile
      <4> QED
        BY <1>3, <2>1, <3>5, <4>1 DEF Fits
    <3> QED
      BY <2>1, <3>4, <3>5
  <2>6. \A i \in 1..Len(file') :
            file'[i].kind = "terminal" => sql' # None /\ file'[i] = Terminal(sql')
    <3>1. SUFFICES ASSUME NEW i \in 1..Len(file'), file'[i].kind = "terminal"
                   PROVE  sql' # None /\ file'[i] = Terminal(sql')
      OBVIOUS
    <3>2. CASE i \in 1..n
      <4>1. file[i].kind = "terminal"
        BY <2>1, <3>1, <3>2
      <4>2. sql # None /\ file[i] = Terminal(sql)
        BY <2>0, <3>2, <4>1 DEF IInv, WellFormedLog
      <4> QED
        BY <2>1, <3>2, <4>2 DEF Written
    <3>3. CASE i = n + 1
      BY <1>3, <2>1, <3>1, <3>3 DEF Fits
    <3> QED
      BY <2>1, <3>2, <3>3
  <2>7. WellFormedLog'
    BY <2>2, <2>4, <2>5, <2>6 DEF WellFormedLog, Follows, Terminal
  <2>8. ASSUME NEW i \in 1..Len(file')
        PROVE  IF file'[i].kind = "terminal" THEN file'[i].verdict \in Verdict
               ELSE file'[i].verdict = None
    <3>1. CASE i \in 1..n
      BY <2>1, <3>1 DEF IInv, DiskTypes, n
    <3>2. CASE i = n + 1
      BY <1>3, <2>1, <3>2 DEF Fits
    <3> QED
      BY <2>1, <3>1, <3>2
  <2> QED
    BY <2>1, <2>3, <2>7, <2>8
<1> QED
  BY <1>2, <1>3 DEF Written

\* Steps keep the types of the disk: a terminal is stored exactly when an obligation
\* owes its line.
LEMMA DiskTypesKept == ASSUME IInv, [Next]_vars PROVE DiskTypes'
<1> DEFINE T == /\ torn' \in BOOLEAN
                /\ sql' \in [seq : Nat \ {0}, verdict : Verdict] \cup {None}
                /\ ob' \in {"none", "pending", "materialized"}
                /\ (sql' = None <=> ob' = "none")
                /\ job' \in [state : Verdict \cup {"running", "interrupted"},
                             code : {None, "terminal_recovery_required"}]
<1>t. /\ torn \in BOOLEAN
      /\ sql \in [seq : Nat \ {0}, verdict : Verdict] \cup {None}
      /\ ob \in {"none", "pending", "materialized"}
      /\ (sql = None <=> ob = "none")
      /\ job \in [state : Verdict \cup {"running", "interrupted"},
                  code : {None, "terminal_recovery_required"}]
  BY DEF IInv, DiskTypes
<1>T. T
  <2>u. CASE UNCHANGED vars
    BY <2>u, <1>t DEF vars, disk
  <2>q. CASE Quiet
    BY <2>q, <1>t, QuietDisk DEF disk
  <2>1. CASE Progress
    <3>1. log.live /\ ~log.poisoned /\ EmitLine("event") /\ UNCHANGED <<sql, ob, job>>
      BY <2>1 DEF Progress
    <3> QED
      BY <3>1, <1>t, EmitFits
  <2>2. CASE Audit
    <3>0. UNCHANGED <<sql, ob, job>>
      BY <2>2 DEF Audit
    <3>1. torn' = FALSE
      BY <2>2 DEF Audit, EmitLine, AppendLine
    <3> QED
      BY <3>0, <3>1, <1>t
  <2>3. CASE StagedCommit
    <3>1. (Refused(Thrown) \/ Stored(prepared)) /\ prepared.verdict \in Verdict
      BY <2>3, StagedOutcome, Staged
    <3>2. CASE Refused(Thrown)
      BY <3>2, <1>t DEF Refused, disk
    <3>3. CASE Stored(prepared)
      BY <3>1, <3>3, <1>t DEF Stored
    <3> QED
      BY <3>1, <3>2, <3>3
  <2>4. CASE RescueCommits
    <3>1. Refused("escaped") \/ Stored(Prepare(RescueVerdict))
      BY <2>4, RescueOutcome
    <3>2. Prepare(RescueVerdict).verdict \in Verdict
      BY PreparedHere, RescueVerdicts
    <3>3. CASE Refused("escaped")
      BY <3>3, <1>t DEF Refused, disk
    <3>4. CASE Stored(Prepare(RescueVerdict))
      BY <3>2, <3>4, <1>t DEF Stored
    <3> QED
      BY <3>1, <3>3, <3>4
  <2>5. CASE JobReturns
    <3>1. sql # None
      BY <2>5 DEF JobReturns, IInv, AuthorityInv
    <3> QED
      BY <2>5, <1>t, <3>1 DEF JobReturns, Settled
  <2>6. CASE JobThrows
    BY <2>6, <1>t DEF JobThrows, Settled, Verdict
  <2>7. CASE JobRecovers
    <3>1. sql # None /\ UNCHANGED sql
      BY <2>7 DEF JobRecovers, IInv, AuthorityInv
    <3>2. (Repair(sql) /\ mishaps' = mishaps) \/ RepairFails(sql)
      BY <2>7 DEF JobRecovers
    <3>3. ob' \in {"pending", "materialized"} /\ torn' \in BOOLEAN
      BY <3>1, <3>2, <1>t, RepairedLater
    <3>4. job' = job \/ job' = [job EXCEPT !.code = "terminal_recovery_required"]
      BY <2>7 DEF JobRecovers
    <3> QED
      BY <3>1, <3>3, <3>4, <1>t
  <2>8. CASE Restart
    <3>1. /\ UNCHANGED sql
          /\ job' = [job EXCEPT !.state = IF job.state = "running" THEN Settled("interrupted")
                                         ELSE job.state]
      BY <2>8 DEF Restart
    <3>2. job' \in [state : Verdict \cup {"running", "interrupted"},
                    code : {None, "terminal_recovery_required"}]
      BY <3>1, <1>t DEF Settled
    <3>3. CASE ob = "none"
      BY <2>8, <3>1, <3>2, <3>3, <1>t DEF Restart
    <3>4. CASE ob # "none"
      <4>1. sql # None
        BY <3>4, <1>t
      <4>2. (Repair(sql) /\ mishaps' = mishaps) \/ RepairFails(sql)
        BY <2>8, <3>4 DEF Restart
      <4>3. ob' \in {"pending", "materialized"} /\ torn' \in BOOLEAN
        BY <3>1, <4>1, <4>2, <1>t, RepairedLater
      <4> QED
        BY <3>1, <3>2, <4>1, <4>3, <1>t
    <3> QED
      BY <3>3, <3>4
  <2> QED
    BY <2>u, <2>q, <2>1, <2>2, <2>3, <2>4, <2>5, <2>6, <2>7, <2>8 DEF Next, Barriers,
       Ending, Recovery, Quiet
<1> QED
  BY <1>T, StepWrites, FileKept DEF DiskTypes

\* Steps keep the types of the process: a terminal is prepared exactly while it is
\* staged.
LEMMA ProcessTypesKept == ASSUME IInv, [Next]_vars PROVE ProcessTypes'
<1> USE DEF ProcessTypes
<1>t. /\ ProcessTypes /\ log \in LogSet /\ net \in NetSet /\ MaxMishaps \in Nat
      /\ None \notin Verdict
      /\ sql # None => sql.verdict \in Verdict
  BY BoundAssumption, NoneFacts DEF IInv, DiskTypes
<1>u. CASE UNCHANGED vars
  BY <1>u, <1>t DEF vars
<1>1. CASE Progress
  BY <1>1, <1>t DEF Progress, EmitLine, LogSet
<1>2. CASE Audit
  <2>1. log' \in LogSet
    BY <1>2, <1>t, LogFacts DEF Audit, EmitLine
  <2> QED
    BY <1>2, <2>1, <1>t DEF Audit
<1>3. CASE LateCheck
  BY <1>3, <1>t DEF LateCheck, LogSet
<1>4. CASE Abort
  BY <1>4, <1>t DEF Abort
<1>5. CASE StrategyHolds
  BY <1>5, <1>t DEF StrategyHolds, Hold, LogSet
<1>6. CASE StrategyReturns
  BY <1>6, <1>t DEF StrategyReturns, LogSet, NetSet, Place, Working, Verdict, disk
<1>7. CASE StrategyThrows
  BY <1>7, <1>t DEF StrategyThrows, Go, LogSet, NetSet, Place, Working, Verdict, disk
<1>8. CASE BarrierHolds
  BY <1>8, <1>t DEF BarrierHolds, Hold, LogSet, NetSet, Place, Working, Verdict, disk
<1>9. CASE BarrierFails
  <2>1. log' \in LogSet
    BY <1>9, <1>t DEF BarrierFails, Mishap, LogSet, Verdict
  <2>2. net' \in NetSet
    BY <1>9, <1>t DEF BarrierFails, Mishap, LogSet, NetSet, Place, Working, Verdict
  <2>3. mishaps' \in 0..MaxMishaps
    BY <1>9, <1>t DEF BarrierFails, Mishap, disk
  <2>4. (net'.at = "staging") <=> (prepared' # None)
    BY <1>9, <1>t DEF BarrierFails, NetSet
  <2> QED
    BY <1>9, <2>1, <2>2, <2>3, <2>4, <1>t DEF BarrierFails, disk
<1>10. CASE ReconcileFails
  <2>1. log' \in LogSet
    BY <1>10, <1>t DEF ReconcileFails, Mishap, LogSet, Verdict
  <2>2. net' \in NetSet
    BY <1>10, <1>t DEF ReconcileFails, Mishap, LogSet, NetSet, Place, Working, Verdict
  <2>3. mishaps' \in 0..MaxMishaps
    BY <1>10, <1>t DEF ReconcileFails, Mishap, disk
  <2>4. (net'.at = "staging") <=> (prepared' # None)
    BY <1>10, <1>t DEF ReconcileFails, NetSet
  <2> QED
    BY <1>10, <2>1, <2>2, <2>3, <2>4, <1>t DEF ReconcileFails, disk
<1>11. CASE HeldBarrierHolds
  BY <1>11, <1>t DEF HeldBarrierHolds, LogSet, NetSet, Place, Working, Verdict, disk
<1>12. CASE RescueBarrierHolds
  BY <1>12, <1>t DEF RescueBarrierHolds, LogSet, NetSet, Place, Working, Verdict, disk
<1>13. CASE Flush
  <2>1. /\ log.held \in Verdict
        /\ prepared' = Prepare(log.held) \/ prepared' = PrepareFailure(log.held)
    BY <1>13, <1>t DEF Flush, LogSet
  <2>2. prepared' \in [seq : Nat \ {0}, verdict : Verdict, lines : Nat]
    BY <2>1, PreparedHere
  <2>3. prepared' # None
    BY <2>2, NoneFacts
  <2>4. mishaps' \in 0..MaxMishaps
    BY <1>13, <1>t DEF Flush, Mishap
  <2> QED
    BY <1>13, <1>t, <2>2, <2>3, <2>4 DEF Flush, Go, LogSet, NetSet, Place
<1>14. CASE FlushNothing
  <2>1. log' \in LogSet
    BY <1>14, <1>t DEF FlushNothing, Mishap, Go, LogSet, Verdict
  <2>2. net' \in NetSet
    BY <1>14, <1>t DEF FlushNothing, Mishap, Go, LogSet, NetSet, Place, Working, Verdict
  <2>3. mishaps' \in 0..MaxMishaps
    BY <1>14, <1>t DEF FlushNothing, Mishap, disk
  <2>4. (net'.at = "staging") <=> (prepared' # None)
    BY <1>14, <1>t DEF FlushNothing, Go, NetSet
  <2> QED
    BY <1>14, <2>1, <2>2, <2>3, <2>4, <1>t DEF FlushNothing, disk
<1>15. CASE Fallback
  <2>1. net.result \in Verdict /\ prepared' = Prepare(net.result)
    BY <1>15, <1>t DEF Fallback, NetSet, IInv, VerdictInv
  <2>2. prepared' \in [seq : Nat \ {0}, verdict : Verdict, lines : Nat]
    BY <2>1, PreparedHere
  <2>3. prepared' # None
    BY <2>2, NoneFacts
  <2> QED
    BY <1>15, <1>t, <2>2, <2>3 DEF Fallback, LogSet, NetSet, Place
<1>16. CASE StagedCommit
  <2>1. /\ net.at = "staging" /\ (Refused(Thrown) \/ Stored(prepared)) /\ prepared' = None
        /\ UNCHANGED <<up, aborted, disclosed>>
    BY <1>16, StagedOutcome
  <2>2. Thrown \in {"escaped", "caught"}
    BY DEF Thrown
  <2>3. CASE Refused(Thrown)
    <3>1. log' \in LogSet
      BY <2>3, <1>t DEF Refused, LogSet
    <3>2. net' \in NetSet /\ net'.at # "staging"
      BY <2>2, <2>3, <1>t DEF Refused, NetSet, Place
    <3> QED
      BY <2>1, <2>3, <3>1, <3>2, <1>t DEF Refused
  <2>4. CASE Stored(prepared)
    <3>1. log' \in LogSet
      BY <2>4, <1>t, LogFacts DEF Stored
    <3>2. net' \in NetSet /\ net'.at # "staging"
      BY <2>4, <1>t DEF Stored, NetSet, Place
    <3>3. mishaps' \in 0..MaxMishaps
      BY <2>4 DEF Stored
    <3> QED
      BY <2>1, <3>1, <3>2, <3>3, <1>t
  <2> QED
    BY <2>1, <2>3, <2>4
<1>17. CASE CatchHeld
  <2>1. log' \in LogSet
    BY <1>17, <1>t DEF CatchHeld, LogSet, Verdict
  <2>2. net' \in NetSet
    BY <1>17, <1>t DEF CatchHeld, LogSet, NetSet, Place, Working, Verdict
  <2>3. mishaps' \in 0..MaxMishaps
    BY <1>17, <1>t DEF CatchHeld, disk
  <2>4. (net'.at = "staging") <=> (prepared' # None)
    BY <1>17, <1>t DEF CatchHeld, NetSet
  <2> QED
    BY <1>17, <2>1, <2>2, <2>3, <2>4, <1>t DEF CatchHeld, disk
<1>18. CASE CatchOther
  BY <1>18, <1>t DEF CatchOther, LogSet, NetSet, Place, Working, Verdict, disk
<1>19. CASE RescueHolds
  <2>1. /\ log' = [log EXCEPT !.held = RescueVerdict]
        /\ net' = [net EXCEPT !.at = "flush", !.result = RescueVerdict]
    BY <1>19 DEF RescueHolds, Hold
  <2>2. log' \in LogSet /\ net' \in NetSet
    BY <2>1, <1>t, RescueVerdicts DEF LogSet, NetSet, Place, Working
  <2> QED
    BY <1>19, <2>1, <2>2, <1>t DEF RescueHolds, NetSet
<1>20. CASE RescueCommits
  <2>1. /\ net.at = "rescue" /\ UNCHANGED <<up, aborted, disclosed, prepared>>
        /\ Refused("escaped") \/ Stored(Prepare(RescueVerdict))
    BY <1>20, RescueOutcome
  <2>2. CASE Refused("escaped")
    BY <2>1, <2>2, <1>t DEF Refused, LogSet, NetSet, Place
  <2>3. CASE Stored(Prepare(RescueVerdict))
    <3>1. log' \in LogSet
      BY <2>3, <1>t, LogFacts DEF Stored
    <3>2. net' \in NetSet /\ net'.at # "staging"
      BY <2>3, <1>t DEF Stored, NetSet, Place
    <3>3. mishaps' \in 0..MaxMishaps
      BY <2>3 DEF Stored
    <3> QED
      BY <2>1, <3>1, <3>2, <3>3, <1>t
  <2> QED
    BY <2>1, <2>2, <2>3
<1>21. CASE RescueRefused
  BY <1>21, <1>t DEF RescueRefused, Go, LogSet, NetSet, Place, Working, Verdict, disk
<1>22. CASE JobReturns
  BY <1>22, <1>t DEF JobReturns, Go, LogSet, NetSet, Place, Working, Verdict
<1>23. CASE JobThrows
  BY <1>23, <1>t DEF JobThrows, Go, LogSet, NetSet, Place, Working, Verdict
<1>24. CASE JobRecovers
  <2>1. sql # None /\ UNCHANGED sql
    BY <1>24 DEF JobRecovers, IInv, AuthorityInv
  <2>2. (Repair(sql) /\ mishaps' = mishaps) \/ RepairFails(sql)
    BY <1>24 DEF JobRecovers
  <2>3. mishaps' \in 0..MaxMishaps
    BY <2>1, <2>2, RepairedLater
  <2> QED
    BY <1>24, <2>3, <1>t DEF JobRecovers, Go, NetSet, Place
<1>25. CASE Restart
  <2>1. UNCHANGED <<sql, log, prepared, net, aborted>> /\ up' = TRUE
    BY <1>25 DEF Restart
  <2>2. CASE ob = "none"
    BY <1>25, <2>1, <2>2, <1>t DEF Restart
  <2>3. CASE ob # "none"
    <3>1. sql # None
      BY <2>3 DEF IInv, DiskTypes
    <3>2. (Repair(sql) /\ mishaps' = mishaps) \/ RepairFails(sql)
      BY <1>25, <2>3 DEF Restart
    <3>3. mishaps' \in 0..MaxMishaps /\ disclosed' \in BOOLEAN
      BY <1>25, <1>t, <2>1, <2>3, <3>1, <3>2, RepairedLater DEF Restart
    <3> QED
      BY <2>1, <3>3, <1>t
  <2> QED
    BY <2>2, <2>3
<1>26. CASE Crash
  <2>1. log' \in LogSet
    BY <1>26, <1>t DEF Crash, Mishap, LogSet, NoLog, Verdict
  <2>2. net' \in NetSet
    BY <1>26, <1>t DEF Crash, Mishap, LogSet, NetSet, Place, Working, NoNet, Verdict
  <2>3. mishaps' \in 0..MaxMishaps
    BY <1>26, <1>t DEF Crash, Mishap, disk
  <2>4. (net'.at = "staging") <=> (prepared' # None)
    BY <1>26, <1>t DEF Crash, NoNet, NetSet
  <2> QED
    BY <1>26, <2>1, <2>2, <2>3, <2>4, <1>t DEF Crash, disk
<1> QED
  BY <1>u, <1>1, <1>2, <1>3, <1>4, <1>5, <1>6, <1>7, <1>8, <1>9, <1>10, <1>11, <1>12, <1>13,
     <1>14, <1>15, <1>16, <1>17, <1>18, <1>19, <1>20, <1>21, <1>22, <1>23, <1>24, <1>25,
     <1>26 DEF Next, Barriers, Ending, Recovery

\* What such an action does to the log and to the place of the net.
LEMMA QuietProcess ==
    ASSUME IInv, Quiet
    PROVE  /\ log'.live =>
                log.live /\ log'.poisoned = log.poisoned /\ log'.next = log.next
           /\ log'.check => log.check
           /\ log'.live \/ ~log.live \/ sql # None \/ net'.at = "gone"
           /\ \/ net'.at = net.at \/ net'.at = "gone"
              \/ net.at \notin Over /\ net'.at \notin Over
<1>t. log \in LogSet /\ net \in NetSet
  BY DEF IInv, ProcessTypes
<1>1. CASE LateCheck
  <2>1. /\ UNCHANGED net
        /\ log' = [log EXCEPT !.check = FALSE, !.live = log.live /\ ~TerminalInFile]
        /\ log.check
    BY <1>1 DEF LateCheck
  <2>2. sql # None
    BY <2>1 DEF IInv, AuthorityInv
  <2> QED
    BY <2>1, <2>2, <1>t DEF LogSet
<1>2. CASE Abort
  BY <1>2, <1>t DEF Abort, Over, LogSet, NetSet
<1>3. CASE StrategyHolds
  BY <1>3, <1>t DEF StrategyHolds, Over, LogSet, NetSet, Hold
<1>4. CASE StrategyReturns
  BY <1>4, <1>t DEF StrategyReturns, Over, LogSet, NetSet
<1>5. CASE StrategyThrows
  BY <1>5, <1>t DEF StrategyThrows, Over, LogSet, NetSet, Go
<1>6. CASE BarrierHolds
  BY <1>6, <1>t DEF BarrierHolds, Over, LogSet, NetSet, Hold
<1>7. CASE BarrierFails
  <2>1. log' = log \/ log' = [log EXCEPT !.held = None]
    BY <1>7 DEF BarrierFails
  <2>2. net.at \notin Over /\ net'.at \notin Over
    BY <1>7, <1>t DEF BarrierFails, Over, NetSet
  <2> QED
    BY <2>1, <2>2, <1>t DEF LogSet
<1>8. CASE ReconcileFails
  BY <1>8, <1>t DEF ReconcileFails, Over, LogSet, NetSet
<1>9. CASE HeldBarrierHolds
  BY <1>9, <1>t DEF HeldBarrierHolds, Over, LogSet, NetSet
<1>10. CASE RescueBarrierHolds
  BY <1>10, <1>t DEF RescueBarrierHolds, Over, LogSet, NetSet
<1>11. CASE Flush
  BY <1>11, <1>t DEF Flush, Over, LogSet, NetSet, Go
<1>12. CASE FlushNothing
  BY <1>12, <1>t DEF FlushNothing, Over, LogSet, NetSet, Go
<1>13. CASE Fallback
  BY <1>13, <1>t DEF Fallback, Over, LogSet, NetSet
<1>14. CASE CatchHeld
  BY <1>14, <1>t DEF CatchHeld, Over, LogSet, NetSet
<1>15. CASE CatchOther
  BY <1>15, <1>t DEF CatchOther, Over, LogSet, NetSet
<1>16. CASE RescueHolds
  BY <1>16, <1>t DEF RescueHolds, Over, LogSet, NetSet, Hold
<1>17. CASE RescueRefused
  BY <1>17, <1>t DEF RescueRefused, Over, LogSet, NetSet, Go
<1>18. CASE Crash
  BY <1>18, <1>t DEF Crash, NoLog, NoNet
<1> QED
  BY <1>1, <1>2, <1>3, <1>4, <1>5, <1>6, <1>7, <1>8, <1>9, <1>10, <1>11, <1>12, <1>13,
     <1>14, <1>15, <1>16, <1>17, <1>18 DEF Quiet, Barriers

\* Steps keep who may write the file.
LEMMA AuthorityKept ==
    ASSUME IInv, [Next]_vars, ProcessTypes', WellFormedLog', DiskTypes'
    PROVE  AuthorityInv'
<1>t. log \in LogSet /\ net \in NetSet /\ log' \in LogSet /\ net' \in NetSet
  BY DEF IInv, ProcessTypes
<1>a. /\ torn => sql # None /\ ~TerminalInFile
      /\ net.at \notin Over => log.live /\ sql = None
      /\ net.at \in {"returned", "recovery"} => sql # None
      /\ sql # None /\ log.live => log.poisoned
      /\ log.check => sql # None
      /\ sql = None /\ log.live => \A i \in 1..Len(file) : file[i].seq < log.next
  BY DEF IInv, AuthorityInv
<1>l. file \in Seq(LineSet) /\ Len(file) \in Nat
      /\ \A i \in 1..Len(file) : file[i].seq \in Nat
  BY Lines DEF IInv, DiskTypes
<1>w. Written
  BY StepWrites
<1>s. /\ sql' = None /\ log'.live /\ file' = file /\ sql = None /\ log.live
           /\ log'.next = log.next
        => \A i \in 1..Len(file') : file'[i].seq < log'.next
  BY <1>a
<1>v. file' = file => (TerminalInFile' <=> TerminalInFile)
  BY DEF TerminalInFile
<1>u. CASE UNCHANGED vars
  BY <1>u, <1>a, <1>s, <1>v DEF vars, disk, AuthorityInv
<1>q. CASE Quiet
  <2>1. file' = file /\ torn' = torn /\ sql' = sql
    BY <1>q, QuietDisk DEF disk
  <2> QED
    BY <1>q, <2>1, QuietProcess, <1>a, <1>s, <1>v, <1>t DEF AuthorityInv, LogSet, Over
<1>1. CASE Progress
  <2>1. /\ file' = Append(file, Event(log.next, "event")) /\ torn' = FALSE
        /\ sql = None /\ log.live
        /\ log' = [log EXCEPT !.next = log.next + 1] /\ UNCHANGED <<sql, net>>
    BY <1>1, EmitFits DEF Progress
  <2>2. \A i \in 1..Len(file') : file'[i].seq < log'.next
    <3>0. /\ Event(log.next, "event").seq = log.next
          /\ Event(log.next, "event") \in LineSet /\ log.next \in Nat
      BY <1>t DEF Event, Line, LineSet, LogSet
    <3>1. log'.next = log.next + 1
      BY <2>1, <1>t DEF LogSet
    <3>2. /\ \A i \in 1..Len(file) : file'[i] = file[i] /\ file[i].seq < log.next
          /\ file'[Len(file) + 1] = Event(log.next, "event")
          /\ \A i \in 1..Len(file') : i \in 1..Len(file) \/ i = Len(file) + 1
      BY <2>1, <1>a, <1>l, <3>0, AppendedLines
    <3> QED
      BY <3>0, <3>1, <3>2, <1>l
  <2> QED
    BY <2>1, <2>2, <1>a, <1>t DEF AuthorityInv, LogSet
<1>2. CASE Audit
  <2>1. CASE log.live /\ ~Released
    <3>1. /\ file' = Append(file, Event(log.next, "audit")) /\ torn' = FALSE
          /\ sql = None /\ log.live
          /\ log' = [log EXCEPT !.next = log.next + 1] /\ UNCHANGED <<sql, net>>
      <4>1. ~log.poisoned /\ EmitLine("audit") /\ UNCHANGED <<sql, net>>
        BY <1>2, <2>1 DEF Audit
      <4> QED
        BY <2>1, <4>1, EmitFits
    <3>2. \A i \in 1..Len(file') : file'[i].seq < log'.next
      <4>0. /\ Event(log.next, "audit").seq = log.next
            /\ Event(log.next, "audit") \in LineSet /\ log.next \in Nat
        BY <1>t DEF Event, Line, LineSet, LogSet
      <4>1. log'.next = log.next + 1
        BY <3>1, <1>t DEF LogSet
      <4>2. /\ \A i \in 1..Len(file) : file'[i] = file[i] /\ file[i].seq < log.next
            /\ file'[Len(file) + 1] = Event(log.next, "audit")
            /\ \A i \in 1..Len(file') : i \in 1..Len(file) \/ i = Len(file) + 1
        BY <3>1, <1>a, <1>l, <4>0, AppendedLines
      <4> QED
        BY <4>0, <4>1, <4>2, <1>l
    <3> QED
      BY <3>1, <3>2, <1>a, <1>t DEF AuthorityInv, LogSet
  <2>2. CASE ~(log.live /\ ~Released)
    <3>1. /\ AppendLine(Event(LastSeqInFile + 1, "audit")) /\ UNCHANGED <<sql, net>>
          /\ log' = [log EXCEPT !.live = FALSE]
      BY <1>2, <2>2 DEF Audit
    <3>2. torn' = FALSE
      BY <3>1 DEF AppendLine
    <3>3. net.at \in Over
      <4>1. ~log.live \/ TerminalInFile
        BY <2>2 DEF Released
      <4>2. TerminalInFile => sql # None
        BY DEF IInv, WellFormedLog, TerminalInFile
      <4> QED
        BY <4>1, <4>2, <1>a
    <3> QED
      BY <3>1, <3>2, <3>3, <1>a, <1>t DEF AuthorityInv, LogSet
  <2> QED
    BY <2>1, <2>2
<1>3. CASE StagedCommit
  <2>1. net.at \notin Over /\ (Refused(Thrown) \/ Stored(prepared))
    BY <1>3, StagedOutcome DEF Over
  <2>2. sql = None /\ log.live
    BY <2>1, Live
  <2>3. CASE Refused(Thrown)
    <3>1. UNCHANGED disk /\ net'.at \in {"escaped", "caught"}
      BY <2>1, <2>3, <1>t DEF Refused, Thrown, NetSet
    <3>2. log'.live = log.live /\ log'.next = log.next /\ log'.check = log.check
      BY <2>3, <1>t DEF Refused, LogSet
    <3>3. sql' = None /\ file' = file /\ torn' = torn
      BY <2>2, <3>1 DEF disk
    <3> QED
      BY <2>2, <3>1, <3>2, <3>3, <1>a, <1>s, <1>v DEF AuthorityInv, Over
  <2>4. CASE Stored(prepared)
    <3>1. sql' # None
      BY <2>4 DEF Stored
    <3>2. net'.at \in {"returned", "recovery"}
      BY <2>4, <1>t DEF Stored, NetSet
    <3>3. ~log'.live \/ log'.poisoned
      BY <2>4, <1>t DEF Stored, LogSet
    <3>4. torn' => ~TerminalInFile'
      BY <2>2, <2>4, <1>a, <1>v DEF Stored
    <3> QED
      BY <3>1, <3>2, <3>3, <3>4 DEF AuthorityInv, Over
  <2> QED
    BY <2>1, <2>3, <2>4
<1>4. CASE RescueCommits
  <2>1. net.at \notin Over /\ (Refused("escaped") \/ Stored(Prepare(RescueVerdict)))
    BY <1>4, RescueOutcome DEF Over
  <2>2. sql = None /\ log.live
    BY <2>1, Live
  <2>3. CASE Refused("escaped")
    <3>1. UNCHANGED disk /\ net'.at \in {"escaped", "caught"}
      BY <2>1, <2>3, <1>t DEF Refused, Thrown, NetSet
    <3>2. log'.live = log.live /\ log'.next = log.next /\ log'.check = log.check
      BY <2>3, <1>t DEF Refused, LogSet
    <3>3. sql' = None /\ file' = file /\ torn' = torn
      BY <2>2, <3>1 DEF disk
    <3> QED
      BY <2>2, <3>1, <3>2, <3>3, <1>a, <1>s, <1>v DEF AuthorityInv, Over
  <2>4. CASE Stored(Prepare(RescueVerdict))
    <3>1. sql' # None
      BY <2>4 DEF Stored
    <3>2. net'.at \in {"returned", "recovery"}
      BY <2>4, <1>t DEF Stored, NetSet
    <3>3. ~log'.live \/ log'.poisoned
      BY <2>4, <1>t DEF Stored, LogSet
    <3>4. torn' => ~TerminalInFile'
      BY <2>2, <2>4, <1>a, <1>v DEF Stored
    <3> QED
      BY <3>1, <3>2, <3>3, <3>4 DEF AuthorityInv, Over
  <2> QED
    BY <2>1, <2>3, <2>4
<1>5. CASE JobReturns
  BY <1>5, <1>a, <1>t, <1>s, <1>v DEF JobReturns, Go, AuthorityInv, Over, LogSet, NetSet
<1>6. CASE JobThrows
  BY <1>6, <1>a, <1>t, <1>s, <1>v DEF JobThrows, Go, AuthorityInv, Over, LogSet, NetSet
<1>7. CASE JobRecovers
  <2>1. sql # None /\ UNCHANGED sql
    BY <1>7, <1>a DEF JobRecovers
  <2>2. (Repair(sql) /\ mishaps' = mishaps) \/ RepairFails(sql)
    BY <1>7 DEF JobRecovers
  <2>3. torn' = FALSE \/ (file' = file /\ (torn' = torn \/ (torn' = TRUE /\ ~TerminalInFile)))
    BY <2>1, <2>2, RepairedLater
  <2>4. torn' => ~TerminalInFile'
    BY <2>3, <1>a, <1>v
  <2> QED
    BY <1>7, <2>1, <2>4, <1>a, <1>t DEF JobRecovers, Go, AuthorityInv, Over, NetSet
<1>8. CASE Restart
  <2>1. UNCHANGED <<sql, log, net>>
    BY <1>8 DEF Restart
  <2>2. CASE ob = "none"
    BY <1>8, <2>1, <2>2, <1>a, <1>s, <1>v DEF Restart, AuthorityInv
  <2>3. CASE ob # "none"
    <3>1. sql # None
      BY <2>3 DEF IInv, DiskTypes
    <3>2. (Repair(sql) /\ mishaps' = mishaps) \/ RepairFails(sql)
      BY <1>8, <2>3 DEF Restart
    <3>3. torn' = FALSE \/ (file' = file /\ (torn' = torn \/ (torn' = TRUE /\ ~TerminalInFile)))
      BY <2>1, <3>1, <3>2, RepairedLater
    <3> QED
      BY <2>1, <3>1, <3>3, <1>a, <1>v DEF AuthorityInv
  <2> QED
    BY <2>2, <2>3
<1> QED
  BY <1>u, <1>q, <1>1, <1>2, <1>3, <1>4, <1>5, <1>6, <1>7, <1>8 DEF Next, Barriers, Ending,
     Recovery, Quiet

\* Steps keep what the rollback boundary of a staged terminal stands for.
LEMMA StageKept == ASSUME IInv, [Next]_vars PROVE StageInv'
<1>t. log \in LogSet /\ net \in NetSet /\ (net.at = "staging" <=> prepared # None)
  BY DEF IInv, ProcessTypes
<1>a. /\ prepared # None => sql = None /\ log.live /\ prepared.seq \in Nat
                               /\ prepared.seq <= log.next
                               /\ (prepared.seq = log.next => prepared.lines = Len(file))
      /\ sql # None => prepared = None
  BY <1>t DEF IInv, ProcessTypes, StageInv, AuthorityInv, Over
<1>b. prepared' = None \/ (file' = file /\ prepared' = prepared /\ log'.next = log.next)
        => StageInv'
  BY <1>a DEF StageInv
<1>u. CASE UNCHANGED vars
  BY <1>u, <1>b DEF vars, disk
<1>1. CASE Progress
  BY <1>1, <1>t, <1>b DEF Progress, Working
<1>2. CASE Audit
  <2>0. UNCHANGED prepared
    BY <1>2 DEF Audit
  <2>1. CASE prepared = None
    BY <2>0, <2>1, <1>b
  <2>2. CASE prepared # None
    <3>1. log.live /\ ~Released
      BY <2>2, <1>a DEF Released, TerminalInFile, IInv, WellFormedLog
    <3>2. log' = [log EXCEPT !.next = log.next + 1]
      BY <1>2, <3>1 DEF Audit, EmitLine
    <3>3. log'.next = log.next + 1 /\ log.next \in Nat
      BY <3>2, <1>t DEF LogSet
    <3> QED
      BY <2>0, <2>2, <3>3, <1>a DEF StageInv
  <2> QED
    BY <2>1, <2>2
<1>3. CASE LateCheck
  <2>1. sql # None /\ UNCHANGED prepared
    BY <1>3 DEF LateCheck, IInv, AuthorityInv
  <2> QED
    BY <2>1, <1>a, <1>b
<1>4. CASE Abort
  BY <1>4, <1>b DEF Abort, disk
<1>5. CASE StrategyHolds
  BY <1>5, <1>t, <1>b DEF StrategyHolds
<1>6. CASE StrategyReturns
  BY <1>6, <1>t, <1>b DEF StrategyReturns
<1>7. CASE StrategyThrows
  BY <1>7, <1>t, <1>b DEF StrategyThrows
<1>8. CASE BarrierHolds
  BY <1>8, <1>t, <1>b DEF BarrierHolds
<1>9. CASE BarrierFails
  BY <1>9, <1>t, <1>b DEF BarrierFails
<1>10. CASE ReconcileFails
  BY <1>10, <1>t, <1>b DEF ReconcileFails
<1>11. CASE HeldBarrierHolds
  BY <1>11, <1>t, <1>b DEF HeldBarrierHolds
<1>12. CASE RescueBarrierHolds
  BY <1>12, <1>t, <1>b DEF RescueBarrierHolds
<1>13. CASE Flush
  <2>1. /\ log.held \in Verdict
        /\ prepared' = Prepare(log.held) \/ prepared' = PrepareFailure(log.held)
    BY <1>13, <1>t DEF Flush, IInv, ProcessTypes, VerdictInv, LogSet, NetSet
  <2>2. prepared'.seq = log.next /\ prepared'.lines = Len(file) /\ log.next \in Nat
    BY <2>1, <1>t, PreparedHere DEF LogSet
  <2>3. file' = file /\ log'.next = log.next
    BY <1>13, <1>t DEF Flush, disk, LogSet
  <2> QED
    BY <2>2, <2>3 DEF StageInv
<1>14. CASE FlushNothing
  BY <1>14, <1>t, <1>b DEF FlushNothing
<1>15. CASE Fallback
  <2>1. /\ net.result \in Verdict
        /\ prepared' = Prepare(net.result)
    BY <1>15, <1>t DEF Fallback, IInv, ProcessTypes, VerdictInv, LogSet, NetSet
  <2>2. prepared'.seq = log.next /\ prepared'.lines = Len(file) /\ log.next \in Nat
    BY <2>1, <1>t, PreparedHere DEF LogSet
  <2>3. file' = file /\ log'.next = log.next
    BY <1>15, <1>t DEF Fallback, disk, LogSet
  <2> QED
    BY <2>2, <2>3 DEF StageInv
<1>16. CASE StagedCommit
  BY <1>16, <1>b, StagedOutcome
<1>17. CASE CatchHeld
  BY <1>17, <1>t, <1>b DEF CatchHeld
<1>18. CASE CatchOther
  BY <1>18, <1>t, <1>b DEF CatchOther
<1>19. CASE RescueHolds
  BY <1>19, <1>t, <1>b DEF RescueHolds
<1>20. CASE RescueCommits
  BY <1>20, <1>b, <1>t, RescueOutcome
<1>21. CASE RescueRefused
  BY <1>21, <1>t, <1>b DEF RescueRefused
<1>22. CASE JobReturns
  BY <1>22, <1>t, <1>b DEF JobReturns
<1>23. CASE JobThrows
  BY <1>23, <1>t, <1>b DEF JobThrows
<1>24. CASE JobRecovers
  BY <1>24, <1>t, <1>b DEF JobRecovers
<1>25. CASE Restart
  <2>1. UNCHANGED <<prepared, log>>
    BY <1>25 DEF Restart
  <2>2. CASE ob = "none"
    BY <1>25, <2>1, <2>2, <1>b DEF Restart
  <2>3. CASE ob # "none"
    <3>1. sql # None
      BY <2>3 DEF IInv, DiskTypes
    <3> QED
      BY <2>1, <3>1, <1>a, <1>b
  <2> QED
    BY <2>2, <2>3
<1>26. CASE Crash
  BY <1>26, <1>t, <1>b DEF Crash
<1> QED
  BY <1>u, <1>1, <1>2, <1>3, <1>4, <1>5, <1>6, <1>7, <1>8, <1>9, <1>10, <1>11, <1>12, <1>13,
     <1>14, <1>15, <1>16, <1>17, <1>18, <1>19, <1>20, <1>21, <1>22, <1>23, <1>24, <1>25,
     <1>26 DEF Next, Barriers, Ending, Recovery

\* Steps keep what is known of verdicts.
LEMMA VerdictKept == ASSUME IInv, [Next]_vars PROVE VerdictInv'
<1>t. log \in LogSet /\ net \in NetSet /\ None \notin Verdict /\ aborted \in BOOLEAN
  BY NoneFacts DEF IInv, ProcessTypes
<1>a. /\ net.at \in {"barrier", "flush", "held", "fallback"} => net.result # None
      /\ log.held = "cancelled" \/ net.result = "cancelled" => aborted
      /\ net.at \in {"staging", "fallback"} => ~log.defers
      /\ net.at \in {"strategy", "barrier", "held", "rescueBarrier"} => net.barrier = "todo"
      /\ net.at = "strategy" => net.ended = None
  BY DEF IInv, VerdictInv
<1>u. CASE UNCHANGED vars
  BY <1>u, <1>a DEF vars, VerdictInv
<1>1. CASE Progress
  BY <1>1, <1>t, <1>a, NoneAssumption DEF VerdictInv, Progress, NetSet, LogSet, EmitLine,
     Working, Verdict
<1>2. CASE Audit
  BY <1>2, <1>t, <1>a, NoneAssumption DEF VerdictInv, Audit, NetSet, LogSet, EmitLine,
     Verdict
<1>3. CASE LateCheck
  BY <1>3, <1>t, <1>a, NoneAssumption DEF VerdictInv, LateCheck, NetSet, LogSet, Verdict
<1>4. CASE Abort
  BY <1>4, <1>t, <1>a, NoneAssumption DEF VerdictInv, Abort, NetSet, LogSet, Working,
     Verdict
<1>5. CASE StrategyHolds
  BY <1>5, <1>t, <1>a, NoneAssumption DEF VerdictInv, StrategyHolds, Hold, NetSet, LogSet,
     Verdict
<1>6. CASE StrategyReturns
  BY <1>6, <1>t, <1>a, NoneAssumption DEF VerdictInv, StrategyReturns, NetSet, LogSet,
     Verdict
<1>7. CASE StrategyThrows
  BY <1>7, <1>t, <1>a, NoneAssumption DEF VerdictInv, StrategyThrows, Go, NetSet, LogSet,
     Verdict
<1>8. CASE BarrierHolds
  BY <1>8, <1>t, <1>a, NoneAssumption DEF VerdictInv, BarrierHolds, Hold, NetSet, LogSet,
     AfterDrain, Verdict
<1>9. CASE BarrierFails
  BY <1>9, <1>t, <1>a, NoneAssumption DEF VerdictInv, BarrierFails, NetSet, LogSet, Verdict
<1>10. CASE ReconcileFails
  BY <1>10, <1>t, <1>a, NoneAssumption DEF VerdictInv, ReconcileFails, NetSet, LogSet,
     Verdict
<1>11. CASE HeldBarrierHolds
  BY <1>11, <1>t, <1>a, NoneAssumption DEF VerdictInv, HeldBarrierHolds, NetSet, LogSet,
     Verdict
<1>12. CASE RescueBarrierHolds
  BY <1>12, <1>t, <1>a, NoneAssumption DEF VerdictInv, RescueBarrierHolds, NetSet, LogSet,
     Verdict
<1>13. CASE Flush
  BY <1>13, <1>t, <1>a, NoneAssumption DEF VerdictInv, Flush, Go, NetSet, LogSet, Verdict
<1>14. CASE FlushNothing
  BY <1>14, <1>t, <1>a, NoneAssumption DEF VerdictInv, FlushNothing, Go, NetSet, LogSet,
     Verdict
<1>15. CASE Fallback
  BY <1>15, <1>t, <1>a, NoneAssumption DEF VerdictInv, Fallback, NetSet, LogSet, Verdict
<1>16. CASE StagedCommit
  <2>1. /\ Refused(Thrown) \/ Stored(prepared)
        /\ UNCHANGED aborted
    BY <1>16, StagedOutcome
  <2>2. log'.held = log.held
    BY <2>1, <1>t DEF Refused, Stored, LogSet
  <2>3. net'.result = net.result /\ net'.at \in {"escaped", "caught", "returned", "recovery"}
    BY <2>1, <1>t DEF Refused, Stored, NetSet, Thrown
  <2> QED
    BY <2>1, <2>2, <2>3, <1>a DEF VerdictInv
<1>17. CASE CatchHeld
  BY <1>17, <1>t, <1>a, NoneAssumption DEF VerdictInv, CatchHeld, NetSet, LogSet, KeepsHeld,
     Verdict
<1>18. CASE CatchOther
  BY <1>18, <1>t, <1>a, NoneAssumption DEF VerdictInv, CatchOther, NetSet, LogSet,
     KeepsHeld, Verdict
<1>19. CASE RescueHolds
  <2>1. /\ log' = [log EXCEPT !.held = RescueVerdict] /\ UNCHANGED aborted
        /\ net' = [net EXCEPT !.at = "flush", !.result = RescueVerdict]
    BY <1>19 DEF RescueHolds, Hold
  <2>2. /\ log'.held = RescueVerdict /\ net'.at = "flush" /\ net'.result = RescueVerdict
    BY <2>1, <1>t DEF LogSet, NetSet
  <2> QED
    BY <2>1, <2>2, <1>t, RescueVerdicts DEF VerdictInv
<1>20. CASE RescueCommits
  <2>1. /\ Refused("escaped") \/ Stored(Prepare(RescueVerdict))
        /\ UNCHANGED aborted
    BY <1>20, RescueOutcome
  <2>2. log'.held = log.held
    BY <2>1, <1>t DEF Refused, Stored, LogSet
  <2>3. net'.result = net.result /\ net'.at \in {"escaped", "caught", "returned", "recovery"}
    BY <2>1, <1>t DEF Refused, Stored, NetSet, Thrown
  <2> QED
    BY <2>1, <2>2, <2>3, <1>a DEF VerdictInv
<1>21. CASE RescueRefused
  BY <1>21, <1>t, <1>a, NoneAssumption DEF VerdictInv, RescueRefused, Go, NetSet, LogSet,
     Verdict
<1>22. CASE JobReturns
  BY <1>22, <1>t, <1>a, NoneAssumption DEF VerdictInv, JobReturns, Go, NetSet, LogSet,
     Verdict
<1>23. CASE JobThrows
  BY <1>23, <1>t, <1>a, NoneAssumption DEF VerdictInv, JobThrows, Go, NetSet, LogSet,
     Verdict
<1>24. CASE JobRecovers
  BY <1>24, <1>t, <1>a, NoneAssumption DEF VerdictInv, JobRecovers, Go, NetSet, LogSet,
     Verdict
<1>25. CASE Restart
  BY <1>25, <1>t, <1>a, NoneAssumption DEF VerdictInv, Restart, NetSet, LogSet, Verdict
<1>26. CASE Crash
  BY <1>26, <1>t, <1>a, NoneAssumption DEF VerdictInv, Crash, NetSet, LogSet, NoNet, NoLog,
     Verdict
<1> QED
  BY <1>u, <1>1, <1>2, <1>3, <1>4, <1>5, <1>6, <1>7, <1>8, <1>9, <1>10, <1>11, <1>12, <1>13,
     <1>14, <1>15, <1>16, <1>17, <1>18, <1>19, <1>20, <1>21, <1>22, <1>23, <1>24, <1>25,
     <1>26 DEF Next, Barriers, Ending, Recovery

\* Steps keep the decision not to cancel.
LEMMA KeptKept == ASSUME IInv, [Next]_vars PROVE KeptInv'
<1>t. log \in LogSet /\ net \in NetSet /\ None \notin Verdict /\ aborted \in BOOLEAN
      /\ (net.at = "staging" <=> prepared # None) /\ None # "cancelled" /\ None # "kept"
  BY NoneFacts, NoneAssumption DEF IInv, ProcessTypes, Verdict
<1>a. /\ log.held = "cancelled" \/ net.result = "cancelled" => aborted
      /\ net.at \in {"staging", "fallback"} => ~log.defers
      /\ net.at \in {"barrier", "flush", "held", "fallback"} => net.result # None
      /\ net.at \in {"strategy", "barrier", "held", "rescueBarrier"} => net.barrier = "todo"
      /\ net.at = "strategy" => net.ended = None
  BY DEF IInv, VerdictInv
<1>k. KeptInv
  BY DEF IInv
<1>u. CASE UNCHANGED vars
  BY <1>u, <1>k DEF vars, KeptInv
<1>1. CASE Progress
  BY <1>1, <1>t, <1>a, <1>k DEF KeptInv, Progress, NetSet, LogSet, EmitLine, Working
<1>2. CASE Audit
  BY <1>2, <1>t, <1>a, <1>k DEF KeptInv, Audit, NetSet, LogSet, EmitLine
<1>3. CASE LateCheck
  BY <1>3, <1>t, <1>a, <1>k DEF KeptInv, LateCheck, NetSet, LogSet
<1>4. CASE Abort
  BY <1>4, <1>t, <1>a, <1>k DEF KeptInv, Abort, NetSet, LogSet, Working
<1>5. CASE StrategyHolds
  BY <1>5, <1>t, <1>a, <1>k DEF KeptInv, StrategyHolds, Hold, NetSet, LogSet
<1>6. CASE StrategyReturns
  BY <1>6, <1>t, <1>a, <1>k DEF KeptInv, StrategyReturns, NetSet, LogSet
<1>7. CASE StrategyThrows
  BY <1>7, <1>t, <1>a, <1>k DEF KeptInv, StrategyThrows, Go, NetSet, LogSet
<1>8. CASE BarrierHolds
  BY <1>8, <1>t, <1>a, <1>k DEF KeptInv, BarrierHolds, Hold, NetSet, LogSet, AfterDrain
<1>9. CASE BarrierFails
  BY <1>9, <1>t, <1>a, <1>k DEF KeptInv, BarrierFails, NetSet, LogSet
<1>10. CASE ReconcileFails
  BY <1>10, <1>t, <1>a, <1>k DEF KeptInv, ReconcileFails, NetSet, LogSet
<1>11. CASE HeldBarrierHolds
  BY <1>11, <1>t, <1>a, <1>k DEF KeptInv, HeldBarrierHolds, NetSet, LogSet
<1>12. CASE RescueBarrierHolds
  BY <1>12, <1>t, <1>a, <1>k DEF KeptInv, RescueBarrierHolds, NetSet, LogSet
<1>13. CASE Flush
  <2>1. /\ net' = [net EXCEPT !.at = "staging"]
        /\ log' = [log EXCEPT !.held = None, !.defers = FALSE]
        /\ log.held \in Verdict
        /\ prepared' = Prepare(log.held) \/ prepared' = PrepareFailure(log.held)
    BY <1>13, <1>t DEF Flush, Go, LogSet
  <2>2. /\ net'.at = "staging" /\ net'.delegate = net.delegate /\ net'.ended = net.ended
        /\ net'.barrier = net.barrier /\ net'.result = net.result /\ log'.held = None
    BY <2>1, <1>t DEF LogSet, NetSet
  <2>3. ~net.delegate /\ net.ended = "kept" /\ prepared'.verdict = "cancelled"
          => log.held = "cancelled"
    <3>1. net.ended = "kept" => net.ended # None
      BY <1>13, <1>t, NoneAssumption
    <3> QED
      BY <2>1, <3>1, PreparedHere DEF Cancelled
  <2> QED
    BY <2>1, <2>2, <2>3, <1>t, <1>k DEF KeptInv
<1>14. CASE FlushNothing
  BY <1>14, <1>t, <1>a, <1>k DEF KeptInv, FlushNothing, Go, NetSet, LogSet
<1>15. CASE Fallback
  <2>1. /\ net' = [net EXCEPT !.at = "staging", !.rescue = TRUE] /\ log' = log
        /\ net.result \in Verdict /\ prepared' = Prepare(net.result)
    BY <1>15, <1>t, <1>a DEF Fallback, NetSet
  <2>2. /\ net'.at = "staging" /\ net'.delegate = net.delegate /\ net'.ended = net.ended
        /\ net'.barrier = net.barrier /\ net'.result = net.result
    BY <2>1, <1>t DEF NetSet
  <2>3. net.ended = "kept" /\ prepared'.verdict = "cancelled" => net.result = "cancelled"
    BY <2>1, NoneAssumption, PreparedHere DEF Cancelled
  <2> QED
    BY <2>1, <2>2, <2>3, <1>t, <1>k DEF KeptInv
<1>16. CASE StagedCommit
  <2>1. /\ Refused(Thrown) \/ Stored(prepared)
        /\ UNCHANGED aborted
    BY <1>16, StagedOutcome
  <2>2. log'.held = log.held /\ log'.defers = log.defers
    BY <2>1, <1>t DEF Refused, Stored, LogSet
  <2>3. /\ net'.at \in {"escaped", "caught", "returned", "recovery"}
        /\ net'.result = net.result /\ net'.barrier = net.barrier
        /\ net'.delegate = net.delegate /\ net'.ended = net.ended
    BY <2>1, <1>t DEF Refused, Stored, NetSet, Thrown
  <2>4. prepared' = None /\ (net'.at = "caught" => ~log.defers)
    BY <1>16, <2>1, <1>a, <1>t, StagedOutcome
  <2> QED
    BY <2>1, <2>2, <2>3, <2>4, <1>k DEF KeptInv
<1>17. CASE CatchHeld
  BY <1>17, <1>t, <1>a, <1>k DEF KeptInv, CatchHeld, NetSet, LogSet, KeepsHeld
<1>18. CASE CatchOther
  BY <1>18, <1>t, <1>a, <1>k DEF KeptInv, CatchOther, NetSet, LogSet, KeepsHeld
<1>19. CASE RescueHolds
  <2>1. /\ log' = [log EXCEPT !.held = RescueVerdict] /\ UNCHANGED <<aborted, prepared>>
        /\ net' = [net EXCEPT !.at = "flush", !.result = RescueVerdict]
        /\ log.defers /\ net.at = "rescue"
    BY <1>19 DEF RescueHolds, Hold
  <2>2. /\ net'.at = "flush" /\ net'.delegate = net.delegate /\ net'.ended = net.ended
        /\ net'.barrier = net.barrier
    BY <2>1, <1>t DEF LogSet, NetSet
  <2> QED
    BY <2>1, <2>2, <1>t, <1>k DEF KeptInv
<1>20. CASE RescueCommits
  <2>1. /\ Refused("escaped") \/ Stored(Prepare(RescueVerdict))
        /\ UNCHANGED aborted
    BY <1>20, RescueOutcome
  <2>2. log'.held = log.held /\ log'.defers = log.defers
    BY <2>1, <1>t DEF Refused, Stored, LogSet
  <2>3. /\ net'.at \in {"escaped", "caught", "returned", "recovery"}
        /\ net'.result = net.result /\ net'.barrier = net.barrier
        /\ net'.delegate = net.delegate /\ net'.ended = net.ended
    BY <2>1, <1>t DEF Refused, Stored, NetSet, Thrown
  <2>4. prepared' = None /\ (net'.at = "caught" => ~log.defers)
    BY <1>20, <2>1, <1>a, <1>t, RescueOutcome
  <2> QED
    BY <2>1, <2>2, <2>3, <2>4, <1>k DEF KeptInv
<1>21. CASE RescueRefused
  BY <1>21, <1>t, <1>a, <1>k DEF KeptInv, RescueRefused, Go, NetSet, LogSet
<1>22. CASE JobReturns
  BY <1>22, <1>t, <1>a, <1>k DEF KeptInv, JobReturns, Go, NetSet, LogSet
<1>23. CASE JobThrows
  BY <1>23, <1>t, <1>a, <1>k DEF KeptInv, JobThrows, Go, NetSet, LogSet
<1>24. CASE JobRecovers
  BY <1>24, <1>t, <1>a, <1>k DEF KeptInv, JobRecovers, Go, NetSet, LogSet
<1>25. CASE Restart
  BY <1>25, <1>t, <1>a, <1>k DEF KeptInv, Restart, NetSet, LogSet
<1>26. CASE Crash
  BY <1>26, <1>t, <1>a, <1>k DEF KeptInv, Crash, NetSet, LogSet, NoNet, NoLog
<1> QED
  BY <1>u, <1>1, <1>2, <1>3, <1>4, <1>5, <1>6, <1>7, <1>8, <1>9, <1>10, <1>11, <1>12, <1>13,
     <1>14, <1>15, <1>16, <1>17, <1>18, <1>19, <1>20, <1>21, <1>22, <1>23, <1>24, <1>25,
     <1>26 DEF Next, Barriers, Ending, Recovery

\* The announced run satisfies the invariant.
LEMMA InitInv == ASSUME Init PROVE IInv
<1>1. file = <<[seq |-> 1, kind |-> "event", verdict |-> None]>>
  BY DEF Init, Event, Line
<1>2. [seq |-> 1, kind |-> "event", verdict |-> None] \in LineSet
  BY DEF LineSet
<1>3. file \in Seq(LineSet) /\ Len(file) = 1 /\ DOMAIN file = 1..1 /\ file[1].seq = 1
      /\ file[1].kind = "event" /\ file[1].verdict = None
  BY <1>1, <1>2
<1>l. log = [live |-> TRUE, next |-> 2, defers |-> TRUE, held |-> None,
             poisoned |-> FALSE, check |-> FALSE]
  BY DEF Init, NoLog
<1>n. \E d \in BOOLEAN :
        net = [at |-> "strategy", delegate |-> d, barrier |-> "todo", ended |-> None,
               result |-> None, rescue |-> FALSE, foreign |-> FALSE]
  BY DEF Init, NoNet
<1>i. /\ torn = FALSE /\ sql = None /\ ob = "none" /\ job = [state |-> "running", code |-> None]
      /\ up = TRUE /\ disclosed = FALSE /\ aborted = FALSE /\ prepared = None /\ mishaps = 0
  BY DEF Init
<1>4. DiskTypes
  <2>1. \A i \in 1..Len(file) : file[i].kind = "event" /\ file[i].verdict = None
    BY <1>3
  <2>2. job \in [state : Verdict \cup {"running", "interrupted"},
                code : {None, "terminal_recovery_required"}]
    BY <1>i
  <2> QED
    BY <1>3, <1>i, <2>1, <2>2 DEF DiskTypes
<1>5. ProcessTypes
  <2>1. log \in LogSet /\ net \in NetSet /\ net.at = "strategy"
    BY <1>l, <1>n DEF LogSet, NetSet, Place, Working
  <2> QED
    <3>1. MaxMishaps \in Nat
      BY BoundAssumption
    <3>2. mishaps \in 0..MaxMishaps
      BY <1>i, <3>1
    <3> QED
      BY <2>1, <1>i, <3>2 DEF ProcessTypes
<1>6. ~TerminalInFile
  BY <1>3 DEF TerminalInFile
<1>7. WellFormedLog
  BY <1>3 DEF WellFormedLog, Follows
<1>8. SortedInv
  BY <1>3 DEF SortedInv
<1>9. AuthorityInv
  <2>1. \A i \in 1..Len(file) : file[i].seq < log.next
    BY <1>3, <1>l
  <2>2. net.at = "strategy" /\ log.live /\ ~log.check
    BY <1>l, <1>n
  <2> QED
    BY <1>i, <2>1, <2>2 DEF AuthorityInv
<1>10. StageInv
  BY DEF Init, StageInv
<1>11. VerdictInv
  BY <1>l, <1>n, NoneAssumption DEF VerdictInv, Verdict
<1>12. KeptInv
  BY <1>n, NoneAssumption DEF KeptInv
<1> QED
  BY <1>4, <1>5, <1>7, <1>8, <1>9, <1>10, <1>11, <1>12 DEF IInv

\* Every reachable state satisfies the invariant.
THEOREM RunInvariant == Spec => []IInv
<1>1. Init => IInv
  BY InitInv
<1>2. IInv /\ [Next]_vars => IInv'
  <2> SUFFICES ASSUME IInv, [Next]_vars PROVE IInv'
    OBVIOUS
  <2>1. DiskTypes' /\ ProcessTypes'
    BY DiskTypesKept, ProcessTypesKept
  <2>2. WellFormedLog' /\ SortedInv'
    BY StepWrites, FileKept
  <2>3. AuthorityInv'
    BY <2>1, <2>2, AuthorityKept
  <2>4. StageInv' /\ VerdictInv' /\ KeptInv'
    BY StageKept, VerdictKept, KeptKept
  <2> QED
    BY <2>1, <2>2, <2>3, <2>4 DEF IInv
<1> QED
  BY <1>1, <1>2, PTL DEF Spec

\* Every state is well typed.
THEOREM TypesAreCorrect == Spec => []TypeOK
<1>1. IInv => TypeOK
  <2> SUFFICES ASSUME IInv PROVE TypeOK
    OBVIOUS
  <2>1. /\ file \in Seq(LineSet) /\ DOMAIN file = 1..Len(file)
        /\ log \in LogSet /\ net \in NetSet
    BY DEF IInv, DiskTypes, ProcessTypes
  <2>2. ASSUME NEW i \in DOMAIN file
        PROVE  /\ file[i].seq \in Nat \ {0}
               /\ file[i].kind \in {"event", "audit", "terminal", "malformed"}
               /\ file[i].verdict \in (IF file[i].kind = "terminal" THEN Verdict ELSE {None})
    <3>1. file[i] \in LineSet
      BY <2>1, <2>2
    <3>2. IF file[i].kind = "terminal" THEN file[i].verdict \in Verdict
          ELSE file[i].verdict = None
      BY <2>1, <2>2 DEF IInv, DiskTypes
    <3> QED
      BY <3>1, <3>2 DEF LineSet
  <2>3. /\ sql # None => sql.verdict \in Verdict /\ sql.seq \in Nat
        /\ ob \in {"none", "pending", "materialized"} /\ (sql = None) = (ob = "none")
        /\ job.state \in Verdict \cup {"running", "interrupted"}
        /\ job.code \in {None, "terminal_recovery_required"}
        /\ torn \in BOOLEAN
    BY DEF IInv, DiskTypes
  <2>4. /\ up \in BOOLEAN /\ aborted \in BOOLEAN /\ disclosed \in BOOLEAN
        /\ (net.at = "staging") = (prepared # None)
        /\ mishaps \in 0..MaxMishaps
    BY DEF IInv, ProcessTypes
  <2>5. /\ log.live \in BOOLEAN /\ log.defers \in BOOLEAN /\ log.poisoned \in BOOLEAN
        /\ log.check \in BOOLEAN
        /\ log.held \in Verdict \cup {None} /\ log.next \in Nat
    BY <2>1 DEF LogSet
  <2>6. /\ net.delegate \in BOOLEAN /\ net.rescue \in BOOLEAN /\ net.foreign \in BOOLEAN
        /\ net.at \in Place /\ net.barrier \in {"todo", "ok", "failed"}
        /\ net.ended \in {None, "kept", "aborted"} /\ net.result \in Verdict \cup {None}
    BY <2>1 DEF NetSet
  <2>7. {torn, up, aborted, disclosed, log.live, log.defers, log.poisoned, log.check,
         net.delegate, net.rescue, net.foreign} \subseteq BOOLEAN
    BY <2>3, <2>4, <2>5, <2>6
  <2> QED
    BY <2>2, <2>3, <2>4, <2>5, <2>6, <2>7 DEF TypeOK
<1> QED
  BY <1>1, RunInvariant, PTL

\* Whatever fails and whenever the process restarts, the run's file is in order, has one
\* terminal at most, the stored one, and nothing but audits after it.
THEOREM LogIsWellFormed == Spec => []WellFormedLog
<1>1. IInv => WellFormedLog
  BY DEF IInv
<1> QED
  BY <1>1, RunInvariant, PTL

\* The file only grows: the rollback of a refused terminal takes back no line.
THEOREM NoLineIsTakenBack == Spec => LogOnlyGrows
<1> DEFINE Grows == Len(file') >= Len(file) /\ SubSeq(file', 1, Len(file)) = file
<1>1. IInv /\ [Next]_vars => [Grows]_file
  <2> SUFFICES ASSUME IInv, [Next]_vars PROVE [Grows]_file
    OBVIOUS
  <2>1. CASE file' = file
    BY <2>1
  <2>2. ASSUME NEW e \in LineSet, file' = Append(file, e) PROVE Grows
    <3>1. file \in Seq(LineSet) /\ file' \in Seq(LineSet) /\ Len(file) \in Nat
      BY <2>2 DEF IInv, DiskTypes
    <3>2. Len(file') = Len(file) + 1 /\ \A i \in 1..Len(file) : file'[i] = file[i]
      BY <2>2, <3>1, AppendedLines
    <3>3. /\ SubSeq(file', 1, Len(file)) \in Seq(LineSet)
          /\ Len(SubSeq(file', 1, Len(file))) = Len(file)
          /\ \A i \in 1..Len(file) : SubSeq(file', 1, Len(file))[i] = file'[i]
      BY <3>1, <3>2
    <3>4. SubSeq(file', 1, Len(file)) = file
      BY <3>1, <3>2, <3>3
    <3> QED
      BY <3>1, <3>2, <3>4
  <2> QED
    BY <2>1, <2>2, StepWrites DEF Written
<1> QED
  BY <1>1, RunInvariant, PTL DEF Spec, LogOnlyGrows

\* An abort after an ordinary run has ended does not cancel it, unless its barrier or its
\* commit failed.
THEOREM KeptDecisionStands == Spec => LateAbortLoses
<1> DEFINE Late == /\ sql = None /\ sql' # None /\ ~net.delegate /\ net.ended = "kept"
                   /\ sql'.verdict = "cancelled"
                   => net.barrier = "failed" \/ net.at = "rescue"
<1>1. IInv /\ [Next]_vars => [Late]_vars
  <2> SUFFICES ASSUME IInv, Next, sql = None, sql' # None PROVE Late
    BY DEF vars, disk
  <2>1. StagedCommit \/ RescueCommits
    <3>1. ~Quiet
      BY QuietDisk DEF disk
    <3>2. ~Progress /\ ~Audit /\ ~JobReturns /\ ~JobThrows /\ ~JobRecovers /\ ~Restart
      BY DEF Progress, Audit, JobReturns, JobThrows, JobRecovers, Restart
    <3> QED
      BY <3>1, <3>2 DEF Next, Quiet, Barriers, Ending, Recovery
  <2>2. CASE StagedCommit
    <3>1. net.at = "staging" /\ Stored(prepared)
      BY <2>2, StagedOutcome DEF Refused, disk
    <3>2. sql'.verdict = prepared.verdict /\ prepared # None
      BY <3>1, Staged DEF Stored, IInv, ProcessTypes
    <3> QED
      BY <3>2 DEF IInv, KeptInv
  <2>3. CASE RescueCommits
    BY <2>3, RescueOutcome
  <2> QED
    BY <2>1, <2>2, <2>3
<1> QED
  BY <1>1, RunInvariant, PTL DEF Spec, LateAbortLoses
==============================================================================
