------------------------- MODULE CommandQueueProofs --------------------------
(***************************************************************************)
(* Proofs about CommandQueue, for every number of calls, keys, threads and *)
(* children, any caps, any number of write failures and of restarts, with  *)
(* or without crashes, stops and cancels: types, one job per key, the      *)
(* admission caps, one start per job, the durable terminal, the drained    *)
(* family and the admission that a completion retries.                     *)
(*                                                                         *)
(* IInv is inductive.  Its parts say what the code keeps in different      *)
(* places: the queue and the rows (QueueInv), runJob and the rows          *)
(* (RunnerInv), the terminal and the row (TerminalInv), the budget         *)
(* authority and the runs (FamilyInv, DrainInv).                           *)
(***************************************************************************)
EXTENDS CommandQueue, SequenceTheorems, FiniteSetTheorems, TLAPS

\* The queue holds each waiting job once, and only jobs that wait.
QueueInv ==
    /\ IsInjective(queue)
    /\ \A i \in DOMAIN queue :
         state[queue[i]] = "queued" /\ phase[queue[i]] = "none"
    /\ mode = "down" => queue = <<>>

\* The phases of a run before its terminal.
Unended == {"run", "barrier", "drain", "staged"}

\* The phases of a run that has not returned.
Live == Unended \cup {"persisted"}

\* Where a runner is decides what its row and its terminal may be; a slot is held
\* from the loop of drain() to the finally block of runJob.
RunnerInv ==
    /\ active = {j \in Call : phase[j] # "none"}
    /\ mode = "down" => active = {}
    /\ draining => mode = "up"
    /\ \A j \in Call :
         /\ j \in started => state[j] \notin {"none", "queued"}
         /\ Runs(j) => j \in started
         /\ phase[j] = "leaked" => Accepted(j)
         /\ phase[j] \in Unended => state[j] = "running"
         /\ phase[j] \in {"barrier", "drain", "staged", "persisted"} => j \in runId
         /\ phase[j] \in {"barrier", "drain", "staged", "persisted", "returned"} =>
              verdict[j] # None
         /\ phase[j] = "persisted" => terminal[j] # None
         /\ phase[j] = "returned" /\ terminal[j] = None => ClassOf[j] = "model"
         /\ j \in runId => j \in started /\ ClassOf[j] = "non_model"

\* A job with a durable terminal has that outcome and is past its run.
TerminalInv ==
    \A j \in Call : terminal[j] # None =>
        /\ state[j] = terminal[j]
        /\ phase[j] \in {"persisted", "returned", "none"}

\* A family is registered by its parent's run, admits children only before the
\* parent's barrier, and every accepted child has a parent that was started.
FamilyInv ==
    /\ accepting \subseteq registered
    /\ \A j \in registered : j \in runId /\ phase[j] \in Live
    /\ \A j \in accepting : phase[j] \in {"run", "barrier"}
    /\ \A c \in pending \cup attached : Accepted(c)
    /\ \A j \in Call : phase[j] = "drain" => j \in registered /\ j \notin accepting
    /\ \A c \in Call : Delegated(c) /\ Accepted(c) =>
         /\ ParentOf[c] \in started
         /\ phase[ParentOf[c]] \in Live => ParentOf[c] \in registered

\* No child of p is admitted, queued or at work.
Drained(p) ==
    \A c \in Children(p) :
        /\ c \notin pending \cup attached
        /\ state[c] # "queued"
        /\ phase[c] \in {"none", "returned", "leaked"}

\* Unless its parent's drain timed out, a child that waits or works is in one of
\* the sets that the barrier waits for.
DrainInv ==
    /\ \A c \in Call : Delegated(c) /\ ParentOf[c] \notin timedOut =>
         /\ state[c] = "queued" /\ mode # "down" => c \in pending
         /\ phase[c] \in Live => c \in pending \cup attached
    /\ \A p \in Call \ timedOut :
         phase[p] = "staged" \/ terminal[p] # None => Drained(p)

\* The inductive invariant of the command path.
IInv == TypeOK /\ QueueInv /\ RunnerInv /\ TerminalInv /\ FamilyInv /\ DrainInv

-----------------------------------------------------------------------------

\* Places number what is kept of 1..n from 1, without gaps.
LEMMA PlaceIsABijection ==
    ASSUME NEW kept, NEW n \in Nat, kept \subseteq 1..n
    PROVE  /\ Cardinality(kept) \in Nat
           /\ \A i \in kept : Place(kept, i) \in 1..Cardinality(kept)
           /\ \A i, k \in kept : Place(kept, i) = Place(kept, k) => i = k
           /\ \A m \in 1..Cardinality(kept) : \E i \in kept : Place(kept, i) = m
<1> DEFINE Upto(i) == {k \in kept : k <= i}
           N == Cardinality(kept)
           P == [i \in kept |-> Place(kept, i)]
<1>1. IsFiniteSet(kept) /\ N \in Nat
  <2>1. IsFiniteSet(1..n)
    BY FS_Interval
  <2> QED
    BY <2>1, FS_Subset, FS_CardinalityType
<1>2. \A i \in kept : /\ IsFiniteSet(Upto(i)) /\ Cardinality(Upto(i)) \in Nat
                      /\ Cardinality(Upto(i)) <= N
                      /\ Place(kept, i) = Cardinality(Upto(i))
  <2> TAKE i \in kept
  <2>1. Upto(i) \in SUBSET kept
    OBVIOUS
  <2>2. Place(kept, i) = Cardinality(Upto(i))
    BY DEF Place
  <2> HIDE DEF Upto
  <2>3. IsFiniteSet(Upto(i)) /\ Cardinality(Upto(i)) <= N
    BY <1>1, <2>1, FS_Subset
  <2>4. Cardinality(Upto(i)) \in Nat
    BY <2>3, FS_CardinalityType
  <2> QED
    BY <2>2, <2>3, <2>4
<1>3. \A i \in kept : Place(kept, i) \in 1..N
  <2> TAKE i \in kept
  <2>1. i \in Upto(i)
    OBVIOUS
  <2>2. Cardinality(Upto(i)) # 0
    <3> HIDE DEF Upto
    <3> QED BY <1>2, <2>1, FS_EmptySet
  <2> QED
    BY <1>1, <1>2, <2>2
<1>4. \A i, k \in kept : i < k => Place(kept, i) < Place(kept, k)
  <2> SUFFICES ASSUME NEW i \in kept, NEW k \in kept, i < k
               PROVE  Place(kept, i) < Place(kept, k)
    OBVIOUS
  <2>1. k \in Upto(k) /\ k \notin Upto(i)
    OBVIOUS
  <2>2. Upto(i) \in SUBSET Upto(k)
    <3> SUFFICES ASSUME NEW j \in kept, j <= i PROVE j <= k
      OBVIOUS
    <3>1. i \in Nat /\ j \in Nat /\ k \in Nat
      OBVIOUS
    <3> QED BY <3>1
  <2> HIDE DEF Upto
  <2>3. Cardinality(Upto(i)) <= Cardinality(Upto(k))
        /\ Cardinality(Upto(i)) # Cardinality(Upto(k))
    BY <1>2, <2>1, <2>2, FS_Subset
  <2> QED
    BY <1>2, <2>3
<1>5. \A i, k \in kept : Place(kept, i) = Place(kept, k) => i = k
  <2> HIDE DEF N, Upto
  <2> SUFFICES ASSUME NEW i \in kept, NEW k \in kept, Place(kept, i) = Place(kept, k)
               PROVE  i = k
    OBVIOUS
  <2>1. i \in Nat /\ k \in Nat
    OBVIOUS
  <2> QED BY <1>2, <1>4, <2>1
<1>6. P \in Injection(kept, 1..N)
  <2>1. P \in [kept -> 1..N]
    BY <1>3
  <2> QED
    BY <1>5, <2>1 DEF Injection, IsInjective
<1>7. IsFiniteSet(1..N) /\ Cardinality(1..N) = N
  BY <1>1, FS_Interval
<1>8. P \in Surjection(kept, 1..N)
  BY <1>6, <1>7, FS_Injection
<1>9. \A m \in 1..N : \E i \in kept : P[i] = m
  BY <1>8 DEF Surjection
<1> QED
  BY <1>1, <1>3, <1>5, <1>9

\* A splice of some jobs (cancelJob) leaves exactly the others.
LEMMA WithoutKeepsTheRest ==
    ASSUME NEW S, NEW s \in Seq(S), NEW gone
    PROVE  /\ Without(s, gone) \in Seq(S)
           /\ \A m \in DOMAIN Without(s, gone) :
                \E i \in DOMAIN s : Without(s, gone)[m] = s[i] /\ s[i] \notin gone
           /\ \A i \in DOMAIN s : s[i] \notin gone =>
                \E m \in DOMAIN Without(s, gone) : Without(s, gone)[m] = s[i]
           /\ IsInjective(s) => IsInjective(Without(s, gone))
<1> DEFINE kept == {i \in DOMAIN s : s[i] \notin gone}
           Nth(m) == CHOOSE i \in kept : Place(kept, i) = m
           N == Cardinality(kept)
           w == [m \in 1..N |-> s[Nth(m)]]
<1>1. DOMAIN s = 1..Len(s) /\ Len(s) \in Nat /\ \A i \in DOMAIN s : s[i] \in S
  BY LenProperties, ElementOfSeq
<1>2. kept \subseteq 1..Len(s) /\ \A i \in kept : i \in DOMAIN s /\ s[i] \notin gone
  BY <1>1
<1>3. \A i \in DOMAIN s : s[i] \notin gone => i \in kept
  OBVIOUS
<1>4. Without(s, gone) = w
  BY DEF Without
<1> HIDE DEF kept
<1>5. /\ N \in Nat
      /\ \A i \in kept : Place(kept, i) \in 1..N
      /\ \A i, k \in kept : Place(kept, i) = Place(kept, k) => i = k
      /\ \A m \in 1..N : \E i \in kept : Place(kept, i) = m
  BY <1>1, <1>2, PlaceIsABijection
<1>6. \A m \in 1..N : Nth(m) \in kept /\ Place(kept, Nth(m)) = m
  BY <1>5
<1> HIDE DEF Nth
<1>7. \A i \in kept : Nth(Place(kept, i)) = i
  BY <1>5, <1>6
<1>8. \A m \in 1..N : s[Nth(m)] \in S
  BY <1>1, <1>2, <1>6
<1>9. w \in Seq(S) /\ DOMAIN w = 1..N /\ \A m \in 1..N : w[m] = s[Nth(m)]
  <2> HIDE DEF N
  <2>1. w \in [1..N -> S]
    BY <1>8
  <2>2. w \in Seq(S)
    BY <1>5, <2>1
  <2> QED BY <2>2
<1> HIDE DEF w
<1>10. \A m \in DOMAIN w : \E i \in DOMAIN s : w[m] = s[i] /\ s[i] \notin gone
  BY <1>2, <1>6, <1>9
<1>11. \A i \in DOMAIN s : s[i] \notin gone => \E m \in DOMAIN w : w[m] = s[i]
  BY <1>3, <1>5, <1>7, <1>9
<1>12. IsInjective(s) => IsInjective(w)
  <2> SUFFICES ASSUME IsInjective(s), NEW l \in DOMAIN w, NEW m \in DOMAIN w, w[l] = w[m]
               PROVE  l = m
    BY DEF IsInjective
  <2>1. Nth(l) = Nth(m)
    BY <1>2, <1>6, <1>9 DEF IsInjective
  <2> QED BY <1>6, <1>9, <2>1
<1> QED
  BY <1>4, <1>9, <1>10, <1>11, <1>12

\* The removal of one index (drain) leaves exactly the others.
LEMMA RemoveAtKeepsTheRest ==
    ASSUME NEW S, NEW s \in Seq(S), NEW i \in DOMAIN s
    PROVE  /\ RemoveAt(s, i) \in Seq(S)
           /\ \A m \in DOMAIN RemoveAt(s, i) :
                \E k \in DOMAIN s : k # i /\ RemoveAt(s, i)[m] = s[k]
           /\ \A k \in DOMAIN s : k # i =>
                \E m \in DOMAIN RemoveAt(s, i) : RemoveAt(s, i)[m] = s[k]
           /\ IsInjective(s) => IsInjective(RemoveAt(s, i))
<1> DEFINE w == RemoveAt(s, i)
           a == SubSeq(s, 1, i - 1)
           b == SubSeq(s, i + 1, Len(s))
           At(m) == IF m < i THEN m ELSE m + 1
<1>1. DOMAIN s = 1..Len(s) /\ Len(s) \in Nat /\ i \in 1..Len(s) /\ \A k \in DOMAIN s : s[k] \in S
  BY LenProperties, ElementOfSeq
<1>2. a \in Seq(S) /\ Len(a) = i - 1 /\ \A k \in 1..i - 1 : a[k] = s[k]
  BY <1>1, SubSeqProperties
<1>3. b \in Seq(S) /\ Len(b) = Len(s) - i /\ \A k \in 1..Len(s) - i : b[k] = s[k + i]
  BY <1>1, SubSeqProperties
<1>4. w = a \o b
  BY DEF RemoveAt
<1> HIDE DEF a, b, w
<1>5. /\ w \in Seq(S) /\ Len(w) = Len(a) + Len(b)
      /\ \A m \in 1..Len(a) + Len(b) : w[m] = IF m <= Len(a) THEN a[m] ELSE b[m - Len(a)]
  BY <1>2, <1>3, <1>4, ConcatProperties
<1>6. DOMAIN w = 1..Len(s) - 1
  BY <1>1, <1>2, <1>3, <1>5, LenProperties
<1>7. \A m \in 1..Len(s) - 1 : w[m] = s[At(m)] /\ At(m) \in 1..Len(s) /\ At(m) # i
  <2> TAKE m \in 1..Len(s) - 1
  <2>1. CASE m < i
    BY <1>1, <1>2, <1>3, <1>5, <2>1
  <2>2. CASE m >= i
    <3>1. w[m] = b[m - (i - 1)] /\ m - (i - 1) \in 1..Len(s) - i
      BY <1>1, <1>2, <1>3, <1>5, <2>2
    <3> QED BY <1>1, <1>3, <2>2, <3>1
  <2> QED BY <1>1, <2>1, <2>2
<1>8. \A k \in 1..Len(s) : k # i => \E m \in 1..Len(s) - 1 : At(m) = k
  <2> SUFFICES ASSUME NEW k \in 1..Len(s), k # i
               PROVE  \E m \in 1..Len(s) - 1 : At(m) = k
    OBVIOUS
  <2>1. CASE k < i
    BY <1>1, <2>1
  <2>2. CASE k > i
    <3> WITNESS k - 1 \in 1..Len(s) - 1
    <3> QED BY <1>1, <2>2
  <2> QED BY <1>1, <2>1, <2>2
<1>9. IsInjective(s) => IsInjective(w)
  <2> SUFFICES ASSUME IsInjective(s), NEW l \in DOMAIN w, NEW m \in DOMAIN w, w[l] = w[m]
               PROVE  l = m
    BY DEF IsInjective
  <2>1. At(l) = At(m)
    <3> HIDE DEF At
    <3> QED BY <1>1, <1>6, <1>7 DEF IsInjective
  <2> QED BY <1>1, <1>6, <2>1
<1> QED
  BY <1>1, <1>5, <1>6, <1>7, <1>8, <1>9 DEF w

\* The queue loses exactly the jobs of gone.
LeavesQueue(gone) ==
    /\ queue' \in Seq(Call)
    /\ IsInjective(queue')
    /\ \A m \in DOMAIN queue' :
         \E i \in DOMAIN queue : queue'[m] = queue[i] /\ queue[i] \notin gone
    /\ \A i \in DOMAIN queue : queue[i] \notin gone =>
         \E m \in DOMAIN queue' : queue'[m] = queue[i]

\* A cancel takes the queued ones of its jobs out of the queue.
LEMMA CancelLeaves ==
    ASSUME TypeOK, QueueInv, NEW jobs, CancelJobs(jobs)
    PROVE  LeavesQueue({j \in jobs : state[j] = "queued"})
<1> DEFINE waiting == {j \in jobs : state[j] = "queued"}
<1>1. queue \in Seq(Call) /\ IsInjective(queue) /\ queue' = Without(queue, waiting)
  BY DEF TypeOK, QueueInv, CancelJobs
<1> SUFFICES LeavesQueue(waiting)
  OBVIOUS
<1> HIDE DEF waiting
<1> QED
  BY <1>1, WithoutKeepsTheRest DEF LeavesQueue

\* An iteration of drain() takes its job out of the queue.
LEMMA PickLeaves ==
    ASSUME TypeOK, QueueInv, NEW i \in DOMAIN queue, queue' = RemoveAt(queue, i)
    PROVE  LeavesQueue({queue[i]})
<1>1. queue \in Seq(Call) /\ IsInjective(queue)
  BY DEF TypeOK, QueueInv
<1>2. /\ queue' \in Seq(Call) /\ IsInjective(queue')
      /\ \A m \in DOMAIN queue' : \E k \in DOMAIN queue : k # i /\ queue'[m] = queue[k]
      /\ \A k \in DOMAIN queue : k # i => \E m \in DOMAIN queue' : queue'[m] = queue[k]
  BY <1>1, RemoveAtKeepsTheRest
<1>3. \A k \in DOMAIN queue : k # i <=> queue[k] \notin {queue[i]}
  BY <1>1 DEF IsInjective
<1> QED
  BY <1>2, <1>3 DEF LeavesQueue

\* A job that waits was never started and has no slot and no outcome.
LEMMA QueuedIsFresh ==
    ASSUME IInv, NEW i \in DOMAIN queue
    PROVE  /\ queue[i] \in Call \ (started \cup active)
           /\ state[queue[i]] = "queued" /\ phase[queue[i]] = "none"
           /\ terminal[queue[i]] = None
<1>1. queue[i] \in Call
  BY LenProperties, ElementOfSeq DEF IInv, TypeOK
<1> QED
  BY <1>1 DEF IInv, QueueInv, RunnerInv, TerminalInv, TypeOK, Verdicts

\* QueueInv survives what leaves the queue, if the others go on waiting.
LEMMA QueueShrinks ==
    ASSUME TypeOK, QueueInv, NEW gone, LeavesQueue(gone), mode # "down",
           mode' = mode,
           \A j \in Call \ gone : state[j] = "queued" => state'[j] = "queued",
           \A j \in Call \ gone :
             state[j] = "queued" /\ phase[j] = "none" => phase'[j] = "none"
    PROVE  QueueInv'
<1>1. \A i \in DOMAIN queue : queue[i] \in Call
  BY LenProperties, ElementOfSeq DEF TypeOK
<1>2. ASSUME NEW m \in DOMAIN queue'
      PROVE  state'[queue'[m]] = "queued" /\ phase'[queue'[m]] = "none"
  <2>1. PICK i \in DOMAIN queue : queue'[m] = queue[i] /\ queue[i] \notin gone
    BY DEF LeavesQueue
  <2> QED
    BY <1>1, <2>1 DEF QueueInv
<1> QED
  BY <1>2 DEF QueueInv, LeavesQueue

\* A request that is admitted is no retry (planEnqueue replays those first).
LEMMA AdmittedIsNew ==
    ASSUME TypeOK, NEW c \in Call, Plan(c) = "admit"
    PROVE  /\ \A j \in Call : Accepted(j) => KeyOf[j] # KeyOf[c]
           /\ state[c] = "none"
           /\ Delegated(c) => CanAdmitChild(c)
BY DEF TypeOK, Plan, Replayed, Accepted

\* A job that waits for its only runner.
Fresh(j) ==
    /\ j \notin started \cup active
    /\ state[j] = "queued" /\ phase[j] = "none" /\ terminal[j] = None

\* An iteration of drain() that succeeds, for the job it takes.
Taken(j) ==
    /\ Fresh(j) /\ Eligible(j) /\ LeavesQueue({j})
    /\ \/ /\ j \in cancelled
          /\ state' = [state EXCEPT ![j] = "cancelled"]
          /\ UNCHANGED <<active, phase, started>>
       \/ /\ j \notin cancelled
          /\ active' = active \cup {j}
          /\ state' = [state EXCEPT ![j] = "running"]
          /\ phase' = [phase EXCEPT ![j] = "run"]
          /\ started' = started \cup {j}
    /\ draining
    /\ UNCHANGED <<runId, terminal, mode, draining, calls, cancelled, aborted,
                   verdict, families, failures, timedOut, bounds>>

\* An iteration of drain() whose write fails, for the job it takes.
Dropped(j) ==
    /\ Fresh(j) /\ Eligible(j) /\ LeavesQueue({j})
    /\ \/ /\ draining' = FALSE
          /\ UNCHANGED <<active, phase>>
       \/ /\ j \notin cancelled
          /\ active' = active \cup {j}
          /\ phase' = [phase EXCEPT ![j] = "leaked"]
          /\ UNCHANGED draining
    /\ draining /\ failures' \in {failures, failures \cup {j}}
    /\ faults < MaxFaults /\ faults' = faults + 1
    /\ UNCHANGED <<durable, mode, calls, cancelled, aborted, verdict, families,
                   started, timedOut, restarts>>

\* DrainNext takes one eligible job.
LEMMA DrainNextTakes ==
    ASSUME IInv, DrainNext
    PROVE  \E j \in Call : Taken(j)
<1>1. PICK i \in DOMAIN queue :
         LET j == queue[i]
         IN  /\ Picked(i)
             /\ queue' = RemoveAt(queue, i)
             /\ IF j \in cancelled
                  THEN /\ state' = [state EXCEPT ![j] = Winner(j, "cancelled")]
                       /\ UNCHANGED <<active, phase, started>>
                  ELSE /\ active' = active \cup {j}
                       /\ state' = [state EXCEPT ![j] = Winner(j, "running")]
                       /\ phase' = [phase EXCEPT ![j] = "run"]
                       /\ started' = started \cup {j}
  BY DEF DrainNext, DrainNextSkipping
<1>2. queue[i] \in Call \ (started \cup active) /\ state[queue[i]] = "queued"
      /\ phase[queue[i]] = "none" /\ terminal[queue[i]] = None
  BY QueuedIsFresh
<1>3. LeavesQueue({queue[i]})
  BY <1>1, PickLeaves DEF IInv
<1>4. Eligible(queue[i])
  BY <1>1 DEF Picked
<1> QED
  BY <1>1, <1>2, <1>3, <1>4 DEF DrainNext, DrainNextSkipping, Winner, Taken, Fresh

\* DrainFails drops one eligible job.
LEMMA DrainFailsDrops ==
    ASSUME IInv, DrainFails
    PROVE  \E j \in Call : Dropped(j)
<1>1. PICK i \in DOMAIN queue :
         LET j == queue[i]
         IN  /\ Picked(i)
             /\ queue' = RemoveAt(queue, i)
             /\ IF j \in cancelled
                  THEN /\ draining' = FALSE
                       /\ failures' \in {failures, failures \cup {j}}
                       /\ UNCHANGED <<active, phase>>
                  ELSE /\ active' = active \cup {j}
                       /\ phase' = [phase EXCEPT ![j] = "leaked"]
                       /\ failures' = failures \cup {j}
                       /\ UNCHANGED draining
  BY DEF DrainFails
<1>2. queue[i] \in Call \ (started \cup active) /\ state[queue[i]] = "queued"
      /\ phase[queue[i]] = "none" /\ terminal[queue[i]] = None
  BY QueuedIsFresh
<1>3. LeavesQueue({queue[i]})
  BY <1>1, PickLeaves DEF IInv
<1>4. Eligible(queue[i])
  BY <1>1 DEF Picked
<1> QED
  BY <1>1, <1>2, <1>3, <1>4 DEF DrainFails, Fault, Dropped, Fresh

-----------------------------------------------------------------------------
\* TypeOK is inductive in IInv.
LEMMA TypeOKStep ==
    ASSUME IInv, [Next]_vars
    PROVE  TypeOK'
<1> USE BoundAssumption, NoVerdictAssumption DEF IInv, TypeOK, RunnerInv,
      TerminalInv, Verdicts, States, Phases, Class, Runs, Accepted, Delegated,
      Turn, Running, Unended, Live, durable, families, bounds
<1>1. ASSUME NEW j \in Call, Enqueue(j) PROVE TypeOK'
  BY <1>1 DEF Enqueue, Plan
<1>2. ASSUME NEW j \in Call, Commit(j) PROVE TypeOK'
  <2>1. CASE Plan(j) = "admit"
    <3>1. queue' = Append(queue, j)
      BY <1>2, <2>1 DEF Commit, CommitAs
    <3>2. queue' \in Seq(Call)
      BY <3>1, AppendProperties
    <3>3. draining' \in BOOLEAN
      BY <1>2, <2>1 DEF Commit, CommitAs, CallDrain
    <3>4. state' = [state EXCEPT ![j] = "queued"] /\ pending' \subseteq Call
          /\ calls' = [calls EXCEPT ![j] = "admit"]
      BY <1>2, <2>1 DEF Commit, CommitAs
    <3>5. UNCHANGED <<runId, terminal, mode, active, cancelled, aborted, phase, verdict,
                      registered, accepting, attached, failures, started, timedOut, bounds>>
      BY <1>2 DEF Commit, CommitAs
    <3> QED
      BY <3>2, <3>3, <3>4, <3>5
  <2>2. CASE Plan(j) # "admit"
    BY <1>2, <2>2 DEF Commit, CommitAs, Plan
  <2> QED
    BY <2>1, <2>2
<1>3. ASSUME DrainNext PROVE TypeOK'
  <2>1. PICK j \in Call : Taken(j)
    BY <1>3, DrainNextTakes
  <2>2. queue' \in Seq(Call)
    BY <2>1 DEF Taken, LeavesQueue
  <2> QED
    BY <2>1, <2>2 DEF Taken
<1>4. ASSUME DrainEnds PROVE TypeOK'
  BY <1>4 DEF DrainEnds
<1>5. ASSUME DrainFails PROVE TypeOK'
  <2>1. PICK j \in Call : Dropped(j)
    BY <1>5, DrainFailsDrops
  <2>2. queue' \in Seq(Call)
    BY <2>1 DEF Dropped, LeavesQueue
  <2>3. active' \subseteq Call /\ phase' \in [Call -> Phases]
    <3>1. \/ UNCHANGED <<active, phase>>
          \/ active' = active \cup {j} /\ phase' = [phase EXCEPT ![j] = "leaked"]
      BY <2>1 DEF Dropped
    <3> QED
      BY <3>1
  <2>4. draining' \in BOOLEAN
    BY <2>1 DEF Dropped
  <2>5. failures' \subseteq Call /\ faults' \in 0..MaxFaults
    BY <2>1 DEF Dropped
  <2>6. UNCHANGED <<durable, mode, calls, cancelled, aborted, verdict, families,
                    started, timedOut, restarts>>
    BY <2>1 DEF Dropped
  <2> QED
    BY <2>2, <2>3, <2>4, <2>5, <2>6
<1>6. ASSUME NEW j \in Call, Attach(j) PROVE TypeOK'
  BY <1>6 DEF Attach
<1>7. ASSUME NEW j \in Call, Announce(j) PROVE TypeOK'
  BY <1>7 DEF Announce
<1>8. ASSUME NEW j \in Call, Activate(j) PROVE TypeOK'
  BY <1>8 DEF Activate
<1>9. ASSUME NEW j \in Call, Hold(j) PROVE TypeOK'
  BY <1>9 DEF Hold
<1>10. ASSUME NEW j \in Call, CloseFamily(j) PROVE TypeOK'
  <2>1. queue' \in Seq(Call)
    BY <1>10, CancelLeaves DEF CloseFamily, LeavesQueue
  <2>2. Family(j) \subseteq Call
    BY DEF Family, Children
  <2> QED
    BY <1>10, <2>1, <2>2 DEF CloseFamily, CancelJobs, Winner
<1>11. ASSUME NEW j \in Call, BarrierDone(j) PROVE TypeOK'
  BY <1>11 DEF BarrierDone
<1>12. ASSUME NEW j \in Call, Persist(j) PROVE TypeOK'
  BY <1>12 DEF Persist, PersistRow
<1>13. ASSUME NEW j \in Call, Return(j) PROVE TypeOK'
  BY <1>13 DEF Return, ReleaseRun, Release, AbortVerdict
<1>14. ASSUME NEW j \in Call, Settle(j) PROVE TypeOK'
  BY <1>14 DEF Settle, Finish, FreeSlot, CallDrain, Winner
<1>15. ASSUME NEW j \in Call, Throw(j) PROVE TypeOK'
  <2>1. state' \in [Call -> States]
    BY <1>15 DEF Throw, Finish, Winner, AbortVerdict
  <2>2. /\ FreeSlot(j) /\ CallDrain /\ ReleaseRun(j)
        /\ UNCHANGED <<runId, terminal, mode, calls, queue, cancelled, failures, started,
                      timedOut, bounds>>
    BY <1>15 DEF Throw, Finish
  <2> QED
    BY <2>1, <2>2 DEF FreeSlot, CallDrain, ReleaseRun, Release
<1>16. ASSUME NEW j \in Call, DrainTimeout(j) PROVE TypeOK'
  BY <1>16 DEF DrainTimeout, AbortVerdict
<1>17. ASSUME NEW j \in Call, PersistFails(j) PROVE TypeOK'
  BY <1>17 DEF PersistFails, AbortVerdict, Fault
<1>18. ASSUME NEW j \in Call, SettleFails(j) PROVE TypeOK'
  BY <1>18 DEF SettleFails, SettleErrorAs, FreeSlot, CallDrain, Winner,
    AbortVerdict, Fault
<1>19. ASSUME NEW j \in Call, PruneFails(j) PROVE TypeOK'
  BY <1>19 DEF PruneFails, FreeSlot, Winner, Fault
<1>20. ASSUME NEW j \in Call, Cancel(j) PROVE TypeOK'
  <2>1. queue' \in Seq(Call)
    BY <1>20, CancelLeaves DEF Cancel, LeavesQueue
  <2> QED
    BY <1>20, <2>1 DEF Cancel, CancelJobs, Winner
<1>21. ASSUME NEW j \in Call, CancelFails(j) PROVE TypeOK'
  BY <1>21 DEF CancelFails, Fault
<1>22. ASSUME NEW j \in Call, Fence(j) PROVE TypeOK'
  BY <1>22 DEF Fence
<1>23. ASSUME Stop PROVE TypeOK'
  BY <1>23 DEF Stop
<1>24. ASSUME StopConfirmed PROVE TypeOK'
  BY <1>24, EmptySeq DEF StopConfirmed, Forget
<1>25. ASSUME StopRefused PROVE TypeOK'
  BY <1>25 DEF StopRefused
<1>26. ASSUME Crash PROVE TypeOK'
  BY <1>26, EmptySeq DEF Crash, Forget
<1>27. ASSUME Restart PROVE TypeOK'
  BY <1>27 DEF Restart, Recover, Winner
<1>28. ASSUME UNCHANGED vars PROVE TypeOK'
  BY <1>28 DEF vars
<1> QED
  BY <1>1, <1>2, <1>3, <1>4, <1>5, <1>6, <1>7, <1>8, <1>9, <1>10,
    <1>11, <1>12, <1>13, <1>14, <1>15, <1>16, <1>17, <1>18, <1>19, <1>20,
    <1>21, <1>22, <1>23, <1>24, <1>25, <1>26, <1>27, <1>28 DEF Next,
    RunnerStep, FaultStep

\* Acceptance appends a job of its own, everything else takes out of the queue.
LEMMA QueueInvStep ==
    ASSUME IInv, [Next]_vars
    PROVE  QueueInv'
<1> USE DEF IInv, TypeOK, RunnerInv, TerminalInv, Verdicts, States, Phases,
      Class, Runs, Accepted, Delegated, Turn, Running, Unended, Live, durable,
      families, bounds, QueueInv
<1>1. ASSUME NEW j \in Call, Enqueue(j) \/ Attach(j) \/ Announce(j) \/
            Activate(j) \/ PersistFails(j) \/ CancelFails(j) \/ Fence(j)
      PROVE  QueueInv'
  BY <1>1 DEF Enqueue, Plan, Attach, Announce, Activate, PersistFails,
    AbortVerdict, Fault, CancelFails, Fence
<1>2. ASSUME DrainEnds
      PROVE  QueueInv'
  BY <1>2 DEF DrainEnds
<1>3. ASSUME NEW j \in Call, Commit(j) PROVE QueueInv'
  <2>1. CASE Plan(j) = "admit"
    <3>1. queue' = Append(queue, j) /\ state' = [state EXCEPT ![j] = "queued"]
          /\ phase' = phase /\ mode' = mode /\ mode # "down"
      BY <1>3, <2>1 DEF Commit, CommitAs
    <3>2. state[j] = "none" /\ phase[j] = "none"
      BY <2>1, AdmittedIsNew
    <3>3. \A i \in DOMAIN queue : queue[i] \in Call
      BY LenProperties, ElementOfSeq
    <3>4. DOMAIN queue = 1..Len(queue) /\ Len(queue) \in Nat
          /\ DOMAIN queue' = 1..Len(queue) + 1
          /\ (\A i \in 1..Len(queue) : queue'[i] = queue[i])
          /\ queue'[Len(queue) + 1] = j
      BY <3>1, AppendProperties, LenProperties
    <3>5. \A i \in DOMAIN queue' : state'[queue'[i]] = "queued" /\ phase'[queue'[i]] = "none"
      BY <3>1, <3>2, <3>3, <3>4
    <3>6. IsInjective(queue')
      BY <3>2, <3>4 DEF IsInjective
    <3> QED
      BY <3>1, <3>5, <3>6
  <2>2. CASE Plan(j) # "admit"
    BY <1>3, <2>2 DEF Commit, CommitAs
  <2> QED
    BY <2>1, <2>2
<1>4. ASSUME DrainNext PROVE QueueInv'
  <2>1. PICK j \in Call : Taken(j)
    BY <1>4, DrainNextTakes
  <2>2. LeavesQueue({j}) /\ mode # "down" /\ mode' = mode
        /\ \A k \in Call \ {j} : state'[k] = state[k] /\ phase'[k] = phase[k]
    BY <2>1 DEF Taken
  <2> QED
    BY <2>2, QueueShrinks
<1>5. ASSUME DrainFails PROVE QueueInv'
  <2>1. PICK j \in Call : Dropped(j)
    BY <1>5, DrainFailsDrops
  <2>2. LeavesQueue({j}) /\ mode # "down" /\ mode' = mode
        /\ \A k \in Call \ {j} : state'[k] = state[k] /\ phase'[k] = phase[k]
    <3>1. LeavesQueue({j}) /\ draining /\ mode' = mode /\ state' = state
          /\ (phase' = phase \/ phase' = [phase EXCEPT ![j] = "leaked"])
      BY <2>1 DEF Dropped
    <3> QED
      BY <3>1
  <2> QED
    BY <2>2, QueueShrinks
<1>6. ASSUME NEW j \in Call, Hold(j) PROVE QueueInv'
  BY <1>6, LenProperties, ElementOfSeq DEF Hold
<1>7. ASSUME NEW j \in Call, CloseFamily(j) PROVE QueueInv'
  <2>1. LeavesQueue({k \in Family(j) : state[k] = "queued"})
    BY <1>7, CancelLeaves DEF CloseFamily
  <2>2. /\ mode # "down" /\ mode' = mode
        /\ \A k \in Call \ {l \in Family(j) : state[l] = "queued"} : state'[k] = state[k]
        /\ \A k \in Call : phase[k] = "none" => phase'[k] = "none"
    BY <1>7 DEF CloseFamily, CancelJobs
  <2> QED
    BY <2>1, <2>2, QueueShrinks
<1>8. ASSUME NEW j \in Call, BarrierDone(j) PROVE QueueInv'
  BY <1>8, LenProperties, ElementOfSeq DEF BarrierDone
<1>9. ASSUME NEW j \in Call, Persist(j) PROVE QueueInv'
  BY <1>9, LenProperties, ElementOfSeq DEF Persist, PersistRow
<1>10. ASSUME NEW j \in Call, Return(j) PROVE QueueInv'
  BY <1>10, LenProperties, ElementOfSeq DEF Return, ReleaseRun, Release,
    AbortVerdict
<1>11. ASSUME NEW j \in Call, Settle(j) PROVE QueueInv'
  BY <1>11, LenProperties, ElementOfSeq DEF Settle, Finish, FreeSlot,
    CallDrain, Winner
<1>12. ASSUME NEW j \in Call, Throw(j) PROVE QueueInv'
  BY <1>12, LenProperties, ElementOfSeq DEF Throw, Finish, FreeSlot,
    CallDrain, Winner, AbortVerdict, ReleaseRun, Release
<1>13. ASSUME NEW j \in Call, DrainTimeout(j) PROVE QueueInv'
  BY <1>13, LenProperties, ElementOfSeq DEF DrainTimeout, AbortVerdict
<1>14. ASSUME NEW j \in Call, SettleFails(j) PROVE QueueInv'
  BY <1>14, LenProperties, ElementOfSeq DEF SettleFails, SettleErrorAs,
    FreeSlot, CallDrain, Winner, AbortVerdict, Fault
<1>15. ASSUME NEW j \in Call, PruneFails(j) PROVE QueueInv'
  BY <1>15, LenProperties, ElementOfSeq DEF PruneFails, FreeSlot, Winner,
    Fault
<1>16. ASSUME NEW j \in Call, Cancel(j) PROVE QueueInv'
  <2>1. LeavesQueue({k \in {j} : state[k] = "queued"})
    BY <1>16, CancelLeaves DEF Cancel
  <2>2. mode # "down" /\ mode' = mode /\ phase' = phase
        /\ \A k \in Call \ {l \in {j} : state[l] = "queued"} : state'[k] = state[k]
    BY <1>16 DEF Cancel, CancelJobs
  <2> QED
    BY <2>1, <2>2, QueueShrinks
<1>17. ASSUME Stop PROVE QueueInv'
  BY <1>17, LenProperties, ElementOfSeq DEF Stop
<1>18. ASSUME StopConfirmed PROVE QueueInv'
  BY <1>18, EmptySeq DEF StopConfirmed, Forget, IsInjective
<1>19. ASSUME StopRefused PROVE QueueInv'
  BY <1>19, LenProperties, ElementOfSeq DEF StopRefused
<1>20. ASSUME Crash PROVE QueueInv'
  BY <1>20, EmptySeq DEF Crash, Forget, IsInjective
<1>21. ASSUME Restart PROVE QueueInv'
  BY <1>21, LenProperties, ElementOfSeq DEF Restart, Recover, Winner
<1>22. ASSUME UNCHANGED vars PROVE QueueInv'
  BY <1>22 DEF vars
<1> QED
  BY <1>1, <1>2, <1>3, <1>4, <1>5, <1>6, <1>7, <1>8, <1>9, <1>10,
    <1>11, <1>12, <1>13, <1>14, <1>15, <1>16, <1>17, <1>18, <1>19, <1>20,
    <1>21, <1>22 DEF Next, RunnerStep, FaultStep

\* Every step of a runner keeps its row and its terminal in line.
LEMMA RunnerInvStep ==
    ASSUME IInv, [Next]_vars
    PROVE  RunnerInv'
<1> USE NoVerdictAssumption DEF IInv, TypeOK, RunnerInv, TerminalInv,
      Verdicts, States, Phases, Class, Runs, Accepted, Delegated, Turn,
      Running, Unended, Live, durable, families, bounds
<1>1. ASSUME NEW j \in Call, Enqueue(j) \/ Attach(j) \/ Activate(j) \/
            CancelFails(j) \/ Fence(j)
      PROVE  RunnerInv'
  BY <1>1 DEF Enqueue, Plan, Attach, Activate, CancelFails, Fault, Fence
<1>2. ASSUME NEW j \in Call, Commit(j) PROVE RunnerInv'
  <2>1. CASE Plan(j) = "admit"
    BY <1>2, <2>1, AdmittedIsNew DEF Commit, CommitAs, CallDrain
  <2>2. CASE Plan(j) # "admit"
    BY <1>2, <2>2 DEF Commit, CommitAs
  <2> QED
    BY <2>1, <2>2
<1>3. ASSUME DrainNext PROVE RunnerInv'
  <2>1. PICK j \in Call : Taken(j)
    BY <1>3, DrainNextTakes
  <2> QED
    BY <2>1 DEF Taken, Fresh
<1>4. ASSUME DrainEnds PROVE RunnerInv'
  BY <1>4 DEF DrainEnds
<1>5. ASSUME DrainFails PROVE RunnerInv'
  <2>1. PICK j \in Call : Dropped(j)
    BY <1>5, DrainFailsDrops
  <2>2. CASE UNCHANGED <<active, phase>>
    BY <2>1, <2>2 DEF Dropped, Fresh
  <2>3. CASE /\ j \notin cancelled /\ active' = active \cup {j}
             /\ phase' = [phase EXCEPT ![j] = "leaked"] /\ UNCHANGED draining
    BY <2>1, <2>3 DEF Dropped, Fresh
  <2> QED
    BY <2>1, <2>2, <2>3 DEF Dropped
<1>6. ASSUME NEW j \in Call, Announce(j) PROVE RunnerInv'
  BY <1>6 DEF Announce
<1>7. ASSUME NEW j \in Call, Hold(j) PROVE RunnerInv'
  BY <1>7 DEF Hold
<1>8. ASSUME NEW j \in Call, CloseFamily(j) PROVE RunnerInv'
  BY <1>8 DEF CloseFamily, CancelJobs, Winner
<1>9. ASSUME NEW j \in Call, BarrierDone(j) PROVE RunnerInv'
  BY <1>9 DEF BarrierDone
<1>10. ASSUME NEW j \in Call, Persist(j) PROVE RunnerInv'
  BY <1>10 DEF Persist, PersistRow
<1>11. ASSUME NEW j \in Call, Return(j) PROVE RunnerInv'
  BY <1>11 DEF Return, ReleaseRun, Release, AbortVerdict
<1>12. ASSUME NEW j \in Call, Settle(j) PROVE RunnerInv'
  BY <1>12 DEF Settle, Finish, FreeSlot, CallDrain, Winner
<1>13. ASSUME NEW j \in Call, Throw(j) PROVE RunnerInv'
  BY <1>13 DEF Throw, Finish, FreeSlot, CallDrain, Winner, AbortVerdict,
    ReleaseRun, Release
<1>14. ASSUME NEW j \in Call, DrainTimeout(j) PROVE RunnerInv'
  BY <1>14 DEF DrainTimeout, AbortVerdict
<1>15. ASSUME NEW j \in Call, PersistFails(j) PROVE RunnerInv'
  BY <1>15 DEF PersistFails, AbortVerdict, Fault
<1>16. ASSUME NEW j \in Call, SettleFails(j) PROVE RunnerInv'
  BY <1>16 DEF SettleFails, SettleErrorAs, FreeSlot, CallDrain, Winner,
    AbortVerdict, Fault
<1>17. ASSUME NEW j \in Call, PruneFails(j) PROVE RunnerInv'
  BY <1>17 DEF PruneFails, FreeSlot, Winner, Fault
<1>18. ASSUME NEW j \in Call, Cancel(j) PROVE RunnerInv'
  BY <1>18 DEF Cancel, CancelJobs, Winner
<1>19. ASSUME Stop PROVE RunnerInv'
  BY <1>19 DEF Stop
<1>20. ASSUME StopConfirmed PROVE RunnerInv'
  BY <1>20 DEF StopConfirmed, Forget
<1>21. ASSUME StopRefused PROVE RunnerInv'
  BY <1>21 DEF StopRefused
<1>22. ASSUME Crash PROVE RunnerInv'
  BY <1>22 DEF Crash, Forget
<1>23. ASSUME Restart PROVE RunnerInv'
  BY <1>23 DEF Restart, Recover, Winner
<1>24. ASSUME UNCHANGED vars PROVE RunnerInv'
  BY <1>24 DEF vars
<1> QED
  BY <1>1, <1>2, <1>3, <1>4, <1>5, <1>6, <1>7, <1>8, <1>9, <1>10,
    <1>11, <1>12, <1>13, <1>14, <1>15, <1>16, <1>17, <1>18, <1>19, <1>20,
    <1>21, <1>22, <1>23, <1>24 DEF Next, RunnerStep, FaultStep

\* Nothing but Persist writes a terminal, and nothing overwrites its row.
LEMMA TerminalInvStep ==
    ASSUME IInv, [Next]_vars
    PROVE  TerminalInv'
<1> USE NoVerdictAssumption DEF IInv, TypeOK, RunnerInv, TerminalInv,
      Verdicts, States, Phases, Class, Runs, Accepted, Delegated, Turn,
      Running, Unended, Live, durable, families, bounds
<1>1. ASSUME NEW j \in Call, Enqueue(j) \/ Attach(j) \/ Announce(j) \/
            Activate(j) \/ CancelFails(j) \/ Fence(j)
      PROVE  TerminalInv'
  BY <1>1 DEF Enqueue, Plan, Attach, Announce, Activate, CancelFails, Fault,
    Fence
<1>2. ASSUME DrainEnds \/ Stop \/ StopRefused
      PROVE  TerminalInv'
  BY <1>2 DEF DrainEnds, Stop, StopRefused
<1>3. ASSUME NEW j \in Call, Commit(j) PROVE TerminalInv'
  <2>1. CASE Plan(j) = "admit"
    BY <1>3, <2>1, AdmittedIsNew DEF Commit, CommitAs, CallDrain
  <2>2. CASE Plan(j) # "admit"
    BY <1>3, <2>2 DEF Commit, CommitAs
  <2> QED
    BY <2>1, <2>2
<1>4. ASSUME DrainNext PROVE TerminalInv'
  <2>1. PICK j \in Call : Taken(j)
    BY <1>4, DrainNextTakes
  <2> QED
    BY <2>1 DEF Taken, Fresh
<1>5. ASSUME DrainFails PROVE TerminalInv'
  <2>1. PICK j \in Call : Dropped(j)
    BY <1>5, DrainFailsDrops
  <2>2. CASE UNCHANGED <<active, phase>>
    BY <2>1, <2>2 DEF Dropped, Fresh
  <2>3. CASE /\ j \notin cancelled /\ active' = active \cup {j}
             /\ phase' = [phase EXCEPT ![j] = "leaked"] /\ UNCHANGED draining
    BY <2>1, <2>3 DEF Dropped, Fresh
  <2> QED
    BY <2>1, <2>2, <2>3 DEF Dropped
<1>6. ASSUME NEW j \in Call, Hold(j) PROVE TerminalInv'
  BY <1>6 DEF Hold
<1>7. ASSUME NEW j \in Call, CloseFamily(j) PROVE TerminalInv'
  BY <1>7 DEF CloseFamily, CancelJobs, Winner
<1>8. ASSUME NEW j \in Call, BarrierDone(j) PROVE TerminalInv'
  BY <1>8 DEF BarrierDone
<1>9. ASSUME NEW j \in Call, Persist(j) PROVE TerminalInv'
  BY <1>9 DEF Persist, PersistRow
<1>10. ASSUME NEW j \in Call, Return(j) PROVE TerminalInv'
  BY <1>10 DEF Return, ReleaseRun, Release, AbortVerdict
<1>11. ASSUME NEW j \in Call, Settle(j) PROVE TerminalInv'
  BY <1>11 DEF Settle, Finish, FreeSlot, CallDrain, Winner
<1>12. ASSUME NEW j \in Call, Throw(j) PROVE TerminalInv'
  BY <1>12 DEF Throw, Finish, FreeSlot, CallDrain, Winner, AbortVerdict,
    ReleaseRun, Release
<1>13. ASSUME NEW j \in Call, DrainTimeout(j) PROVE TerminalInv'
  BY <1>13 DEF DrainTimeout, AbortVerdict
<1>14. ASSUME NEW j \in Call, PersistFails(j) PROVE TerminalInv'
  BY <1>14 DEF PersistFails, AbortVerdict, Fault
<1>15. ASSUME NEW j \in Call, SettleFails(j) PROVE TerminalInv'
  BY <1>15 DEF SettleFails, SettleErrorAs, FreeSlot, CallDrain, Winner,
    AbortVerdict, Fault
<1>16. ASSUME NEW j \in Call, PruneFails(j) PROVE TerminalInv'
  BY <1>16 DEF PruneFails, FreeSlot, Winner, Fault
<1>17. ASSUME NEW j \in Call, Cancel(j) PROVE TerminalInv'
  BY <1>17 DEF Cancel, CancelJobs, Winner
<1>18. ASSUME StopConfirmed PROVE TerminalInv'
  BY <1>18 DEF StopConfirmed, Forget
<1>19. ASSUME Crash PROVE TerminalInv'
  BY <1>19 DEF Crash, Forget
<1>20. ASSUME Restart PROVE TerminalInv'
  BY <1>20 DEF Restart, Recover, Winner
<1>21. ASSUME UNCHANGED vars PROVE TerminalInv'
  BY <1>21 DEF vars
<1> QED
  BY <1>1, <1>2, <1>3, <1>4, <1>5, <1>6, <1>7, <1>8, <1>9, <1>10,
    <1>11, <1>12, <1>13, <1>14, <1>15, <1>16, <1>17, <1>18, <1>19, <1>20,
    <1>21 DEF Next, RunnerStep, FaultStep

\* Families open, close and release with their parents.
LEMMA FamilyInvStep ==
    ASSUME IInv, [Next]_vars
    PROVE  FamilyInv'
<1> USE CallAssumption, NoVerdictAssumption, RequestAssumption DEF IInv,
      TypeOK, RunnerInv, TerminalInv, Verdicts, States, Phases, Class, Runs,
      Accepted, Delegated, Turn, Running, Unended, Live, durable, families,
      bounds, FamilyInv, Children
<1>1. ASSUME NEW j \in Call, Enqueue(j) \/ PersistFails(j) \/ CancelFails(j)
      PROVE  FamilyInv'
  BY <1>1 DEF Enqueue, Plan, PersistFails, AbortVerdict, Fault, CancelFails
<1>2. ASSUME DrainEnds \/ Stop \/ StopRefused
      PROVE  FamilyInv'
  BY <1>2 DEF DrainEnds, Stop, StopRefused
<1>3. ASSUME NEW j \in Call, Commit(j) PROVE FamilyInv'
  <2>1. CASE Plan(j) = "admit"
    BY <1>3, <2>1, AdmittedIsNew DEF Commit, CommitAs, CallDrain, CanAdmitChild
  <2>2. CASE Plan(j) # "admit"
    BY <1>3, <2>2 DEF Commit, CommitAs
  <2> QED
    BY <2>1, <2>2
<1>4. ASSUME DrainNext PROVE FamilyInv'
  <2>1. PICK j \in Call : Taken(j)
    BY <1>4, DrainNextTakes
  <2> QED
    BY <2>1 DEF Taken, Fresh
<1>5. ASSUME DrainFails PROVE FamilyInv'
  <2>1. PICK j \in Call : Dropped(j)
    BY <1>5, DrainFailsDrops
  <2>2. CASE UNCHANGED <<active, phase>>
    BY <2>1, <2>2 DEF Dropped, Fresh
  <2>3. CASE /\ j \notin cancelled /\ active' = active \cup {j}
             /\ phase' = [phase EXCEPT ![j] = "leaked"] /\ UNCHANGED draining
    BY <2>1, <2>3 DEF Dropped, Fresh
  <2> QED
    BY <2>1, <2>2, <2>3 DEF Dropped
<1>6. ASSUME NEW j \in Call, Attach(j) PROVE FamilyInv'
  BY <1>6 DEF Attach
<1>7. ASSUME NEW j \in Call, Announce(j) PROVE FamilyInv'
  BY <1>7 DEF Announce
<1>8. ASSUME NEW j \in Call, Activate(j) PROVE FamilyInv'
  BY <1>8 DEF Activate
<1>9. ASSUME NEW j \in Call, Hold(j) PROVE FamilyInv'
  BY <1>9 DEF Hold
<1>10. ASSUME NEW j \in Call, CloseFamily(j) PROVE FamilyInv'
  BY <1>10 DEF CloseFamily, CancelJobs, Winner
<1>11. ASSUME NEW j \in Call, BarrierDone(j) PROVE FamilyInv'
  BY <1>11 DEF BarrierDone
<1>12. ASSUME NEW j \in Call, Persist(j) PROVE FamilyInv'
  BY <1>12 DEF Persist, PersistRow
<1>13. ASSUME NEW j \in Call, Return(j) PROVE FamilyInv'
  BY <1>13 DEF Return, ReleaseRun, Release, AbortVerdict
<1>14. ASSUME NEW j \in Call, Settle(j) PROVE FamilyInv'
  BY <1>14 DEF Settle, Finish, FreeSlot, CallDrain, Winner
<1>15. ASSUME NEW j \in Call, Throw(j) PROVE FamilyInv'
  BY <1>15 DEF Throw, Finish, FreeSlot, CallDrain, Winner, AbortVerdict,
    ReleaseRun, Release
<1>16. ASSUME NEW j \in Call, DrainTimeout(j) PROVE FamilyInv'
  BY <1>16 DEF DrainTimeout, AbortVerdict
<1>17. ASSUME NEW j \in Call, SettleFails(j) PROVE FamilyInv'
  BY <1>17 DEF SettleFails, SettleErrorAs, FreeSlot, CallDrain, Winner,
    AbortVerdict, Fault
<1>18. ASSUME NEW j \in Call, PruneFails(j) PROVE FamilyInv'
  BY <1>18 DEF PruneFails, FreeSlot, Winner, Fault
<1>19. ASSUME NEW j \in Call, Cancel(j) PROVE FamilyInv'
  BY <1>19 DEF Cancel, CancelJobs, Winner
<1>20. ASSUME NEW j \in Call, Fence(j) PROVE FamilyInv'
  BY <1>20 DEF Fence
<1>21. ASSUME StopConfirmed PROVE FamilyInv'
  BY <1>21 DEF StopConfirmed, Forget
<1>22. ASSUME Crash PROVE FamilyInv'
  BY <1>22 DEF Crash, Forget
<1>23. ASSUME Restart PROVE FamilyInv'
  BY <1>23 DEF Restart, Recover, Winner
<1>24. ASSUME UNCHANGED vars PROVE FamilyInv'
  BY <1>24 DEF vars
<1> QED
  BY <1>1, <1>2, <1>3, <1>4, <1>5, <1>6, <1>7, <1>8, <1>9, <1>10,
    <1>11, <1>12, <1>13, <1>14, <1>15, <1>16, <1>17, <1>18, <1>19, <1>20,
    <1>21, <1>22, <1>23, <1>24 DEF Next, RunnerStep, FaultStep

\* A child enters pending when it is accepted, moves to attached and leaves when
\* its runner ends; its parent's barrier waits for both.
LEMMA DrainInvStep ==
    ASSUME IInv, [Next]_vars
    PROVE  DrainInv'
<1> USE CallAssumption, NoVerdictAssumption, RequestAssumption,
      LineageAssumption DEF IInv, TypeOK, RunnerInv, TerminalInv, Verdicts,
      States, Phases, Class, Runs, Accepted, Delegated, Turn, Running,
      Unended, Live, durable, families, bounds, QueueInv, FamilyInv, DrainInv,
      Drained, Children
<1>1. ASSUME NEW j \in Call, Enqueue(j) \/ Announce(j) \/ Activate(j) \/
            PersistFails(j) \/ CancelFails(j) \/ Fence(j)
      PROVE  DrainInv'
  BY <1>1 DEF Enqueue, Plan, Announce, Activate, PersistFails, AbortVerdict,
    Fault, CancelFails, Fence
<1>2. ASSUME DrainEnds
      PROVE  DrainInv'
  BY <1>2 DEF DrainEnds
<1>3. ASSUME NEW j \in Call, Commit(j) PROVE DrainInv'
  <2>1. CASE Plan(j) = "admit"
    BY <1>3, <2>1, AdmittedIsNew DEF Commit, CommitAs, CallDrain, CanAdmitChild
  <2>2. CASE Plan(j) # "admit"
    BY <1>3, <2>2 DEF Commit, CommitAs
  <2> QED
    BY <2>1, <2>2
<1>4. ASSUME DrainNext PROVE DrainInv'
  <2>1. PICK j \in Call : Taken(j)
    BY <1>4, DrainNextTakes
  <2> QED
    BY <2>1 DEF Taken, Fresh
<1>5. ASSUME DrainFails PROVE DrainInv'
  <2>1. PICK j \in Call : Dropped(j)
    BY <1>5, DrainFailsDrops
  <2>2. CASE UNCHANGED <<active, phase>>
    BY <2>1, <2>2 DEF Dropped, Fresh
  <2>3. CASE /\ j \notin cancelled /\ active' = active \cup {j}
             /\ phase' = [phase EXCEPT ![j] = "leaked"] /\ UNCHANGED draining
    BY <2>1, <2>3 DEF Dropped, Fresh
  <2> QED
    BY <2>1, <2>2, <2>3 DEF Dropped
<1>6. ASSUME NEW j \in Call, Attach(j) PROVE DrainInv'
  BY <1>6 DEF Attach
<1>7. ASSUME NEW j \in Call, Hold(j) PROVE DrainInv'
  BY <1>7 DEF Hold
<1>8. ASSUME NEW j \in Call, CloseFamily(j) PROVE DrainInv'
  BY <1>8 DEF CloseFamily, CancelJobs, Winner, Family
<1>9. ASSUME NEW j \in Call, BarrierDone(j) PROVE DrainInv'
  BY <1>9 DEF BarrierDone, Family
<1>10. ASSUME NEW j \in Call, Persist(j) PROVE DrainInv'
  BY <1>10 DEF Persist, PersistRow
<1>11. ASSUME NEW j \in Call, Return(j) PROVE DrainInv'
  BY <1>11 DEF Return, ReleaseRun, Release, AbortVerdict
<1>12. ASSUME NEW j \in Call, Settle(j) PROVE DrainInv'
  BY <1>12 DEF Settle, Finish, FreeSlot, CallDrain, Winner
<1>13. ASSUME NEW j \in Call, Throw(j) PROVE DrainInv'
  BY <1>13 DEF Throw, Finish, FreeSlot, CallDrain, Winner, AbortVerdict,
    ReleaseRun, Release
<1>14. ASSUME NEW j \in Call, DrainTimeout(j) PROVE DrainInv'
  BY <1>14 DEF DrainTimeout, AbortVerdict, Family
<1>15. ASSUME NEW j \in Call, SettleFails(j) PROVE DrainInv'
  BY <1>15 DEF SettleFails, SettleErrorAs, FreeSlot, CallDrain, Winner,
    AbortVerdict, Fault
<1>16. ASSUME NEW j \in Call, PruneFails(j) PROVE DrainInv'
  BY <1>16 DEF PruneFails, FreeSlot, Winner, Fault
<1>17. ASSUME NEW j \in Call, Cancel(j) PROVE DrainInv'
  BY <1>17 DEF Cancel, CancelJobs, Winner
<1>18. ASSUME Stop PROVE DrainInv'
  BY <1>18 DEF Stop
<1>19. ASSUME StopConfirmed PROVE DrainInv'
  BY <1>19 DEF StopConfirmed, Forget
<1>20. ASSUME StopRefused PROVE DrainInv'
  BY <1>20 DEF StopRefused
<1>21. ASSUME Crash PROVE DrainInv'
  BY <1>21 DEF Crash, Forget
<1>22. ASSUME Restart PROVE DrainInv'
  BY <1>22 DEF Restart, Recover, Winner
<1>23. ASSUME UNCHANGED vars PROVE DrainInv'
  BY <1>23 DEF vars
<1> QED
  BY <1>1, <1>2, <1>3, <1>4, <1>5, <1>6, <1>7, <1>8, <1>9, <1>10,
    <1>11, <1>12, <1>13, <1>14, <1>15, <1>16, <1>17, <1>18, <1>19, <1>20,
    <1>21, <1>22, <1>23 DEF Next, RunnerStep, FaultStep

\* The invariant holds of the first daemon.
LEMMA InitIsSound == Init => IInv
<1> SUFFICES ASSUME Init
             PROVE  IInv
  OBVIOUS
<1>1. TypeOK
  <2>1. queue \in Seq(Call)
    BY EmptySeq DEF Init
  <2>2. restarts \in 0..MaxRestarts /\ faults \in 0..MaxFaults
    BY BoundAssumption DEF Init
  <2> QED
    BY <2>1, <2>2 DEF Init, TypeOK, States, Phases
<1>2. QueueInv
  BY DEF Init, QueueInv, IsInjective
<1>3. RunnerInv /\ TerminalInv
  BY DEF Init, RunnerInv, TerminalInv, Runs, Accepted, Unended
<1>4. FamilyInv /\ DrainInv
  BY RequestAssumption, NoVerdictAssumption
     DEF Init, FamilyInv, DrainInv, Accepted, Delegated, Children, Live, Unended
<1> QED
  BY <1>1, <1>2, <1>3, <1>4 DEF IInv

\* Every step of the daemon preserves the invariant.
LEMMA StepIsSound == IInv /\ [Next]_vars => IInv'
BY TypeOKStep, QueueInvStep, RunnerInvStep, TerminalInvStep, FamilyInvStep,
   DrainInvStep DEF IInv

\* The inductive invariant of the command path.
THEOREM CommandPathInvariant == Spec => []IInv
BY InitIsSound, StepIsSound, PTL DEF Spec

\* Every row, queue entry and runner has its type, for any number of calls,
\* keys and threads and whatever faults, stops and crashes happen.
THEOREM TypesAreCorrect == Spec => []TypeOK
<1>1. IInv => TypeOK
  BY DEF IInv
<1> QED
  BY <1>1, CommandPathInvariant, PTL

-----------------------------------------------------------------------------
\* No job is accepted in this step.
NoNewJob == \A k \in Call : Accepted(k)' => Accepted(k)

\* The slots are kept, and so is what waits between turns.
SameWait ==
    /\ active' = active /\ mode = "up" /\ ~draining
    /\ \A i \in DOMAIN queue' : \E k \in DOMAIN queue : queue'[i] = queue[k]

\* No slot is taken and no runner called in this step.
NoNewRunner == active' \subseteq active /\ \A j \in Call : Runs(j)' => Runs(j)

\* The order of the numbers, for the least-element principle.
Below == {ss \in Nat \X Nat : ss[1] < ss[2]}

\* A set of numbers that is not empty has a least one.
LEMMA LeastNumber ==
    ASSUME NEW S, S \subseteq Nat, S # {}
    PROVE  \E x \in S : \A y \in S : x <= y
<1>1. IsWellFoundedOn(Below, Nat)
  BY NatLessThanWellFounded DEF OpToRel, Below
<1>2. PICK x \in S : \A y \in S : <<y, x>> \notin Below
  BY <1>1, WFMin
<1>3. \A y \in S : x <= y
  <2> SUFFICES ASSUME NEW y \in S
               PROVE  x <= y
    OBVIOUS
  <2>1. x \in Nat /\ y \in Nat /\ <<y, x>> \notin Below
    BY <1>2
  <2> QED
    BY <2>1 DEF Below
<1> QED
  BY <1>3

\* eligibleJobIndex finds a job whenever an eligible one waits.
LEMMA SomeJobIsPicked ==
    ASSUME TypeOK, NEW i \in DOMAIN queue, Eligible(queue[i])
    PROVE  \E k \in DOMAIN queue : Picked(k)
<1> DEFINE child == {k \in DOMAIN queue : Delegated(queue[k])}
           kind == IF \E k \in DOMAIN queue : Delegated(queue[k]) /\ Eligible(queue[k])
                     THEN child ELSE DOMAIN queue
           ready == {k \in kind : Eligible(queue[k])}
<1>1. DOMAIN queue \subseteq Nat
  BY LenProperties DEF TypeOK
<1>2. ready # {} /\ ready \subseteq Nat
  BY <1>1
<1>3. PICK k \in ready : \A l \in ready : k <= l
  <2> HIDE DEF ready
  <2> QED BY <1>2, LeastNumber
<1>4. \A l \in kind : l < k => ~Eligible(queue[l])
  <2> SUFFICES ASSUME NEW l \in kind, l < k, Eligible(queue[l])
               PROVE  FALSE
    OBVIOUS
  <2>1. l \in ready /\ l \in Nat /\ k \in Nat
    BY <1>1
  <2> QED
    BY <1>3, <2>1
<1>5. Picked(k)
  BY <1>3, <1>4 DEF Picked
<1> QED
  BY <1>1, <1>5

\* A step that takes no slot and calls no runner keeps the caps.
LEMMA CapsShrink ==
    ASSUME TypeOK, AdmissionCaps, active' \subseteq active,
           \A j \in Call : Runs(j)' => Runs(j)
    PROVE  AdmissionCaps'
<1> DEFINE children(A) == {j \in A : Delegated(j)}
           ordinary(A) == A \ children(A)
           class(A, k) == {j \in ordinary(A) : ClassOf[j] = k}
<1>1. IsFiniteSet(active) /\ active' \in SUBSET active
  BY CallAssumption, FS_Subset DEF TypeOK
<1>2. /\ Cardinality(active) \in Nat /\ Cardinality(active') \in Nat
      /\ Cardinality(active') <= Cardinality(active)
      /\ Cardinality(active') = Cardinality(active) => active' = active
  BY <1>1, FS_Subset, FS_CardinalityType
<1>3. /\ Cardinality(ordinary(active')) <= Cardinality(ordinary(active))
      /\ Cardinality(ordinary(active)) \in Nat /\ Cardinality(ordinary(active')) \in Nat
  <2>1. ordinary(active') \in SUBSET ordinary(active) /\ ordinary(active) \in SUBSET active
    BY <1>1
  <2> HIDE DEF ordinary
  <2> QED
    BY <1>1, <2>1, FS_Subset, FS_CardinalityType
<1>4. ASSUME NEW k \in Class
      PROVE  /\ Cardinality(class(active', k)) <= Cardinality(class(active, k))
             /\ Cardinality(class(active, k)) \in Nat
             /\ Cardinality(class(active', k)) \in Nat
  <2>1. class(active', k) \in SUBSET class(active, k) /\ class(active, k) \in SUBSET active
    BY <1>1
  <2> HIDE DEF class
  <2> QED
    BY <1>1, <2>1, FS_Subset, FS_CardinalityType
<1>5. /\ Cardinality(active) <= Cap + 1
      /\ Cardinality(active) > Cap => Cardinality(children(active)) = 1
      /\ Cardinality(ordinary(active)) <= Cap
      /\ \A k \in Class : Cardinality(class(active, k)) <= ClassCap[k]
      /\ OneRunnerPerThread
  BY DEF AdmissionCaps
<1>6. OneRunnerPerThread'
  BY <1>5 DEF OneRunnerPerThread
<1>7. Cap \in Nat /\ \A k \in Class : ClassCap[k] \in Nat
  BY CapAssumption
<1>8. \A k \in Class : Cardinality(class(active', k)) <= ClassCap[k]
  <2> HIDE DEF class
  <2> QED BY <1>4, <1>5, <1>7
<1>9. /\ Cardinality(active') <= Cap + 1
      /\ Cardinality(active') > Cap => Cardinality(children(active')) = 1
      /\ Cardinality(ordinary(active')) <= Cap
  <2> HIDE DEF children, ordinary
  <2> QED BY <1>2, <1>3, <1>5, <1>7
<1> QED
  BY <1>6, <1>8, <1>9 DEF AdmissionCaps

\* An eligible job that takes a slot keeps the caps.
LEMMA CapsGrow ==
    ASSUME TypeOK, AdmissionCaps, NEW j \in Call \ active, Eligible(j),
           active' = active \cup {j}, \A i \in Call : Runs(i) => i \in active,
           \A i \in Call : Runs(i)' => Runs(i) \/ i = j
    PROVE  AdmissionCaps'
<1> DEFINE children(A) == {i \in A : Delegated(i)}
           ordinary(A) == A \ children(A)
           class(A, k) == {i \in ordinary(A) : ClassOf[i] = k}
           alike == {a \in active : ClassOf[a] = ClassOf[j]}
<1>1. IsFiniteSet(active) /\ active \in SUBSET Call
  BY CallAssumption, FS_Subset DEF TypeOK
<1>2. Cardinality(active) \in Nat /\ Cardinality(active') = Cardinality(active) + 1
  BY <1>1, FS_AddElement, FS_CardinalityType
<1>3. IsFiniteSet(ordinary(active)) /\ Cardinality(ordinary(active)) \in Nat
      /\ Cardinality(ordinary(active)) <= Cardinality(active)
  <2>1. ordinary(active) \in SUBSET active
    OBVIOUS
  <2> HIDE DEF ordinary
  <2> QED
    BY <1>1, <2>1, FS_Subset, FS_CardinalityType
<1>4. /\ Cardinality(active) <= Cap + 1
      /\ Cardinality(active) > Cap => Cardinality(children(active)) = 1
      /\ Cardinality(ordinary(active)) <= Cap
      /\ \A k \in Class : Cardinality(class(active, k)) <= ClassCap[k]
      /\ OneRunnerPerThread
  BY DEF AdmissionCaps
<1>5. Cap \in Nat /\ \A k \in Class : ClassCap[k] \in Nat
  BY CapAssumption
<1>6. OneRunnerPerThread'
  <2>1. ThreadOf[j] = None \/ \A a \in active : ThreadOf[a] # ThreadOf[j]
    BY DEF Eligible, ThreadBusy
  <2> QED
    BY <1>4, <2>1 DEF OneRunnerPerThread
<1>7. ASSUME ~CapReached(j)
      PROVE  AdmissionCaps'
  <2>1. Cardinality(active) < Cap /\ Cardinality(active) \in Nat
        /\ ~(Cardinality(alike) >= ClassCap[ClassOf[j]])
    BY <1>2, <1>5, <1>7 DEF CapReached
  <2>2. Cardinality(alike) \in Nat /\ IsFiniteSet(alike)
    <3>1. alike \in SUBSET active
      OBVIOUS
    <3> HIDE DEF alike
    <3> QED BY <1>1, <3>1, FS_Subset, FS_CardinalityType
  <2>3. Cardinality(active') <= Cap
    BY <1>2, <1>5, <2>1
  <2>4. Cardinality(ordinary(active')) <= Cap
    <3>1. ordinary(active') \in SUBSET active' /\ IsFiniteSet(active')
      BY <1>1, FS_AddElement
    <3> HIDE DEF ordinary
    <3>2. Cardinality(ordinary(active')) <= Cardinality(active')
          /\ Cardinality(ordinary(active')) \in Nat
      BY <3>1, FS_Subset, FS_CardinalityType
    <3> QED
      BY <1>2, <1>5, <2>3, <3>2
  <2>5. ASSUME NEW k \in Class
        PROVE  Cardinality(class(active', k)) <= ClassCap[k]
    <3>1. CASE ClassOf[j] = k
      <4>1. class(active', k) \in SUBSET (alike \cup {j})
        BY <3>1
      <4>2. IsFiniteSet(alike \cup {j}) /\ Cardinality(alike \cup {j}) <= Cardinality(alike) + 1
            /\ Cardinality(alike \cup {j}) \in Nat
        <5> HIDE DEF alike
        <5>1. /\ IsFiniteSet(alike \cup {j})
              /\ \/ Cardinality(alike \cup {j}) = Cardinality(alike)
                 \/ Cardinality(alike \cup {j}) = Cardinality(alike) + 1
          BY <2>2, FS_AddElement
        <5> QED BY <2>2, <5>1
      <4>3. Cardinality(class(active', k)) <= Cardinality(alike \cup {j})
            /\ Cardinality(class(active', k)) \in Nat
        <5> HIDE DEF class, alike
        <5> QED BY <4>1, <4>2, FS_Subset, FS_CardinalityType
      <4> HIDE DEF class, alike
      <4> QED BY <1>5, <2>1, <2>2, <3>1, <4>2, <4>3
    <3>2. CASE ClassOf[j] # k
      <4>1. class(active', k) = class(active, k)
        BY <3>2
      <4> QED BY <1>4, <4>1
    <3> QED BY <3>1, <3>2
  <2> QED
    BY <1>2, <1>5, <1>6, <2>3, <2>4, <2>5 DEF AdmissionCaps
<1>8. ASSUME Overflow(j)
      PROVE  AdmissionCaps'
  <2>1. Delegated(j) /\ \A a \in active : ~Delegated(a)
    BY <1>8 DEF Overflow
  <2>2. ordinary(active) = active /\ ordinary(active') = active /\ children(active') = {j}
    BY <2>1
  <2>3. \A k \in Class : class(active', k) = class(active, k)
    BY <2>2
  <2>4. Cardinality(children(active')) = 1
    BY <2>2, FS_Singleton
  <2>5. Cardinality(active) <= Cap
    <3> HIDE DEF ordinary, children
    <3> QED BY <1>4, <2>2
  <2>6. Cardinality(active') <= Cap + 1
    BY <1>2, <1>5, <2>5
  <2>7. Cardinality(ordinary(active')) <= Cap
    <3> HIDE DEF ordinary, children
    <3> QED BY <2>2, <2>5
  <2>8. \A k \in Class : Cardinality(class(active', k)) <= ClassCap[k]
    <3> HIDE DEF class
    <3> QED BY <1>4, <2>3
  <2> QED
    BY <1>6, <2>4, <2>6, <2>7, <2>8 DEF AdmissionCaps
<1> QED
  BY <1>7, <1>8 DEF Eligible

\* A step counts one failed write, or none, and none is ever taken back.
LEMMA FaultsOnlyGrow ==
    ASSUME TypeOK, [Next]_vars
    PROVE  /\ faults \in Nat
           /\ \/ faults' = faults
              \/ /\ faults' = faults + 1
                 /\ DrainFails \/ \E j \in Call : FaultStep(j) \/ CancelFails(j)
<1> USE DEF durable, families, bounds
<1>1. faults \in Nat
  BY BoundAssumption DEF TypeOK
<1>2. ASSUME NEW j \in Call, Enqueue(j) \/ Commit(j) \/ RunnerStep(j) \/ DrainTimeout(j)
                             \/ Cancel(j) \/ Fence(j)
      PROVE  faults' = faults
  <2>1. CASE Enqueue(j) \/ Commit(j) \/ DrainTimeout(j) \/ Cancel(j) \/ Fence(j)
    BY <2>1 DEF Enqueue, Commit, CommitAs, DrainTimeout, Cancel, Fence
  <2>2. CASE RunnerStep(j)
    BY <2>2 DEF RunnerStep, Attach, Announce, Activate, Hold, CloseFamily, BarrierDone,
      Persist, PersistRow, Return, Settle, Throw, Finish
  <2> QED
    BY <1>2, <2>1, <2>2
<1>3. ASSUME NEW j \in Call, FaultStep(j) \/ CancelFails(j)
      PROVE  faults' = faults + 1
  BY <1>3 DEF FaultStep, PersistFails, SettleFails, SettleErrorAs, PruneFails,
    CancelFails, Fault
<1>4. ASSUME DrainNext \/ DrainEnds \/ Stop \/ StopConfirmed \/ StopRefused \/ Crash
             \/ Restart \/ UNCHANGED vars
      PROVE  faults' = faults
  BY <1>4 DEF DrainNext, DrainNextSkipping, DrainEnds, Stop, StopConfirmed, StopRefused,
    Crash, Forget, Restart, Recover, vars
<1>5. ASSUME DrainFails
      PROVE  faults' = faults + 1
  BY <1>5 DEF DrainFails, Fault
<1> QED
  BY <1>1, <1>2, <1>3, <1>4, <1>5 DEF Next

\* Acceptance is the only step that makes a job.
LEMMA OnlyCommitAccepts ==
    ASSUME IInv, [Next]_vars, \A c \in Call : ~Commit(c)
    PROVE  NoNewJob
<1> USE NoVerdictAssumption DEF IInv, TypeOK, RunnerInv, TerminalInv,
      Verdicts, States, Runs, Turn, Running, Unended, Accepted, NoNewJob,
      durable, families, bounds
<1>1. ASSUME NEW j \in Call, Enqueue(j) \/ Attach(j) \/ Announce(j) \/
            Activate(j) \/ Hold(j) \/ BarrierDone(j) \/ Return(j) \/
            DrainTimeout(j) \/ PersistFails(j) \/ CancelFails(j) \/ Fence(j)
      PROVE  NoNewJob
  BY <1>1 DEF Enqueue, Plan, Attach, Announce, Activate, Hold, BarrierDone,
    Return, ReleaseRun, Release, AbortVerdict, DrainTimeout, PersistFails,
    Fault, CancelFails, Fence
<1>2. ASSUME DrainEnds \/ Stop \/ StopRefused \/ StopConfirmed \/ Crash \/
            DrainFails
      PROVE  NoNewJob
  BY <1>2 DEF DrainEnds, Stop, StopRefused, StopConfirmed, Forget, Crash,
    DrainFails, Fault
<1>3. ASSUME DrainNext PROVE NoNewJob
  <2>1. PICK j \in Call : Taken(j)
    BY <1>3, DrainNextTakes
  <2> QED
    BY <2>1 DEF Taken, Fresh
<1>4. ASSUME NEW j \in Call, CloseFamily(j) PROVE NoNewJob
  BY <1>4 DEF CloseFamily, CancelJobs, Winner
<1>5. ASSUME NEW j \in Call, Persist(j) PROVE NoNewJob
  BY <1>5 DEF Persist, PersistRow
<1>6. ASSUME NEW j \in Call, Settle(j) PROVE NoNewJob
  BY <1>6 DEF Settle, Finish, FreeSlot, CallDrain, Winner
<1>7. ASSUME NEW j \in Call, Throw(j) PROVE NoNewJob
  BY <1>7 DEF Throw, Finish, FreeSlot, CallDrain, Winner, AbortVerdict,
    ReleaseRun, Release
<1>8. ASSUME NEW j \in Call, SettleFails(j) PROVE NoNewJob
  BY <1>8 DEF SettleFails, SettleErrorAs, FreeSlot, CallDrain, Winner,
    AbortVerdict, Fault
<1>9. ASSUME NEW j \in Call, PruneFails(j) PROVE NoNewJob
  BY <1>9 DEF PruneFails, FreeSlot, Winner, Fault
<1>10. ASSUME NEW j \in Call, Cancel(j) PROVE NoNewJob
  BY <1>10 DEF Cancel, CancelJobs, Winner
<1>11. ASSUME Restart PROVE NoNewJob
  BY <1>11 DEF Restart, Recover, Winner
<1>12. ASSUME UNCHANGED vars PROVE NoNewJob
  BY <1>12 DEF vars
<1> QED
  BY <1>1, <1>2, <1>3, <1>4, <1>5, <1>6, <1>7, <1>8, <1>9,
    <1>10, <1>11, <1>12 DEF Next, RunnerStep, FaultStep

\* What RowOwned says of one row.
RowOwned(j) ==
    mode # "down" =>
        /\ state[j] = "queued" => \E i \in DOMAIN queue : queue[i] = j
        /\ state[j] = "running" => Runs(j)

Lost == {j \in Call : ~RowOwned(j)}

\* Unless a write fails, whatever takes a job out of the queue, or ends its runner,
\* also takes its row out of "queued" and "running".
LEMMA RowOwnedStep ==
    ASSUME IInv, [Next]_vars, faults' = faults, NEW r \in Call, RowOwned(r)
    PROVE  RowOwned(r)'
<1> USE BoundAssumption, NoVerdictAssumption DEF IInv, TypeOK, RunnerInv,
      TerminalInv, Verdicts, States, Accepted, Runs, Turn, Running, Unended,
      RowOwned, durable, families, bounds
<1>1. ASSUME NEW j \in Call, Enqueue(j) \/ Attach(j) \/ Announce(j) \/
            Activate(j) \/ Fence(j)
      PROVE  RowOwned(r)'
  BY <1>1 DEF Enqueue, Plan, Attach, Announce, Activate, Fence
<1>2. ASSUME NEW j \in Call, Commit(j) PROVE RowOwned(r)'
  <2>1. CASE Plan(j) = "admit"
    <3>1. queue' = Append(queue, j) /\ state' = [state EXCEPT ![j] = "queued"]
          /\ phase' = phase /\ mode # "down"
      BY <1>2, <2>1 DEF Commit, CommitAs
    <3>2. DOMAIN queue = 1..Len(queue) /\ Len(queue) \in Nat
          /\ DOMAIN queue' = 1..Len(queue) + 1
          /\ (\A i \in 1..Len(queue) : queue'[i] = queue[i])
          /\ queue'[Len(queue) + 1] = j
      BY <3>1, AppendProperties, LenProperties
    <3>3. \E i \in DOMAIN queue' : queue'[i] = j
      BY <3>2
    <3>4. \A k \in Call : (\E i \in DOMAIN queue : queue[i] = k)
                            => \E i \in DOMAIN queue' : queue'[i] = k
      BY <3>2
    <3> QED
      BY <3>1, <3>3, <3>4
  <2>2. CASE Plan(j) # "admit"
    BY <1>2, <2>2 DEF Commit, CommitAs
  <2> QED
    BY <2>1, <2>2
<1>3. ASSUME DrainNext PROVE RowOwned(r)'
  <2>1. PICK j \in Call : Taken(j)
    BY <1>3, DrainNextTakes
  <2> QED
    BY <2>1 DEF Taken, Fresh, LeavesQueue
<1>4. ASSUME DrainEnds PROVE RowOwned(r)'
  BY <1>4 DEF DrainEnds
<1>5. ASSUME DrainFails PROVE RowOwned(r)'
  BY <1>5 DEF DrainFails, Fault
<1>6. ASSUME NEW j \in Call, Hold(j) PROVE RowOwned(r)'
  BY <1>6 DEF Hold
<1>7. ASSUME NEW j \in Call, CloseFamily(j) PROVE RowOwned(r)'
  <2>1. LeavesQueue({k \in Family(j) : state[k] = "queued"})
    BY <1>7, CancelLeaves DEF CloseFamily
  <2> QED
    <3>1. /\ mode # "down"
          /\ \A k \in Call : Runs(k) => Runs(k)'
          /\ \A k \in Call : state'[k] = "queued" =>
               state[k] = "queued" /\ k \notin {l \in Family(j) : state[l] = "queued"}
          /\ \A k \in Call : state'[k] = "running" => state[k] = "running"
      BY <1>7 DEF CloseFamily, CancelJobs, Winner
    <3> QED
      BY <2>1, <3>1 DEF LeavesQueue
<1>8. ASSUME NEW j \in Call, BarrierDone(j) PROVE RowOwned(r)'
  BY <1>8 DEF BarrierDone
<1>9. ASSUME NEW j \in Call, Persist(j) PROVE RowOwned(r)'
  BY <1>9 DEF Persist, PersistRow
<1>10. ASSUME NEW j \in Call, Return(j) PROVE RowOwned(r)'
  BY <1>10 DEF Return, ReleaseRun, Release, AbortVerdict
<1>11. ASSUME NEW j \in Call, Settle(j) PROVE RowOwned(r)'
  BY <1>11 DEF Settle, Finish, FreeSlot, CallDrain, Winner
<1>12. ASSUME NEW j \in Call, Throw(j) PROVE RowOwned(r)'
  BY <1>12 DEF Throw, Finish, FreeSlot, CallDrain, Winner, AbortVerdict,
    ReleaseRun, Release
<1>13. ASSUME NEW j \in Call, DrainTimeout(j) PROVE RowOwned(r)'
  BY <1>13 DEF DrainTimeout, AbortVerdict
<1>14. ASSUME NEW j \in Call, PersistFails(j) PROVE RowOwned(r)'
  BY <1>14 DEF PersistFails, Fault
<1>15. ASSUME NEW j \in Call, SettleFails(j) PROVE RowOwned(r)'
  BY <1>15 DEF SettleFails, SettleErrorAs, Fault
<1>16. ASSUME NEW j \in Call, PruneFails(j) PROVE RowOwned(r)'
  BY <1>16 DEF PruneFails, Fault
<1>17. ASSUME NEW j \in Call, Cancel(j) PROVE RowOwned(r)'
  <2>1. LeavesQueue({k \in {j} : state[k] = "queued"})
    BY <1>17, CancelLeaves DEF Cancel
  <2> QED
    <3>1. /\ mode # "down" /\ phase' = phase
          /\ \A k \in Call : state'[k] = "queued" =>
               state[k] = "queued" /\ k \notin {l \in {j} : state[l] = "queued"}
          /\ \A k \in Call : state'[k] = "running" => state[k] = "running"
      BY <1>17 DEF Cancel, CancelJobs, Winner
    <3> QED
      BY <2>1, <3>1 DEF LeavesQueue
<1>18. ASSUME NEW j \in Call, CancelFails(j) PROVE RowOwned(r)'
  BY <1>18 DEF CancelFails, Fault
<1>19. ASSUME Stop PROVE RowOwned(r)'
  BY <1>19 DEF Stop
<1>20. ASSUME StopConfirmed PROVE RowOwned(r)'
  BY <1>20 DEF StopConfirmed, Forget
<1>21. ASSUME StopRefused PROVE RowOwned(r)'
  BY <1>21 DEF StopRefused
<1>22. ASSUME Crash PROVE RowOwned(r)'
  BY <1>22 DEF Crash, Forget
<1>23. ASSUME Restart PROVE RowOwned(r)'
  BY <1>23 DEF Restart, Recover, Winner
<1>24. ASSUME UNCHANGED vars PROVE RowOwned(r)'
  BY <1>24 DEF vars
<1> QED
  BY <1>1, <1>2, <1>3, <1>4, <1>5, <1>6, <1>7, <1>8, <1>9, <1>10,
    <1>11, <1>12, <1>13, <1>14, <1>15, <1>16, <1>17, <1>18, <1>19, <1>20,
    <1>21, <1>22, <1>23, <1>24 DEF Next, RunnerStep, FaultStep

\* A write that fails leaves at most the row it was about without an owner.
LEMMA FaultLosesOneRow ==
    ASSUME IInv, DrainFails \/ \E j \in Call : FaultStep(j) \/ CancelFails(j)
    PROVE  \E j \in Call : \A r \in Call \ {j} : RowOwned(r) => RowOwned(r)'
<1> USE DEF IInv, TypeOK, RowOwned, Runs, durable, families, bounds
<1>1. ASSUME DrainFails
      PROVE  \E j \in Call : \A r \in Call \ {j} : RowOwned(r) => RowOwned(r)'
  <2>1. PICK i \in DOMAIN queue :
           /\ queue' = RemoveAt(queue, i)
           /\ state' = state /\ mode' = mode
           /\ \/ phase' = phase
              \/ phase' = [phase EXCEPT ![queue[i]] = "leaked"]
    BY <1>1 DEF DrainFails
  <2>2. queue[i] \in Call
    BY QueuedIsFresh
  <2>3. LeavesQueue({queue[i]})
    BY <2>1, PickLeaves
  <2>4. \A r \in Call \ {queue[i]} : phase'[r] = phase[r]
    BY <2>1
  <2>5. \A r \in Call \ {queue[i]} : RowOwned(r) => RowOwned(r)'
    BY <2>1, <2>3, <2>4 DEF LeavesQueue
  <2> QED
    BY <2>2, <2>5
<1>2. ASSUME NEW j \in Call, FaultStep(j) \/ CancelFails(j)
      PROVE  \A r \in Call \ {j} : RowOwned(r) => RowOwned(r)'
  <2>1. queue' = queue /\ mode' = mode
    BY <1>2 DEF FaultStep, PersistFails, SettleFails, SettleErrorAs, PruneFails, CancelFails
  <2>2. \A r \in Call \ {j} : phase'[r] = phase[r] /\ state'[r] = state[r]
    BY <1>2 DEF FaultStep, PersistFails, SettleFails, SettleErrorAs, PruneFails,
      CancelFails, FreeSlot
  <2> QED
    BY <2>1, <2>2
<1> QED
  BY <1>1, <1>2

\* The rows without an owner are never more than the writes that failed.
LEMMA FaultsBoundLostStep ==
    ASSUME IInv, Cardinality(Lost) <= faults, [Next]_vars
    PROVE  Cardinality(Lost') <= faults'
<1>1. /\ faults \in Nat
      /\ \/ faults' = faults
         \/ /\ faults' = faults + 1
            /\ DrainFails \/ \E j \in Call : FaultStep(j) \/ CancelFails(j)
  BY FaultsOnlyGrow DEF IInv
<1>2. IsFiniteSet(Lost) /\ IsFiniteSet(Lost') /\ Cardinality(Lost) \in Nat
      /\ Cardinality(Lost') \in Nat
  BY CallAssumption, FS_Subset, FS_CardinalityType DEF Lost
<1>3. CASE faults' = faults
  <2>1. Lost' \subseteq Lost
    BY <1>3, RowOwnedStep DEF Lost
  <2>2. Cardinality(Lost') <= Cardinality(Lost)
    BY <1>2, <2>1, FS_Subset
  <2> QED
    BY <1>1, <1>2, <1>3, <2>2
<1>4. CASE faults' = faults + 1
  <2>1. PICK j \in Call : \A r \in Call \ {j} : RowOwned(r) => RowOwned(r)'
    BY <1>1, <1>4, FaultLosesOneRow
  <2>2. Lost' \subseteq Lost \cup {j}
    BY <2>1 DEF Lost
  <2>3. IsFiniteSet(Lost \cup {j}) /\ Cardinality(Lost \cup {j}) <= Cardinality(Lost) + 1
    BY <1>2, FS_AddElement
  <2>4. Cardinality(Lost') <= Cardinality(Lost \cup {j})
    BY <2>2, <2>3, FS_Subset
  <2>5. Cardinality(Lost \cup {j}) \in Nat
    BY <2>3, FS_CardinalityType
  <2> QED
    BY <1>1, <1>2, <1>4, <2>3, <2>4, <2>5
<1> QED
  BY <1>1, <1>3, <1>4

\* Only the loop of drain() takes a slot or calls a runner.
LEMMA OnlyDrainStarts ==
    ASSUME IInv, [Next]_vars, ~DrainNext, ~DrainFails
    PROVE  NoNewRunner
<1> USE DEF IInv, TypeOK, RunnerInv, Runs, Turn, Running, NoNewRunner,
      durable, families, bounds
<1>1. ASSUME NEW j \in Call, Enqueue(j) \/ Attach(j) \/ Announce(j) \/
            Activate(j) \/ PersistFails(j) \/ Cancel(j) \/ CancelFails(j) \/
            Fence(j)
      PROVE  NoNewRunner
  BY <1>1 DEF Enqueue, Plan, Attach, Announce, Activate, PersistFails,
    AbortVerdict, Fault, Cancel, CancelJobs, Winner, CancelFails, Fence
<1>2. ASSUME DrainEnds \/ Stop \/ StopRefused \/ Restart
      PROVE  NoNewRunner
  BY <1>2 DEF DrainEnds, Stop, StopRefused, Restart, Recover, Winner
<1>3. ASSUME NEW j \in Call, Commit(j) PROVE NoNewRunner
  BY <1>3 DEF Commit, CommitAs, CallDrain
<1>4. ASSUME NEW j \in Call, Hold(j) PROVE NoNewRunner
  BY <1>4 DEF Hold
<1>5. ASSUME NEW j \in Call, CloseFamily(j) PROVE NoNewRunner
  BY <1>5 DEF CloseFamily, CancelJobs, Winner
<1>6. ASSUME NEW j \in Call, BarrierDone(j) PROVE NoNewRunner
  BY <1>6 DEF BarrierDone
<1>7. ASSUME NEW j \in Call, Persist(j) PROVE NoNewRunner
  BY <1>7 DEF Persist, PersistRow
<1>8. ASSUME NEW j \in Call, Return(j) PROVE NoNewRunner
  BY <1>8 DEF Return, ReleaseRun, Release, AbortVerdict
<1>9. ASSUME NEW j \in Call, Settle(j) PROVE NoNewRunner
  BY <1>9 DEF Settle, Finish, FreeSlot, CallDrain, Winner
<1>10. ASSUME NEW j \in Call, Throw(j) PROVE NoNewRunner
  BY <1>10 DEF Throw, Finish, FreeSlot, CallDrain, Winner, AbortVerdict,
    ReleaseRun, Release
<1>11. ASSUME NEW j \in Call, DrainTimeout(j) PROVE NoNewRunner
  BY <1>11 DEF DrainTimeout, AbortVerdict
<1>12. ASSUME NEW j \in Call, SettleFails(j) PROVE NoNewRunner
  BY <1>12 DEF SettleFails, SettleErrorAs, FreeSlot, CallDrain, Winner,
    AbortVerdict, Fault
<1>13. ASSUME NEW j \in Call, PruneFails(j) PROVE NoNewRunner
  BY <1>13 DEF PruneFails, FreeSlot, Winner, Fault
<1>14. ASSUME StopConfirmed PROVE NoNewRunner
  BY <1>14 DEF StopConfirmed, Forget
<1>15. ASSUME Crash PROVE NoNewRunner
  BY <1>15 DEF Crash, Forget
<1>16. ASSUME UNCHANGED vars PROVE NoNewRunner
  BY <1>16 DEF vars
<1> QED
  BY <1>1, <1>2, <1>3, <1>4, <1>5, <1>6, <1>7, <1>8,
    <1>9, <1>10, <1>11, <1>12, <1>13, <1>14, <1>15, <1>16 DEF Next,
    RunnerStep, FaultStep

\* Until a write fails, a turn that ends outside drain() left the slots alone and
\* added nothing to the queue: what does more calls drain().
LEMMA WaitingIsKept ==
    ASSUME IInv, [Next]_vars, faults' = 0, mode' = "up", ~draining', ~DrainEnds, ~Restart
    PROVE  SameWait
<1> USE BoundAssumption DEF IInv, TypeOK, RunnerInv, Turn, Running, SameWait,
      durable, families, bounds
<1>1. ASSUME NEW j \in Call, Enqueue(j) \/ Attach(j) \/ Announce(j) \/
            Activate(j) \/ Hold(j) \/ BarrierDone(j) \/ Persist(j) \/
            Return(j) \/ DrainTimeout(j) \/ Fence(j)
      PROVE  SameWait
  BY <1>1 DEF Enqueue, Plan, Attach, Announce, Activate, Hold, BarrierDone,
    Persist, PersistRow, Return, ReleaseRun, Release, AbortVerdict,
    DrainTimeout, Fence
<1>2. ASSUME Stop \/ StopRefused
      PROVE  SameWait
  BY <1>2 DEF Stop, StopRefused
<1>3. ASSUME NEW j \in Call, Commit(j) PROVE SameWait
  <2>1. CASE Plan(j) = "admit"
    BY <1>3, <2>1 DEF Commit, CommitAs, CallDrain
  <2>2. CASE Plan(j) # "admit"
    BY <1>3, <2>2 DEF Commit, CommitAs
  <2> QED
    BY <2>1, <2>2
<1>4. ASSUME DrainNext PROVE SameWait
  BY <1>4 DEF DrainNext, DrainNextSkipping
<1>5. ASSUME DrainFails PROVE SameWait
  BY <1>5 DEF DrainFails, Fault
<1>6. ASSUME NEW j \in Call, CloseFamily(j) PROVE SameWait
  <2>1. LeavesQueue({k \in Family(j) : state[k] = "queued"})
    BY <1>6, CancelLeaves DEF CloseFamily
  <2>2. active' = active /\ mode = "up" /\ ~draining
    BY <1>6 DEF CloseFamily
  <2> QED
    BY <2>1, <2>2 DEF LeavesQueue
<1>7. ASSUME NEW j \in Call, Settle(j) PROVE SameWait
  BY <1>7 DEF Settle, Finish, CallDrain
<1>8. ASSUME NEW j \in Call, Throw(j) PROVE SameWait
  BY <1>8 DEF Throw, Finish, CallDrain
<1>9. ASSUME NEW j \in Call, PersistFails(j) PROVE SameWait
  BY <1>9 DEF PersistFails, Fault
<1>10. ASSUME NEW j \in Call, SettleFails(j) PROVE SameWait
  BY <1>10 DEF SettleFails, SettleErrorAs, Fault
<1>11. ASSUME NEW j \in Call, PruneFails(j) PROVE SameWait
  BY <1>11 DEF PruneFails, Fault
<1>12. ASSUME NEW j \in Call, Cancel(j) PROVE SameWait
  <2>1. LeavesQueue({k \in {j} : state[k] = "queued"})
    BY <1>12, CancelLeaves DEF Cancel
  <2>2. active' = active /\ mode = "up" /\ ~draining
    BY <1>12 DEF Cancel
  <2> QED
    BY <2>1, <2>2 DEF LeavesQueue
<1>13. ASSUME NEW j \in Call, CancelFails(j) PROVE SameWait
  BY <1>13 DEF CancelFails, Fault
<1>14. ASSUME StopConfirmed PROVE SameWait
  BY <1>14 DEF StopConfirmed, Forget
<1>15. ASSUME Crash PROVE SameWait
  BY <1>15 DEF Crash, Forget
<1>16. ASSUME UNCHANGED vars PROVE SameWait
  BY <1>16 DEF vars
<1> QED
  BY <1>1, <1>2, <1>3, <1>4, <1>5, <1>6, <1>7, <1>8, <1>9,
    <1>10, <1>11, <1>12, <1>13, <1>14, <1>15, <1>16 DEF Next,
    RunnerStep, FaultStep

\* A request is accepted only when no job holds its key.
LEMMA OneJobPerKeyStep ==
    ASSUME IInv, OneJobPerKey, [Next]_vars
    PROVE  OneJobPerKey'
<1>1. ASSUME NEW c \in Call, Commit(c)
      PROVE  OneJobPerKey'
  <2>1. CASE Plan(c) = "admit"
    <3>1. \A j \in Call : Accepted(j) => KeyOf[j] # KeyOf[c]
      BY <2>1, AdmittedIsNew DEF IInv
    <3>2. \A j \in Call : Accepted(j)' => Accepted(j) \/ j = c
      BY <1>1, <2>1 DEF Commit, CommitAs, Accepted, IInv, TypeOK
    <3> QED
      BY <3>1, <3>2 DEF OneJobPerKey
  <2>2. CASE Plan(c) # "admit"
    BY <1>1, <2>2 DEF Commit, CommitAs, OneJobPerKey, Accepted
  <2> QED
    BY <2>1, <2>2
<1>2. ASSUME \A c \in Call : ~Commit(c)
      PROVE  OneJobPerKey'
  BY <1>2, OnlyCommitAccepts DEF OneJobPerKey, NoNewJob
<1> QED
  BY <1>1, <1>2

\* Only the loop of drain() takes a slot, for a job that the limits admit.
LEMMA AdmissionCapsStep ==
    ASSUME IInv, AdmissionCaps, [Next]_vars
    PROVE  AdmissionCaps'
<1>1. \A i \in Call : Runs(i) => i \in active
  BY DEF IInv, RunnerInv, Runs
<1>2. CASE DrainNext
  <2>1. PICK j \in Call : Taken(j)
    BY <1>2, DrainNextTakes
  <2>2. CASE j \in cancelled
    <3>1. active' = active /\ phase' = phase
      BY <2>1, <2>2 DEF Taken
    <3> QED
      BY <3>1, CapsShrink DEF IInv, Runs
  <2>3. CASE j \notin cancelled
    <3>1. /\ j \in Call \ active /\ Eligible(j) /\ active' = active \cup {j}
          /\ \A i \in Call : Runs(i)' => Runs(i) \/ i = j
      BY <2>1, <2>3 DEF Taken, Fresh, IInv, TypeOK, Runs
    <3> QED
      BY <1>1, <3>1, CapsGrow DEF IInv
  <2> QED
    BY <2>2, <2>3
<1>3. CASE DrainFails
  <2>1. PICK j \in Call : Dropped(j)
    BY <1>3, DrainFailsDrops
  <2>2. CASE UNCHANGED <<active, phase>>
    BY <2>2, CapsShrink DEF IInv, Runs
  <2>3. CASE active' = active \cup {j} /\ phase' = [phase EXCEPT ![j] = "leaked"]
    <3>1. /\ j \in Call \ active /\ Eligible(j)
          /\ \A i \in Call : Runs(i)' => Runs(i)
      BY <2>1, <2>3 DEF Dropped, Fresh, IInv, TypeOK, Runs
    <3> QED
      BY <1>1, <2>3, <3>1, CapsGrow DEF IInv
  <2> QED
    BY <2>1, <2>2, <2>3 DEF Dropped
<1>4. CASE ~DrainNext /\ ~DrainFails
  BY <1>4, OnlyDrainStarts, CapsShrink DEF IInv, NoNewRunner
<1> QED
  BY <1>2, <1>3, <1>4

\* The loop ends when nothing is eligible, and what frees a slot calls it again.
LEMMA CompletionStep ==
    ASSUME IInv, CompletionRetriesAdmission, [Next]_vars, faults' = 0
    PROVE  CompletionRetriesAdmission'
<1> SUFFICES ASSUME mode' = "up", ~draining', NEW i \in DOMAIN queue'
             PROVE  ~Eligible(queue[i])'
  BY DEF CompletionRetriesAdmission
<1>1. CASE DrainEnds
  <2>1. queue' = queue /\ active' = active /\ ~Eligible(queue[i])
    BY <1>1, SomeJobIsPicked DEF DrainEnds, IInv
  <2> QED
    BY <2>1 DEF Eligible, ThreadBusy, Overflow, CapReached
<1>2. CASE Restart
  <2>1. queue' = <<>>
    BY <1>2 DEF Restart, Recover, IInv, QueueInv
  <2> QED
    BY <2>1
<1>3. CASE ~DrainEnds /\ ~Restart
  <2>1. SameWait
    BY <1>3, WaitingIsKept
  <2>2. PICK k \in DOMAIN queue : queue'[i] = queue[k]
    BY <2>1 DEF SameWait
  <2>3. active' = active /\ ~Eligible(queue[k])
    BY <2>1 DEF SameWait, CompletionRetriesAdmission
  <2> QED
    BY <2>2, <2>3 DEF Eligible, ThreadBusy, Overflow, CapReached
<1> QED
  BY <1>1, <1>2, <1>3

\* Only the loop of drain() calls a runner, for a job that is fresh, while the
\* daemon is not stopping.
LEMMA StartsOnceStep ==
    ASSUME IInv, IInv', [Next]_vars, NEW j \in Call, Starts(j)
    PROVE  j \notin started /\ j \notin cancelled /\ ~Stopping
<1>1. CASE DrainNext
  <2>1. PICK k \in Call : Taken(k)
    BY <1>1, DrainNextTakes
  <2>2. j = k /\ k \notin cancelled
    BY <2>1 DEF Taken, Starts, IInv, TypeOK
  <2> QED
    BY <2>1, <2>2 DEF Taken, Fresh, IInv, RunnerInv, Stopping
<1>2. CASE DrainFails
  <2>1. PICK k \in Call : Dropped(k)
    BY <1>2, DrainFailsDrops
  <2>2. j = k /\ k \notin cancelled
    BY <2>1 DEF Dropped, Starts, IInv, TypeOK
  <2>3. draining /\ k \notin started
    BY <2>1 DEF Dropped, Fresh
  <2> QED
    BY <2>2, <2>3 DEF IInv, RunnerInv, Stopping
<1>3. CASE ~DrainNext /\ ~DrainFails
  <2>1. active' \subseteq active
    BY <1>3, OnlyDrainStarts DEF NoNewRunner
  <2>2. j \notin active /\ j \in active'
    BY DEF Starts, IInv, RunnerInv
  <2> QED
    BY <2>1, <2>2
<1> QED
  BY <1>1, <1>2, <1>3

-----------------------------------------------------------------------------
\* The durable terminal is the command's outcome (nextRecord).
THEOREM DurableTerminalWins == Spec => []DurableVerdictWins
<1>1. IInv => DurableVerdictWins
  BY DEF IInv, TerminalInv, DurableVerdictWins
<1> QED
  BY <1>1, CommandPathInvariant, PTL

\* No parent publishes its terminal over a living family, unless its drain
\* timed out (waitForChildren).
THEOREM FamilyIsDrained == Spec => []FamilyDrained
<1>1. IInv => FamilyDrained
  BY DEF IInv, DrainInv, Drained, FamilyDrained
<1> QED
  BY <1>1, CommandPathInvariant, PTL

\* The runner of a job is called at most once over all lives of the daemon,
\* never after a cancel and never once stop() was called (drain).
THEOREM RunnerStartsOnce == Spec => StartsOnce
<1>1. IInv /\ IInv' /\ [Next]_vars =>
        [\A j \in Call :
           Starts(j) => j \notin started /\ j \notin cancelled /\ ~Stopping]_vars
  BY StartsOnceStep
<1> QED
  BY <1>1, CommandPathInvariant, PTL DEF Spec, StartsOnce

\* Retries of one request make one job, always; and a failed write costs at most
\* one accepted job its owner, so that none is lost before the first
\* (planEnqueue, acceptIntent, drain, runJob).
THEOREM AcceptanceIsExactlyOnce ==
    Spec => []( /\ OneJobPerKey
                /\ Cardinality(Lost) <= faults
                /\ faults = 0 => AcceptedExactlyOnce )
<1> DEFINE Inv == OneJobPerKey /\ Cardinality(Lost) <= faults
<1>1. Init => Inv
  <2> SUFFICES ASSUME Init
               PROVE  Inv
    OBVIOUS
  <2>1. OneJobPerKey
    BY DEF Init, OneJobPerKey, Accepted
  <2>2. Lost = {}
    BY DEF Init, Lost, RowOwned
  <2> QED
    BY <2>1, <2>2, FS_EmptySet DEF Init
<1>2. IInv /\ Inv /\ [Next]_vars => Inv'
  <2> SUFFICES ASSUME IInv, Inv, [Next]_vars
               PROVE  Inv'
    OBVIOUS
  <2>1. OneJobPerKey'
    BY OneJobPerKeyStep
  <2>2. Cardinality(Lost') <= faults'
    BY FaultsBoundLostStep
  <2> QED
    BY <2>1, <2>2
<1>3. Inv => /\ OneJobPerKey
             /\ Cardinality(Lost) <= faults
             /\ faults = 0 => AcceptedExactlyOnce
  <2> SUFFICES ASSUME Inv, faults = 0
               PROVE  EveryLiveRowIsOwned
    BY DEF AcceptedExactlyOnce
  <2>1. IsFiniteSet(Lost) /\ Cardinality(Lost) \in Nat
    BY CallAssumption, FS_Subset, FS_CardinalityType DEF Lost
  <2>2. Lost = {}
    BY <2>1, FS_EmptySet
  <2> QED
    BY <2>2 DEF Lost, RowOwned, EveryLiveRowIsOwned
<1> HIDE DEF Inv
<1> QED
  BY <1>1, <1>2, <1>3, CommandPathInvariant, PTL DEF Spec

\* The caps hold up to the one Delegate overflow, and no thread has two runners
\* (eligibleJobIndex), for any caps.
THEOREM CapsHold == Spec => []AdmissionCaps
<1>1. Init => AdmissionCaps
  <2> SUFFICES ASSUME Init
               PROVE  AdmissionCaps
    OBVIOUS
  <2>1. /\ active = {} /\ {j \in active : Delegated(j)} = {}
        /\ active \ {j \in active : Delegated(j)} = {}
        /\ \A k \in Class :
             {i \in active \ {j \in active : Delegated(j)} : ClassOf[i] = k} = {}
    BY DEF Init
  <2>2. OneRunnerPerThread
    BY DEF Init, OneRunnerPerThread, Runs
  <2> QED
    BY <2>1, <2>2, FS_EmptySet, CapAssumption DEF AdmissionCaps
<1>2. IInv /\ AdmissionCaps /\ [Next]_vars => AdmissionCaps'
  BY AdmissionCapsStep
<1> QED
  BY <1>1, <1>2, CommandPathInvariant, PTL DEF Spec

\* Until the first write that fails, no job waits between turns that the limits
\* would admit (the call of drain() at the end of runJob).
THEOREM CompletionReadmits == Spec => [](faults = 0 => CompletionRetriesAdmission)
<1> DEFINE Inv == faults = 0 => CompletionRetriesAdmission
<1>1. Init => Inv
  BY DEF Init, CompletionRetriesAdmission
<1>2. IInv /\ Inv /\ [Next]_vars => Inv'
  BY CompletionStep, FaultsOnlyGrow DEF IInv
<1> QED
  BY <1>1, <1>2, CommandPathInvariant, PTL DEF Spec
=============================================================================
