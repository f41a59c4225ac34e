-------------------------- MODULE WriterLeaseProofs --------------------------
(***************************************************************************)
(* Proofs about WriterLease, for any number of claimants and crashes.      *)
(*                                                                         *)
(* Mutual exclusion is not inductive.  What carries it is a fact about the *)
(* contenders that are about to rename: the owner they confirmed is dead,  *)
(* and either it is still at the lease path or its tombstone is occupied,  *)
(* so that a rename that comes late fails instead of moving the directory  *)
(* of whoever holds the lease by then (RenameIsFenced).                    *)
(***************************************************************************)
EXTENDS WriterLease, TLAPS

\* Between creating the directory and naming its owner, and between the two
\* halves of a release, the directory has no owner and one process works on it.
DirectoryInUse ==
    /\ \A c \in Claimant :
         alive[c] /\ pc[c] \in {"write", "rmdir"} => lease = Ownerless
    /\ \A c, d \in Claimant :
         /\ alive[c] /\ pc[c] \in {"write", "rmdir"}
         /\ alive[d] /\ pc[d] \in {"write", "rmdir"}
         => c = d

SeenIsOwner ==
    \A c \in Claimant :
        /\ pc[c] = "classify" => seen[c] \in Claimant
        /\ pc[c] \in {"confirm", "confirmDir", "rename", "recheck", "recheckDir"}
             => seen[c] \in Claimant /\ ~alive[seen[c]]

RenameIsFenced ==
    \A c \in Claimant :
        /\ pc[c] = "rename" => lease = seen[c] \/ tomb[seen[c]] = seen[c]
        /\ pc[c] \in {"recheck", "recheckDir"} => tomb[seen[c]] = seen[c]

OneGeneration == \A o \in Claimant : ~(lease = o /\ tomb[o] = o)

TwoAttempts ==
    \A c \in Claimant :
        attempt[c] = 2 =>
            pc[c] \in {"holding", "check", "unlink", "rmdir",
                       "busy", "unsure", "failed", "released"}

IInv ==
    /\ TypeOK
    /\ HolderKeepsLease
    /\ DirectoryInUse
    /\ QuarantineOnlyDead
    /\ SeenIsOwner
    /\ RenameIsFenced
    /\ OneGeneration
    /\ TwoAttempts

USE ClaimantAssumption, DistinctAssumption, CrashAssumption

\* The observation of a process that runs never proves its lease stale
\* (classifyDaemonLeaseOwner): a contender goes on only against the dead.
LEMMA LiveOwnerIsNotStale ==
    ASSUME NEW o \in Claimant, alive[o],
           NEW i \in Identities(o), NEW p \in Presences(o)
    PROVE  Capability(o, i, p) # "proven_stale"
BY DEF Identities, Presences, Capability

\* The invariant holds before anybody starts.
LEMMA InitInv == Init => IInv
BY DEF Init, IInv, TypeOK, HolderKeepsLease, DirectoryInUse,
       QuarantineOnlyDead, SeenIsOwner, RenameIsFenced, OneGeneration,
       TwoAttempts, PathContent, Places

\* A step that leaves the paths and the set of running processes alone, and
\* takes one contender to a place its own facts allow, preserves the invariant.
LEMMA OwnStep ==
    ASSUME IInv, NEW c \in Claimant, NEW place \in Places,
           alive[c],
           pc' = [pc EXCEPT ![c] = place],
           attempt' \in [Claimant -> 0..2],
           seen' \in [Claimant -> PathContent],
           \A d \in Claimant \ {c} : attempt'[d] = attempt[d] /\ seen'[d] = seen[d],
           UNCHANGED <<lease, tomb, alive, crashes>>,
           place \in {"holding", "check", "unlink"} => lease = c,
           place \notin {"write", "rmdir"},
           place \in {"classify", "confirm", "confirmDir", "rename",
                      "recheck", "recheckDir"} => seen'[c] \in Claimant,
           place \in {"confirm", "confirmDir", "rename",
                      "recheck", "recheckDir"} => ~alive[seen'[c]],
           place = "rename" => lease = seen'[c] \/ tomb[seen'[c]] = seen'[c],
           place \in {"recheck", "recheckDir"} => tomb[seen'[c]] = seen'[c],
           attempt'[c] = 2 => place \in {"holding", "check", "unlink",
                                         "rmdir", "busy", "unsure", "failed", "released"}
    PROVE  IInv'
<1> USE DEF IInv
<1>1. TypeOK'  BY DEF TypeOK
<1>2. HolderKeepsLease'  BY DEF HolderKeepsLease, TypeOK
<1>3. DirectoryInUse'  BY DEF DirectoryInUse, TypeOK
<1>4. QuarantineOnlyDead'  BY DEF QuarantineOnlyDead
<1>5. SeenIsOwner'  BY DEF SeenIsOwner, TypeOK
<1>6. RenameIsFenced'  BY DEF RenameIsFenced, TypeOK
<1>7. OneGeneration'  BY DEF OneGeneration
<1>8. TwoAttempts'  BY DEF TwoAttempts, TypeOK
<1> QED  BY <1>1, <1>2, <1>3, <1>4, <1>5, <1>6, <1>7, <1>8

\* A claimant that tries again, or gives up, keeps the invariant.
LEMMA RetryStep ==
    ASSUME IInv, NEW c \in Claimant, alive[c], attempt[c] # 2,
           NextAttempt(c), UNCHANGED <<seen, lease, tomb, alive, crashes>>
    PROVE  IInv'
<1>1. attempt[c] \in {0, 1} /\ attempt \in [Claimant -> 0..2]
      /\ seen' \in [Claimant -> PathContent]
  BY DEF IInv, TypeOK
<1>2. CASE attempt[c] = 0
  <2>1. pc' = [pc EXCEPT ![c] = "mkdir"]  BY <1>2 DEF NextAttempt, Goto
  <2>2. attempt' = [attempt EXCEPT ![c] = 1]  BY <1>2 DEF NextAttempt
  <2>3. /\ attempt' \in [Claimant -> 0..2] /\ attempt'[c] # 2
        /\ \A d \in Claimant \ {c} : attempt'[d] = attempt[d] /\ seen'[d] = seen[d]
    BY <1>1, <2>2
  <2> QED  BY <1>1, <2>1, <2>2, <2>3, OwnStep DEF Places
<1>3. CASE attempt[c] = 1
  <2>1. pc' = [pc EXCEPT ![c] = "failed"]  BY <1>3 DEF NextAttempt, Goto
  <2>2. attempt' = [attempt EXCEPT ![c] = 2]  BY <1>3 DEF NextAttempt
  <2>3. /\ attempt' \in [Claimant -> 0..2]
        /\ \A d \in Claimant \ {c} : attempt'[d] = attempt[d] /\ seen'[d] = seen[d]
    BY <1>1, <2>2
  <2> QED  BY <1>1, <2>1, <2>2, <2>3, OwnStep DEF Places
<1> QED  BY <1>1, <1>2, <1>3

\* A claimant that leaves for good touches nothing another one relies on.
LEMMA LeaveStep ==
    ASSUME IInv, NEW c \in Claimant, alive[c],
           NEW place \in {"busy", "unsure", "failed", "released"}, Goto(c, place),
           UNCHANGED <<attempt, seen, lease, tomb, alive, crashes>>
    PROVE  IInv'
BY OwnStep DEF Goto, Places, IInv, TypeOK

\* Every step of every process keeps the invariant.
LEMMA NextInv == IInv /\ [Next]_vars => IInv'
<1> SUFFICES ASSUME IInv, [Next]_vars PROVE IInv'
  OBVIOUS
<1> USE DEF IInv
<1>1. CASE UNCHANGED vars
  <2> USE <1>1 DEF vars
  <2>1. TypeOK'  BY DEF TypeOK
  <2>2. HolderKeepsLease' /\ DirectoryInUse'
    BY DEF HolderKeepsLease, DirectoryInUse
  <2>3. QuarantineOnlyDead' /\ OneGeneration'
    BY DEF QuarantineOnlyDead, OneGeneration
  <2>4. SeenIsOwner' /\ RenameIsFenced' /\ TwoAttempts'
    BY DEF SeenIsOwner, RenameIsFenced, TwoAttempts
  <2> QED  BY <2>1, <2>2, <2>3, <2>4
<1>2. SUFFICES ASSUME NEW c \in Claimant,
                      Start(c) \/ Step(c) \/ Stop(c) \/ Crash(c)
               PROVE  IInv'
  BY <1>1 DEF Next
<1>3. CASE Start(c)
  <2>1. /\ alive[c] /\ UNCHANGED <<lease, tomb, alive, attempt, seen, crashes>>
        /\ pc' = [pc EXCEPT ![c] = "mkdir"] /\ attempt[c] # 2
    BY <1>3 DEF Start, At, Goto, TwoAttempts
  <2> QED  BY <2>1, OwnStep DEF Places, TypeOK
<1>4. CASE MakeDirectory(c)
  <2> USE <1>4 DEF MakeDirectory, MakeDirectoryWhere, At, Goto
  <2>1. CASE lease = Absent
    <3> USE <2>1
    <3>1. /\ lease' = Ownerless /\ pc' = [pc EXCEPT ![c] = "write"]
          /\ UNCHANGED <<tomb, alive, attempt, seen, crashes>>
      OBVIOUS
    <3>2. TypeOK'  BY DEF TypeOK, Places, PathContent
    <3>3. HolderKeepsLease'  BY DEF HolderKeepsLease, TypeOK
    <3>4. DirectoryInUse'  BY DEF DirectoryInUse, TypeOK
    <3>5. QuarantineOnlyDead' /\ OneGeneration'
      BY DEF QuarantineOnlyDead, OneGeneration
    <3>6. SeenIsOwner'  BY DEF SeenIsOwner, TypeOK
    <3>7. RenameIsFenced'  BY DEF RenameIsFenced, TypeOK, SeenIsOwner
    <3>8. TwoAttempts'  BY DEF TwoAttempts, TypeOK
    <3> QED  BY <3>2, <3>3, <3>4, <3>5, <3>6, <3>7, <3>8
  <2>2. CASE lease # Absent
    <3>1. /\ pc' = [pc EXCEPT ![c] = "inspect"] /\ attempt[c] # 2
          /\ UNCHANGED <<lease, tomb, alive, attempt, seen, crashes>>
      BY <2>2 DEF TwoAttempts
    <3> HIDE <1>4
    <3> QED  BY <3>1, <1>4, OwnStep DEF Places, TypeOK
  <2> QED  BY <2>1, <2>2
<1>5. CASE WriteOwner(c)
  \* No other process works on the directory while this one is at "write".
  <2>1. /\ alive[c] /\ pc[c] = "write" /\ lease = Ownerless
        /\ lease' = c /\ pc' = [pc EXCEPT ![c] = "holding"]
        /\ UNCHANGED <<tomb, alive, attempt, seen, crashes>>
    BY <1>5 DEF WriteOwner, At, Goto, DirectoryInUse
  <2>2. TypeOK'  BY <2>1 DEF TypeOK, Places, PathContent
  <2>3. HolderKeepsLease'  BY <2>1 DEF HolderKeepsLease, TypeOK
  <2>4. DirectoryInUse'  BY <2>1 DEF DirectoryInUse, TypeOK
  <2>5. QuarantineOnlyDead' /\ OneGeneration'
    BY <2>1 DEF QuarantineOnlyDead, OneGeneration
  <2>6. SeenIsOwner'  BY <2>1 DEF SeenIsOwner, TypeOK
  <2>7. RenameIsFenced'  BY <2>1 DEF RenameIsFenced, TypeOK, SeenIsOwner
  <2>8. TwoAttempts'  BY <2>1 DEF TwoAttempts, TypeOK
  <2> QED  BY <2>2, <2>3, <2>4, <2>5, <2>6, <2>7, <2>8
<1>6. CASE Inspect(c)
  <2>1. /\ alive[c] /\ pc[c] \in {"inspect", "inspectDir"} /\ attempt[c] # 2
        /\ UNCHANGED <<lease, tomb, alive, crashes>>
    BY <1>6 DEF Inspect, ReadOwner, LookAtDirectory, At, TwoAttempts
  <2>2. \/ Retry(c)
        \/ Busy(c)
        \/ Goto(c, "inspectDir") /\ UNCHANGED <<attempt, seen>>
        \/ /\ lease \notin {Absent, Ownerless}
           /\ seen' = [seen EXCEPT ![c] = lease]
           /\ Goto(c, "classify") /\ UNCHANGED attempt
    BY <1>6 DEF Inspect, ReadOwner, LookAtDirectory
  <2>3. CASE Retry(c)  BY <2>1, <2>3, RetryStep DEF Retry
  <2>4. CASE Busy(c)  BY <2>1, <2>4, LeaveStep DEF Busy
  <2>5. CASE Goto(c, "inspectDir") /\ UNCHANGED <<attempt, seen>>
    BY <2>1, <2>5, OwnStep DEF Goto, Places, TypeOK
  <2>6. CASE /\ lease \notin {Absent, Ownerless}
             /\ seen' = [seen EXCEPT ![c] = lease]
             /\ Goto(c, "classify") /\ UNCHANGED attempt
    <3>1. lease \in Claimant  BY <2>6 DEF TypeOK, PathContent
    <3> QED  BY <2>1, <2>6, <3>1, OwnStep DEF Goto, Places, TypeOK, PathContent
  <2> QED  BY <2>2, <2>3, <2>4, <2>5, <2>6
<1>7. CASE Classify(c)
  <2>1. /\ alive[c] /\ pc[c] = "classify" /\ attempt[c] # 2
        /\ seen[c] \in Claimant
        /\ UNCHANGED <<lease, tomb, alive, attempt, seen, crashes>>
    BY <1>7 DEF Classify, At, TwoAttempts, SeenIsOwner
  <2>2. PICK i \in Identities(seen[c]), p \in Presences(seen[c]) :
          Goto(c, CASE Capability(seen[c], i, p) = "proven_stale" -> "confirm"
                    [] Capability(seen[c], i, p) = "capable"      -> "busy"
                    [] OTHER                                      -> "unsure")
    BY <1>7 DEF Classify
  <2>3. CASE Capability(seen[c], i, p) = "proven_stale"
    <3>1. ~alive[seen[c]]  BY <2>1, <2>3, LiveOwnerIsNotStale
    <3>2. pc' = [pc EXCEPT ![c] = "confirm"]  BY <2>2, <2>3 DEF Goto
    <3> QED  BY <2>1, <3>1, <3>2, OwnStep DEF Places, TypeOK
  <2>4. CASE Capability(seen[c], i, p) # "proven_stale"
    <3>1. Goto(c, "busy") \/ Goto(c, "unsure")  BY <2>2, <2>4
    <3> QED  BY <2>1, <3>1, LeaveStep
  <2> QED  BY <2>3, <2>4
<1>8. CASE Confirm(c)
  <2>1. /\ alive[c] /\ pc[c] \in {"confirm", "confirmDir"} /\ attempt[c] # 2
        /\ seen[c] \in Claimant /\ ~alive[seen[c]]
        /\ UNCHANGED <<lease, tomb, alive, crashes>>
    BY <1>8 DEF Confirm, ReadOwner, LookAtDirectory, At, TwoAttempts, SeenIsOwner
  <2>2. \/ Retry(c)
        \/ Busy(c)
        \/ Goto(c, "confirmDir") /\ UNCHANGED <<attempt, seen>>
        \/ Goto(c, "failed") /\ UNCHANGED <<attempt, seen>>
        \/ lease = seen[c] /\ Goto(c, "rename") /\ UNCHANGED <<attempt, seen>>
    BY <1>8 DEF Confirm, ReadOwner, LookAtDirectory, Retry, Busy
  <2>3. CASE Retry(c)  BY <2>1, <2>3, RetryStep DEF Retry
  <2>4. CASE Busy(c)  BY <2>1, <2>4, LeaveStep DEF Busy
  <2>5. CASE Goto(c, "confirmDir") /\ UNCHANGED <<attempt, seen>>
    BY <2>1, <2>5, OwnStep DEF Goto, Places, TypeOK
  <2>6. CASE Goto(c, "failed") /\ UNCHANGED <<attempt, seen>>
    BY <2>1, <2>6, LeaveStep
  <2>7. CASE lease = seen[c] /\ Goto(c, "rename") /\ UNCHANGED <<attempt, seen>>
    BY <2>1, <2>7, OwnStep DEF Goto, Places, TypeOK
  <2> QED  BY <2>2, <2>3, <2>4, <2>5, <2>6, <2>7
<1>9. CASE Quarantine(c)
  <2> DEFINE o == seen[c]
  <2>1. /\ alive[c] /\ pc[c] = "rename" /\ attempt[c] # 2
        /\ o \in Claimant /\ ~alive[o] /\ (lease = o \/ tomb[o] = o)
        /\ UNCHANGED <<alive, seen, crashes>>
    BY <1>9 DEF Quarantine, RenameTo, At, TwoAttempts, SeenIsOwner, RenameIsFenced
  <2>2. CASE lease # Absent /\ tomb[o] \in {Absent, Ownerless}
    \* The tombstone is free, so the path still names the owner confirmed dead.
    <3>1. lease = o /\ tomb' = [tomb EXCEPT ![o] = o] /\ lease' = Absent
      BY <1>9, <2>1, <2>2 DEF Quarantine, RenameTo
    <3>2. attempt[c] = 0 \/ attempt[c] = 1  BY <2>1 DEF TypeOK
    <3>3. \E place \in {"mkdir", "failed"} :
            /\ pc' = [pc EXCEPT ![c] = place]
            /\ attempt' = [attempt EXCEPT ![c] = attempt[c] + 1]
            /\ attempt[c] + 1 \in 0..2
            /\ attempt[c] + 1 = 2 => place = "failed"
      BY <1>9, <2>2, <3>2 DEF Quarantine, RenameTo, NextAttempt, Goto
    <3>4. PICK place \in {"mkdir", "failed"} :
            /\ pc' = [pc EXCEPT ![c] = place]
            /\ attempt' = [attempt EXCEPT ![c] = attempt[c] + 1]
            /\ attempt[c] + 1 \in 0..2
            /\ attempt[c] + 1 = 2 => place = "failed"
      BY <3>3
    <3>5. TypeOK'  BY <2>1, <3>1, <3>4 DEF TypeOK, Places, PathContent
    <3>6. HolderKeepsLease'  BY <2>1, <3>1, <3>4 DEF HolderKeepsLease, TypeOK
    <3>7. DirectoryInUse'  BY <2>1, <3>1, <3>4 DEF DirectoryInUse, TypeOK
    <3>8. QuarantineOnlyDead'
      BY <2>1, <3>1, <3>4 DEF QuarantineOnlyDead, TypeOK
    <3>9. OneGeneration'  BY <2>1, <3>1, <3>4 DEF OneGeneration, TypeOK
    <3>10. SeenIsOwner'  BY <2>1, <3>1, <3>4 DEF SeenIsOwner, TypeOK
    <3>11. RenameIsFenced'
      BY <2>1, <3>1, <3>4 DEF RenameIsFenced, SeenIsOwner, TypeOK
    <3>12. TwoAttempts'  BY <2>1, <3>1, <3>4 DEF TwoAttempts, TypeOK
    <3> QED
      BY <3>5, <3>6, <3>7, <3>8, <3>9, <3>10, <3>11, <3>12
  <2>3. CASE ~(lease # Absent /\ tomb[o] \in {Absent, Ownerless})
    <3>1. /\ pc' = [pc EXCEPT ![c] = "recheck"]
          /\ UNCHANGED <<lease, tomb, attempt>>
      BY <1>9, <2>3 DEF Quarantine, RenameTo, Goto
    <3>2. tomb[o] = o  BY <2>1, <2>3 DEF QuarantineOnlyDead
    <3> QED  BY <2>1, <3>1, <3>2, OwnStep DEF Places, TypeOK
  <2> QED  BY <2>2, <2>3
<1>10. CASE Recheck(c)
  <2>1. /\ alive[c] /\ pc[c] \in {"recheck", "recheckDir"} /\ attempt[c] # 2
        /\ seen[c] \in Claimant /\ ~alive[seen[c]] /\ tomb[seen[c]] = seen[c]
        /\ UNCHANGED <<lease, tomb, alive, crashes>>
    BY <1>10 DEF Recheck, ReadOwner, LookAtDirectory, At, TwoAttempts,
                SeenIsOwner, RenameIsFenced
  <2>2. \/ Retry(c)
        \/ Busy(c)
        \/ Goto(c, "recheckDir") /\ UNCHANGED <<attempt, seen>>
        \/ Goto(c, "failed") /\ UNCHANGED <<attempt, seen>>
    BY <1>10 DEF Recheck, ReadOwner, LookAtDirectory
  <2>3. CASE Retry(c)  BY <2>1, <2>3, RetryStep DEF Retry
  <2>4. CASE Busy(c)  BY <2>1, <2>4, LeaveStep DEF Busy
  <2>5. CASE Goto(c, "recheckDir") /\ UNCHANGED <<attempt, seen>>
    BY <2>1, <2>5, OwnStep DEF Goto, Places, TypeOK
  <2>6. CASE Goto(c, "failed") /\ UNCHANGED <<attempt, seen>>
    BY <2>1, <2>6, LeaveStep
  <2> QED  BY <2>2, <2>3, <2>4, <2>5, <2>6
<1>11. CASE Stop(c)
  <2>1. /\ alive[c] /\ lease = c /\ pc' = [pc EXCEPT ![c] = "check"]
        /\ UNCHANGED <<lease, tomb, alive, attempt, seen, crashes>>
    BY <1>11 DEF Stop, At, Goto, HolderKeepsLease
  <2> QED  BY <2>1, OwnStep DEF Places, TypeOK
<1>12. CASE CheckOwn(c)
  <2>1. alive[c] /\ UNCHANGED <<attempt, seen, lease, tomb, alive, crashes>>
    BY <1>12 DEF CheckOwn, At
  <2>2. Goto(c, "released") \/ (lease = c /\ Goto(c, "unlink"))
    BY <1>12, lease = c \/ lease # c DEF CheckOwn, Goto
  <2>3. CASE Goto(c, "released")  BY <2>1, <2>3, LeaveStep
  <2>4. CASE lease = c /\ Goto(c, "unlink")
    BY <2>1, <2>4, OwnStep DEF Goto, Places, TypeOK
  <2> QED  BY <2>2, <2>3, <2>4
<1>13. CASE UnlinkOwner(c)
  <2>1. /\ alive[c] /\ pc[c] = "unlink" /\ lease = c /\ lease' = Ownerless
        /\ pc' = [pc EXCEPT ![c] = "rmdir"]
        /\ UNCHANGED <<tomb, alive, attempt, seen, crashes>>
    BY <1>13 DEF UnlinkOwner, At, Goto, HolderKeepsLease
  <2>2. TypeOK'  BY <2>1 DEF TypeOK, Places, PathContent
  <2>3. HolderKeepsLease'  BY <2>1 DEF HolderKeepsLease, TypeOK
  <2>4. DirectoryInUse'  BY <2>1 DEF DirectoryInUse, TypeOK
  <2>5. QuarantineOnlyDead' /\ OneGeneration'
    BY <2>1 DEF QuarantineOnlyDead, OneGeneration
  <2>6. SeenIsOwner'  BY <2>1 DEF SeenIsOwner, TypeOK
  <2>7. RenameIsFenced'  BY <2>1 DEF RenameIsFenced, SeenIsOwner, TypeOK
  <2>8. TwoAttempts'  BY <2>1 DEF TwoAttempts, TypeOK
  <2> QED  BY <2>2, <2>3, <2>4, <2>5, <2>6, <2>7, <2>8
<1>14. CASE RemoveDirectory(c)
  <2>1. /\ alive[c] /\ pc[c] = "rmdir" /\ lease = Ownerless /\ lease' = Absent
        /\ pc' = [pc EXCEPT ![c] = "released"]
        /\ UNCHANGED <<tomb, alive, attempt, seen, crashes>>
    BY <1>14 DEF RemoveDirectory, At, Goto, DirectoryInUse
  <2>2. TypeOK'  BY <2>1 DEF TypeOK, Places, PathContent
  <2>3. HolderKeepsLease'  BY <2>1 DEF HolderKeepsLease, TypeOK
  <2>4. DirectoryInUse'  BY <2>1 DEF DirectoryInUse, TypeOK
  <2>5. QuarantineOnlyDead' /\ OneGeneration'
    BY <2>1 DEF QuarantineOnlyDead, OneGeneration
  <2>6. SeenIsOwner'  BY <2>1 DEF SeenIsOwner, TypeOK
  <2>7. RenameIsFenced'  BY <2>1 DEF RenameIsFenced, SeenIsOwner, TypeOK
  <2>8. TwoAttempts'  BY <2>1 DEF TwoAttempts, TypeOK
  <2> QED  BY <2>2, <2>3, <2>4, <2>5, <2>6, <2>7, <2>8
<1>15. CASE Crash(c) \/ Exit(c)
  <2>1. /\ alive' = [alive EXCEPT ![c] = FALSE]
        /\ crashes' \in 0..MaxCrashes
        /\ UNCHANGED <<lease, tomb, pc, attempt, seen>>
    BY <1>15 DEF Crash, Exit, TypeOK
  <2>2. TypeOK'  BY <2>1 DEF TypeOK
  <2>3. HolderKeepsLease' /\ DirectoryInUse'
    BY <2>1 DEF HolderKeepsLease, DirectoryInUse, TypeOK
  <2>4. QuarantineOnlyDead' /\ OneGeneration'
    BY <2>1 DEF QuarantineOnlyDead, OneGeneration, TypeOK
  <2>5. SeenIsOwner' /\ RenameIsFenced' /\ TwoAttempts'
    BY <2>1 DEF SeenIsOwner, RenameIsFenced, TwoAttempts, TypeOK
  <2> QED  BY <2>2, <2>3, <2>4, <2>5
<1> QED
  BY <1>2, <1>3, <1>4, <1>5, <1>6, <1>7, <1>8, <1>9, <1>10, <1>11, <1>12,
     <1>13, <1>14, <1>15 DEF Step

\* Whatever number of daemons race for the lease, at most one serves at a time,
\* and the path names it until it releases: acquireDaemonWriterLease.
THEOREM WriterLeaseSafety ==
    Spec => [](TypeOK /\ MutualExclusion /\ HolderKeepsLease)
<1>1. IInv => TypeOK /\ MutualExclusion /\ HolderKeepsLease
  BY DEF IInv, MutualExclusion, Holding, At, HolderKeepsLease
<1> QED  BY InitInv, NextInv, <1>1, PTL DEF Spec

\* A quarantine moves the confirmed generation of a dead daemon and nothing
\* else, and a contended rename always means that the path has moved on.
THEOREM QuarantineSafety ==
    Spec => [](QuarantineOnlyDead /\ ContendedMeansReplaced)
<1>1. IInv => QuarantineOnlyDead /\ ContendedMeansReplaced
  <2> SUFFICES ASSUME IInv, NEW c \in Claimant,
                      pc[c] \in {"recheck", "recheckDir"}
               PROVE  lease # seen[c]
    BY DEF IInv, ContendedMeansReplaced
  <2>1. seen[c] \in Claimant /\ tomb[seen[c]] = seen[c]
    BY DEF IInv, SeenIsOwner, RenameIsFenced
  <2> QED  BY <2>1 DEF IInv, OneGeneration
<1> QED  BY InitInv, NextInv, <1>1, PTL DEF Spec

\* A directory left without an owner by a crash stays there: no claimant
\* adopts, quarantines or removes it.
THEOREM OrphanSafety == Spec => OrphanIsNeverTaken
<1>1. IInv /\ [Next]_vars => [Orphaned => Orphaned']_vars
  <2> SUFFICES ASSUME IInv, Next, Orphaned PROVE Orphaned'
    OBVIOUS
  <2> USE DEF IInv
  <2>1. PICK c \in Claimant : Start(c) \/ Step(c) \/ Stop(c) \/ Crash(c)
    BY DEF Next
  <2>2. lease = Ownerless /\ ~At(c, "write") /\ ~At(c, "rmdir") /\ ~At(c, "unlink")
    BY DEF Orphaned, At, HolderKeepsLease
  <2>3. lease' = Ownerless
    <3>1. CASE Quarantine(c)
      <4>1. seen[c] \in Claimant /\ (lease = seen[c] \/ tomb[seen[c]] = seen[c])
        BY <3>1 DEF Quarantine, RenameTo, At, SeenIsOwner, RenameIsFenced
      <4> QED  BY <2>2, <3>1, <4>1 DEF Quarantine, RenameTo
    <3>2. CASE ~Quarantine(c)
      BY <2>1, <2>2, <3>2 DEF Step, Start, Stop, Crash, Exit, MakeDirectory, MakeDirectoryWhere,
         WriteOwner, Inspect, Classify, Confirm, Recheck, CheckOwn, UnlinkOwner,
         RemoveDirectory, ReadOwner, LookAtDirectory
    <3> QED  BY <3>1, <3>2
  <2>4. \A d \in Claimant : ~(At(d, "write") \/ At(d, "rmdir"))'
    <3>1. \/ UNCHANGED pc
          \/ \E p \in Places \ {"write", "rmdir"} : pc' = [pc EXCEPT ![c] = p]
      BY <2>1, <2>2 DEF Step, Start, Stop, Crash, Exit, MakeDirectory, MakeDirectoryWhere,
         WriteOwner, Inspect, Classify, Confirm, Quarantine, RenameTo, Recheck, CheckOwn,
         UnlinkOwner, RemoveDirectory, ReadOwner, LookAtDirectory, Retry, Busy,
         NextAttempt, Goto, Places
    <3>2. \/ UNCHANGED alive
          \/ alive' = [alive EXCEPT ![c] = FALSE]
      BY <2>1 DEF Step, Start, Stop, Crash, Exit, MakeDirectory, MakeDirectoryWhere,
         WriteOwner, Inspect, Classify, Confirm, Quarantine, RenameTo, Recheck, CheckOwn,
         UnlinkOwner, RemoveDirectory, ReadOwner, LookAtDirectory
    <3> QED  BY <2>2, <3>1, <3>2 DEF Orphaned, At, TypeOK
  <2> QED  BY <2>3, <2>4 DEF Orphaned
<1> QED  BY InitInv, NextInv, <1>1, PTL DEF Spec, OrphanIsNeverTaken

=============================================================================
