----------------------------- MODULE WriterLease -----------------------------
(***************************************************************************)
(* The single-writer lease of the daemon (packages/daemon/src/             *)
(* writer-lease.ts): a directory that holds an owner.json.  Every daemon   *)
(* process that starts calls acquireDaemonWriterLease once, holds the      *)
(* lease while it serves and releases it on an orderly stop.  Processes    *)
(* are not coordinated in any other way: each step below is one file       *)
(* system call or one process observation, and steps of different          *)
(* processes interleave.                                                   *)
(*                                                                         *)
(* Simplifications.  A Claimant stands for one process and for the random  *)
(* token it writes.  A lease directory whose owner.json does not exist, is *)
(* empty or is half written is one value, Ownerless: the code answers      *)
(* "unknown" for all three.  Symbolic links and unreadable files are left  *)
(* out (they are "unknown" too).  A claimant that died is never the same   *)
(* process again; another program may be given its pid.                    *)
(***************************************************************************)
EXTENDS Naturals, FiniteSets

CONSTANTS
    Claimant,        \* the daemon processes that ever start
    Legacy,          \* those whose owner.json carries no birth identity
    Absent,          \* value of a path at which nothing exists
    Ownerless,       \* a directory without a complete owner.json
    MaxCrashes,      \* bound: how many processes may die without releasing
    BlindReads       \* whether a process observation may yield no identity

ASSUME ClaimantAssumption == Absent \notin Claimant /\ Ownerless \notin Claimant
ASSUME DistinctAssumption == Absent # Ownerless
ASSUME LegacyAssumption == Legacy \subseteq Claimant
ASSUME CrashAssumption == MaxCrashes \in Nat
ASSUME BlindAssumption == BlindReads \in BOOLEAN

VARIABLES
    lease,     \* what is at the lease path
    tomb,      \* what is at the tombstone path of each owner
    alive,     \* whether the process runs
    pc,        \* where the process is in acquire or release
    attempt,   \* the loop variable of acquireDaemonWriterLease
    seen,      \* existing.owner of the current attempt
    crashes    \* processes that died so far

vars == <<lease, tomb, alive, pc, attempt, seen, crashes>>

PathContent == Claimant \cup {Absent, Ownerless}

Places ==
    {"idle", "mkdir", "write",
     "inspect", "inspectDir", "classify", "confirm", "confirmDir",
     "rename", "recheck", "recheckDir",
     "holding", "check", "unlink", "rmdir",
     "busy", "unsure", "failed", "released"}

Init ==
    /\ lease = Absent
    /\ tomb = [c \in Claimant |-> Absent]
    /\ alive = [c \in Claimant |-> TRUE]
    /\ pc = [c \in Claimant |-> "idle"]
    /\ attempt = [c \in Claimant |-> 0]
    /\ seen = [c \in Claimant |-> Absent]
    /\ crashes = 0

At(c, place) == alive[c] /\ pc[c] = place
Goto(c, place) == pc' = [pc EXCEPT ![c] = place]

(***************************************************************************)
(* The loop of acquireDaemonWriterLease: two attempts, then it gives up.   *)
(***************************************************************************)
\* Mutant: the loop gives up at once.
NextAttemptNever(c) ==
    /\ attempt' = [attempt EXCEPT ![c] = @ + 1]
    /\ Goto(c, "failed")

NextAttempt(c) ==
    /\ attempt' = [attempt EXCEPT ![c] = @ + 1]
    /\ Goto(c, IF attempt[c] = 0 THEN "mkdir" ELSE "failed")

Start(c) ==
    /\ At(c, "idle")
    /\ Goto(c, "mkdir")
    /\ UNCHANGED <<lease, tomb, alive, attempt, seen, crashes>>

MakeDirectoryWhere(c, free) ==
    /\ At(c, "mkdir")
    /\ IF lease \in free
         THEN lease' = Ownerless /\ Goto(c, "write")
         ELSE Goto(c, "inspect") /\ UNCHANGED lease
    /\ UNCHANGED <<tomb, alive, attempt, seen, crashes>>

\* Mutant: mkdir accepts a directory that exists without an owner.
MakeDirectoryRecursive(c) == MakeDirectoryWhere(c, {Absent, Ownerless})

MakeDirectory(c) == MakeDirectoryWhere(c, {Absent})

\* The file is created with "wx".  EEXIST joins the path of an occupied
\* directory; a directory that is gone (ENOENT) makes the call throw.
WriteOwner(c) ==
    /\ At(c, "write")
    /\ CASE lease = Ownerless -> lease' = c /\ Goto(c, "holding")
         [] lease = Absent    -> Goto(c, "failed") /\ UNCHANGED lease
         [] OTHER             -> Goto(c, "inspect") /\ UNCHANGED lease
    /\ UNCHANGED <<tomb, alive, attempt, seen, crashes>>

(***************************************************************************)
(* inspectWriterLeasePath reads owner.json; when it is missing it looks at *)
(* the directory again, which may have gone or come back meanwhile.        *)
(***************************************************************************)
ReadOwner(c, place, dirPlace, IfOwned, IfAbsent) ==
    /\ At(c, place)
    /\ CASE lease = Absent    -> IfAbsent
         [] lease = Ownerless -> Goto(c, dirPlace) /\ UNCHANGED <<attempt, seen>>
         [] OTHER             -> IfOwned
    /\ UNCHANGED <<lease, tomb, alive, crashes>>

LookAtDirectory(c, dirPlace, IfAbsent, IfUnknown) ==
    /\ At(c, dirPlace)
    /\ IF lease = Absent THEN IfAbsent ELSE IfUnknown
    /\ UNCHANGED <<lease, tomb, alive, crashes>>

Busy(c) == Goto(c, "busy") /\ UNCHANGED <<attempt, seen>>
Retry(c) == NextAttempt(c) /\ UNCHANGED seen

\* const existing = inspectWriterLeasePath(path)
Inspect(c) ==
    LET IfOwned == /\ seen' = [seen EXCEPT ![c] = lease]
                   /\ Goto(c, "classify")
                   /\ UNCHANGED attempt
    IN  \/ ReadOwner(c, "inspect", "inspectDir", IfOwned, Retry(c))
        \/ LookAtDirectory(c, "inspectDir", Retry(c), Busy(c))

(***************************************************************************)
(* classifyDaemonLeaseOwner: what the process table says of the recorded   *)
(* owner.  "other" is a known identity that is not the recorded one (the   *)
(* pid was recycled), "zombie" the recorded one in state Z; "unavailable"  *)
(* falls back to a signal-zero probe.                                      *)
(***************************************************************************)
Identities(o) ==
    (IF alive[o] THEN {"same"} ELSE {"missing", "zombie", "other"})
        \cup (IF BlindReads THEN {"unavailable"} ELSE {})

\* EPERM counts as present; any other failure of the probe is "unknown".
Presences(o) ==
    IF alive[o] THEN {"present", "unknown"} ELSE {"missing", "present", "unknown"}

\* Mutant: an owner that is not proved capable counts as stale.
CapabilityUnknownIsStale(o, identity, presence) ==
    IF identity = "same" THEN "capable" ELSE "proven_stale"

Capability(o, identity, presence) ==
    CASE identity \in {"missing", "zombie"} -> "proven_stale"
      [] identity = "same"                  -> "capable"
      [] identity = "other"  -> IF o \in Legacy THEN "capable" ELSE "proven_stale"
      [] OTHER ->
           CASE presence = "missing" -> "proven_stale"
             [] presence = "present" /\ o \in Legacy -> "capable"
             [] OTHER -> "unknown"

\* An owner of unknown capability is refused like a capable one; "unsure" keeps
\* the two apart.
Classify(c) ==
    /\ At(c, "classify")
    /\ \E identity \in Identities(seen[c]), presence \in Presences(seen[c]) :
         Goto(c, CASE Capability(seen[c], identity, presence) = "proven_stale" -> "confirm"
                   [] Capability(seen[c], identity, presence) = "capable"      -> "busy"
                   [] OTHER                                                    -> "unsure")
    /\ UNCHANGED <<lease, tomb, alive, attempt, seen, crashes>>

\* const confirmed = inspectWriterLeasePath(path)
Confirm(c) ==
    LET IfOwned ==
          /\ UNCHANGED seen
          /\ IF lease # seen[c]
               THEN IF attempt[c] = 1 THEN Goto(c, "busy") /\ UNCHANGED attempt
                                      ELSE NextAttempt(c)
               ELSE Goto(c, IF attempt[c] = 1 THEN "failed" ELSE "rename")
                      /\ UNCHANGED attempt
    IN  \/ ReadOwner(c, "confirm", "confirmDir", IfOwned, Retry(c))
        \/ LookAtDirectory(c, "confirmDir", Retry(c), Busy(c))

(***************************************************************************)
(* quarantineDaemonWriterLeaseGeneration: rename whatever directory is at  *)
(* the lease path now to the tombstone of the owner seen before.  A rename *)
(* onto a directory that is not empty fails.                               *)
(***************************************************************************)
RenameTo(c, overwritten) ==
    LET o == seen[c]
    IN  /\ At(c, "rename")
        /\ IF lease # Absent /\ tomb[o] \in overwritten
             THEN /\ tomb' = [tomb EXCEPT ![o] = lease]
                  /\ lease' = Absent
                  /\ NextAttempt(c)
             ELSE Goto(c, "recheck") /\ UNCHANGED <<lease, tomb, attempt>>
        /\ UNCHANGED <<alive, seen, crashes>>

\* Mutant: the tombstone of an earlier rename is overwritten.
QuarantineOver(c) == RenameTo(c, PathContent)

Quarantine(c) == RenameTo(c, {Absent, Ownerless})

\* const current = inspectWriterLeasePath(path), after a contended rename
Recheck(c) ==
    LET IfOwned == IF lease = seen[c]
                     THEN Goto(c, "failed") /\ UNCHANGED <<attempt, seen>>
                     ELSE Retry(c)
    IN  \/ ReadOwner(c, "recheck", "recheckDir", IfOwned, Retry(c))
        \/ LookAtDirectory(c, "recheckDir", Retry(c), Busy(c))

(***************************************************************************)
(* release(): inspect, and when the lease is still this claimant's, remove *)
(* it recursively: owner.json first, the directory next.                   *)
(***************************************************************************)
Stop(c) ==
    /\ At(c, "holding")
    /\ Goto(c, "check")
    /\ UNCHANGED <<lease, tomb, alive, attempt, seen, crashes>>

\* Whatever else the inspection finds, the lease is not removed.
CheckOwn(c) ==
    /\ At(c, "check")
    /\ Goto(c, IF lease = c THEN "unlink" ELSE "released")
    /\ UNCHANGED <<lease, tomb, alive, attempt, seen, crashes>>

UnlinkOwner(c) ==
    /\ At(c, "unlink")
    /\ lease' = IF lease = Absent THEN Absent ELSE Ownerless
    /\ Goto(c, "rmdir")
    /\ UNCHANGED <<tomb, alive, attempt, seen, crashes>>

RemoveDirectory(c) ==
    /\ At(c, "rmdir")
    /\ lease' = Absent
    /\ Goto(c, "released")
    /\ UNCHANGED <<tomb, alive, attempt, seen, crashes>>

\* The process dies without running release: kill -9, power loss, a panic.
Crash(c) ==
    /\ alive[c]
    /\ pc[c] \notin {"idle", "busy", "unsure", "failed", "released"}
    /\ crashes < MaxCrashes
    /\ alive' = [alive EXCEPT ![c] = FALSE]
    /\ crashes' = crashes + 1
    /\ UNCHANGED <<lease, tomb, pc, attempt, seen>>

\* A process that was refused, or has released, exits.
Exit(c) ==
    /\ alive[c]
    /\ pc[c] \in {"busy", "unsure", "failed", "released"}
    /\ alive' = [alive EXCEPT ![c] = FALSE]
    /\ UNCHANGED <<lease, tomb, pc, attempt, seen, crashes>>

Step(c) ==
    \/ MakeDirectory(c) \/ WriteOwner(c) \/ Inspect(c) \/ Classify(c)
    \/ Confirm(c) \/ Quarantine(c) \/ Recheck(c)
    \/ CheckOwn(c) \/ UnlinkOwner(c) \/ RemoveDirectory(c) \/ Exit(c)

Next == \E c \in Claimant : Start(c) \/ Step(c) \/ Stop(c) \/ Crash(c)

Spec == Init /\ [][Next]_vars

\* The calls are synchronous code of one process: a process that runs and has
\* entered acquire or release reaches its end.  Starting and stopping are the
\* operator's choice and carry no fairness.
FairSpec == Spec /\ \A c \in Claimant : WF_vars(Step(c))

-----------------------------------------------------------------------------
TypeOK ==
    /\ lease \in PathContent
    /\ tomb \in [Claimant -> PathContent]
    /\ alive \in [Claimant -> BOOLEAN]
    /\ pc \in [Claimant -> Places]
    /\ attempt \in [Claimant -> 0..2]
    /\ seen \in [Claimant -> PathContent]
    /\ crashes \in 0..MaxCrashes

Holding(c) == At(c, "holding")

\* Single writer: no two running daemons hold the lease at once, whatever the
\* interleaving of their claims with crashes, stale takeovers and releases
\* (acquireDaemonWriterLease, "Claim single-writer authority").
MutualExclusion ==
    \A c, d \in Claimant : Holding(c) /\ Holding(d) => c = d

\* The path names the running holder for as long as it serves and until its
\* own release unlinks owner.json: no contender, however long ago it examined
\* the path, moves or deletes the directory of a daemon that is running.
HolderKeepsLease ==
    \A c \in Claimant :
        alive[c] /\ pc[c] \in {"holding", "check", "unlink"} => lease = c

\* A tombstone holds the generation it is named after, nothing else, and its
\* owner is dead: the rename moved exactly the directory that was confirmed.
QuarantineOnlyDead ==
    \A o \in Claimant : tomb[o] # Absent => tomb[o] = o /\ ~alive[o]

\* When a rename is contended the confirmed owner has left the lease path
\* already, so the last attempt of the loop always has something new to see
\* and the "same owner" failure after a contended rename is never reached.
ContendedMeansReplaced ==
    \A c \in Claimant :
        pc[c] \in {"recheck", "recheckDir"} => lease # seen[c]

\* A directory whose owner is neither being written nor being removed.
Orphaned ==
    lease = Ownerless /\ ~\E c \in Claimant : At(c, "write") \/ At(c, "rmdir")

\* Fail closed: a directory whose creator died before it wrote owner.json, or
\* between the two halves of its release, is never adopted, moved or removed.
OrphanIsNeverTaken == [][Orphaned => Orphaned']_vars

\* Stale takeover: when a claimant enters the loop while the lease names a dead
\* owner of known identity, some daemon comes to hold the lease: the contenders
\* never all refuse each other, unless one of them dies too or could not observe
\* the owner it saw.
StaleIsTakenOver ==
    \A o \in Claimant \ Legacy, c \in Claimant, n \in 0..MaxCrashes :
        (lease = o /\ ~alive[o] /\ At(c, "mkdir") /\ attempt[c] = 0 /\ crashes = n)
            ~> \/ \E d \in Claimant : Holding(d) \/ pc[d] = "unsure"
               \/ crashes > n
=============================================================================
