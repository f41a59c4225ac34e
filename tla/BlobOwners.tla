------------------------------ MODULE BlobOwners ------------------------------
(***************************************************************************)
(* One content-addressed file and everybody who needs it: uploads          *)
(* (store/uploads.ts) published into it (store/publish-blob.ts), accepted  *)
(* holders of a managed upload (store/resource-uses.ts), large bodies with *)
(* the same digest (store/blob-files.ts), and the collector that unlinks   *)
(* it, or an upload's part, once nobody owns it and the barrier of the     *)
(* last owner change is through (store/owner-generations.ts).              *)
(*                                                                         *)
(* The database commits without a barrier: "old" holds the earlier states  *)
(* a power loss may leave.  A directory entry changed since its directory  *)
(* was synced may come back as any value in its "May" set.  A pass of the  *)
(* flusher is its sync and its report; what it syncs in between is lost by *)
(* a power loss no earlier and known no sooner than the model says.        *)
(*                                                                         *)
(* Generations are ages: "new" (the next pass covers it), "passing" (the   *)
(* running pass does), "synced" (reported).                                *)
(***************************************************************************)
EXTENDS Naturals, FiniteSets

CONSTANTS
    Upload,      \* uploads, all of the one digest
    Import,      \* those with an import key: a failed transfer starts over, and
                 \* their resource is managed
    Holder,      \* accepted owners that may hold an upload's resource
    From,        \* [Holder -> SUBSET Holder]: the owners a holder may derive from
    Body,        \* owners of a large body of the digest
    Blob,        \* the key of the blob; the key of a part is its upload
    MaxMishaps,  \* bound: crashes of the process and power losses together
    MaxLosses,   \* bound: power losses
    MaxBehind    \* bound: states a power loss may leave when a request comes in

Key == {Blob} \cup Upload

ASSUME KeyAssumption ==
    /\ Blob \notin Upload
    /\ IsFiniteSet(Upload) /\ IsFiniteSet(Holder) /\ IsFiniteSet(Body)
    /\ Import \subseteq Upload
    /\ From \in [Holder -> SUBSET Holder]
    /\ MaxMishaps \in Nat /\ MaxLosses \in Nat /\ MaxBehind \in Nat

VARIABLES
    \* the disk
    db,        \* the current state of the database
    old,       \* the states a power loss may leave instead
    file,      \* [Key -> BOOLEAN]: which files exist
    may,       \* [Key -> SUBSET BOOLEAN]: what a power loss may leave of each
    \* the main thread
    alive,
    turn,      \* the synchronous section that is open
    redo,      \* obligations completeOpen has still to redo
    writing,   \* SqlUploads.writing
    change,    \* OwnerGenerations.generations
    wait,      \* [Key -> age or "idle"]: the barrier a flight of the key waits for
    moved,     \* the keys whose owners changed since their flight chose its barrier
    mat,       \* Obligations.tracked: the materialized generation
    aged,      \* the files older than the process that the sweep has not listed
    found,     \* the sweep's candidates
    \* the flusher
    pass,      \* a pass runs
    due,       \* a generation is issued that no pass covers
    reg,       \* files whose directory is registered and not synced
    \* bookkeeping
    left,      \* the blob is left for the sweep of the next start
    crashes, losses

disk    == <<db, old, file, may>>
custody == <<change, wait, moved>>
sweep   == <<aged, found>>
flusher == <<pass, due, reg>>
book    == <<left, crashes, losses>>
vars == <<disk, alive, turn, redo, writing, custody, mat, sweep, flusher, book>>

At(where, ups, g) == [at |-> where, ups |-> ups, g |-> g]
Idle == At("idle", {}, "none")

Empty == [up   |-> [u \in Upload |-> "none"],    \* upload.state
          res  |-> [u \in Upload |-> "none"],    \* resource.state
          ref  |-> {},                           \* upload.finalize_sha
          ob   |-> [u \in Upload |-> "none"],    \* effect_obligation
          uses |-> {},                           \* resource_use
          body |-> {},                           \* params_sha, prompt_sha, ...
          row  |-> FALSE]                        \* the blob row

Init ==
    /\ db = Empty /\ old = {}
    /\ file = [k \in Key |-> FALSE] /\ may = [k \in Key |-> {FALSE}]
    /\ alive = TRUE /\ turn = Idle /\ redo = {} /\ writing = {}
    /\ change = [k \in Key |-> "none"] /\ wait = [k \in Key |-> "idle"] /\ moved = {}
    /\ mat = [u \in Upload |-> "none"]
    /\ aged = {} /\ found = {}
    /\ pass = FALSE /\ due = FALSE /\ reg = {}
    /\ left = FALSE /\ crashes = 0 /\ losses = 0

\* BLOB_OWNER_PREDICATE
Owned(s) ==
    \/ s.body # {} \/ s.uses # {} \/ s.ref # {}
    \/ \E u \in Upload : s.ob[u] # "none" \/ s.res[u] \in {"publishing", "ready"}

\* A woken flight is a microtask: it runs before the next event.
Woken == {k \in Key : wait[k] = "synced"}
Free == alive /\ turn = Idle /\ Woken = {}
\* A request is admitted once completeOpen is through (and, a bound, while the
\* flusher is not too far behind).
Serving == Free /\ redo = {} /\ Cardinality(old) <= MaxBehind

(***************************************************************************)
(* Parts of a step.                                                        *)
(***************************************************************************)
\* A commit: the states before it become ones a power loss may leave.
Commit(s) == /\ db' = s
             /\ old' = IF s = db THEN old ELSE old \cup {db}

\* The entries change now and stay so once their directory is synced.
Files(on, off) ==
    /\ file' = [k \in Key |-> (k \in on) \/ (k \notin off /\ file[k])]
    /\ may'  = [k \in Key |-> may[k] \cup {file'[k]}]

\* registerExternal: the directory of each key, under a new generation.
Register(keys) ==
    /\ reg' = IF keys \cap Upload = {} THEN reg \cup keys ELSE reg \cup keys \cup Upload
    /\ due' = TRUE

\* noteChange after a commit, then "starts" join or become the key's flight; it
\* waits for the last change, or for "unknown" when it knows of none.
NoteElse(keys, starts, unknown) ==
    /\ change' = [k \in Key |-> IF k \in keys THEN "new" ELSE change[k]]
    /\ moved'  = moved \cup {k \in keys : wait[k] # "idle"}
    /\ wait'   = [k \in Key |->
          IF wait[k] # "idle" \/ k \notin starts THEN wait[k]
          ELSE IF change'[k] = "none" THEN unknown ELSE change'[k]]

\* Mutant: no mark for a key without a known change.
NoteUnmarked(keys, starts) == NoteElse(keys, starts, "none")

Note(keys, starts) == NoteElse(keys, starts, "new")

\* The flight of the blob that a commit s starts if it leaves a file body behind.
Collected(s) == IF s.row THEN {Blob} ELSE {}

\* cleanupUploadPart: what it makes of the part in the state s.
PartOwner(s, u) ==
    IF s.ob[u] # "none" THEN "owned"
    ELSE IF s.up[u] = "published" THEN "published"
    ELSE IF s.up[u] \in {"none", "discarded"} THEN "unowned" ELSE "owned"

\* ... and what it does: nothing, forget the digest and unlink at once, or
\* leave the part to the flight of its key.  "collect": onCleared, which goes on
\* to collect the blob if nobody owns it.
CleanPart(u, collect) ==
    LET owner == PartOwner(db, u)
    IN  /\ Commit(IF owner = "published" THEN [db EXCEPT !.ref = @ \ {u}] ELSE db)
        /\ IF owner # "published" THEN UNCHANGED <<file, may, pass, reg>>
           ELSE Files({}, {u}) /\ reg' = reg \cup Upload /\ UNCHANGED pass
        /\ Note(IF owner = "published" /\ u \in db.ref THEN {Blob, u} ELSE {},
                (IF owner = "unowned" THEN {u} ELSE {})
                    \cup (IF collect /\ ~Owned(db') THEN {Blob} ELSE {}))
        /\ due' = (collect \/ owner # "owned" \/ due)

(***************************************************************************)
(* Uploads.                                                                *)
(***************************************************************************)
Still == UNCHANGED <<alive, turn, redo, mat, sweep, pass, book>>

\* open: the empty part, its directory, then the row.
Create(u) ==
    /\ Serving /\ db.up[u] = "none"
    /\ Files({u}, {}) /\ Register({u})
    /\ Commit([db EXCEPT !.up[u] = "open"])
    /\ Note({u}, {})
    /\ UNCHANGED writing /\ Still

\* write, up to its first await: the state column stays "open".
WriteStart(u) ==
    /\ Serving /\ db.up[u] = "open" /\ u \notin writing /\ file[u]
    /\ writing' = writing \cup {u}
    /\ Note({u}, {}) /\ due' = TRUE
    /\ UNCHANGED <<disk, reg>> /\ Still

\* The bytes are through and verified: finishWrite.
WriteEnd(u) ==
    /\ Serving /\ u \in writing /\ db.up[u] = "open"
    /\ writing' = writing \ {u}
    /\ Commit([db EXCEPT !.up[u] = "uploaded"])
    /\ Note({u}, {}) /\ due' = TRUE
    /\ UNCHANGED <<file, may, reg>> /\ Still

\* The transfer fails: an import is reopened, another upload is discarded; the
\* writer of a discarded one, cancelled meanwhile or now, cleans the part.
WriteFails(u) ==
    /\ Serving /\ u \in writing
    /\ writing' = writing \ {u}
    /\ LET next == IF db.up[u] = "open" /\ u \in Import THEN "open"
                   ELSE IF db.up[u] = "open" THEN "discarded" ELSE db.up[u]
       IN  /\ Commit([db EXCEPT !.up[u] = next])
           /\ Note({u}, IF next = "open" THEN {} ELSE {u})
    /\ due' = TRUE
    /\ UNCHANGED <<file, may, reg>> /\ Still

\* cancel: unless a writer still holds the descriptor, the part goes to its flight.
Cancel(u) ==
    /\ Serving /\ db.up[u] \in {"open", "uploaded"}
    /\ Commit([db EXCEPT !.up[u] = "discarded"])
    /\ Note({u}, IF u \in writing THEN {} ELSE {u})
    /\ due' = TRUE
    /\ UNCHANGED <<file, may, reg, writing>> /\ Still

(***************************************************************************)
(* Publication: tx1, the link, tx2, as one synchronous section.            *)
(***************************************************************************)
Section(u, where, g) == turn' = At(where, {u}, g)

\* publish, tx1.  The bytes are known by their remembered digest or read.
Finalize(u) ==
    /\ Serving /\ db.up[u] = "uploaded" /\ file[u]
    /\ Commit([db EXCEPT !.up[u] = "finalizing", !.res[u] = "publishing",
                         !.ref = @ \cup {u}, !.ob[u] = "pending"])
    /\ Note({Blob, u}, {}) /\ due' = TRUE
    /\ Section(u, "link", "none")
    /\ UNCHANGED <<file, may, alive, redo, writing, mat, sweep, pass, reg, book>>

\* A repeat of an unfinished publication, or completeOpen's.
Replay(u) ==
    /\ \/ Serving /\ db.up[u] = "finalizing"
       \/ Free /\ u \in redo
    /\ Section(u, "link", "none")
    /\ UNCHANGED <<disk, alive, redo, writing, custody, mat, sweep, flusher, book>>

\* complete: a released resource is not linked again; otherwise the bytes are
\* verified where needed, the blob is linked unless it is there, and registered.
Link(u) ==
    /\ alive /\ turn.at = "link" /\ u \in turn.ups
    /\ IF db.res[u] = "released"
       THEN due' = TRUE /\ UNCHANGED <<file, may, reg>>
       ELSE /\ file[Blob] \/ file[u]
            /\ Files({Blob}, {}) /\ Register({Blob})
    /\ Section(u, "commit", "new")
    /\ left' = FALSE
    /\ UNCHANGED <<db, old, alive, redo, writing, custody, mat, sweep, pass, crashes, losses>>

\* complete, tx2.  A request materializes the obligation in it, under the
\* generation of the registration; completeOpen does so in a commit of its own.
Published(u) ==
    IF db.res[u] = "released" THEN [db EXCEPT !.up[u] = "published"]
    ELSE [db EXCEPT !.up[u] = "published", !.res[u] = "ready", !.row = TRUE]

PublishAt(u, g) ==
    /\ alive /\ turn.at = "commit" /\ u \in turn.ups
    /\ LET redone == u \in redo
       IN  /\ Commit(IF redone THEN Published(u)
                     ELSE [Published(u) EXCEPT !.ob[u] = "materialized"])
           /\ mat' = IF redone THEN mat ELSE [mat EXCEPT ![u] = g]
           /\ turn' = IF redone THEN [turn EXCEPT !.at = "materialize"] ELSE Idle
    /\ Note({Blob, u}, {}) /\ due' = TRUE
    /\ UNCHANGED <<file, may, alive, redo, writing, sweep, pass, reg, book>>

\* Mutant: under the running pass, which does not cover the registration.
PublishUnregistered(u) == PublishAt(u, "passing")

Publish(u) == PublishAt(u, turn.g)

\* Obligations.materialize: the last registration, or a mark when there is none.
Materialize(u) ==
    /\ alive /\ turn.at = "materialize" /\ u \in turn.ups
    /\ Commit([db EXCEPT !.ob[u] = "materialized"])
    /\ mat' = [mat EXCEPT ![u] = IF db.res[u] = "released" THEN "new" ELSE turn.g]
    /\ due' = TRUE /\ redo' = redo \ {u} /\ turn' = Idle
    /\ UNCHANGED <<file, may, alive, writing, custody, sweep, pass, reg, book>>

\* The bytes are missing, or the link or a commit fails: the obligation stays.
SectionFails(u) ==
    /\ alive /\ turn.at \in {"link", "commit", "materialize"} /\ u \in turn.ups
    /\ turn' = Idle /\ redo' = redo \ {u}
    /\ UNCHANGED <<disk, alive, writing, custody, mat, sweep, flusher, book>>

(***************************************************************************)
(* Resources, their holders and bodies.                                    *)
(***************************************************************************)
Steady == UNCHANGED <<writing, reg>> /\ Still

\* releaseResource and releaseModel
Release(u) ==
    /\ Serving /\ db.res[u] = "ready"
    /\ Commit([db EXCEPT !.res[u] = "released"])
    /\ Note({Blob}, {Blob}) /\ due' = TRUE
    /\ UNCHANGED <<file, may>> /\ Steady

MayHold(h, u) ==
    \/ db.res[u] = "ready"
    \/ db.res[u] = "released" /\ \E g \in From[h] : <<g, u>> \in db.uses

\* claimResourceUsesInTx, after the bytes were verified.  The commit notes no
\* change of the digest.
Claim(h, u) ==
    /\ Serving /\ u \in Import /\ <<h, u>> \notin db.uses /\ MayHold(h, u) /\ file[Blob]
    /\ Commit([db EXCEPT !.uses = @ \cup {<<h, u>>}])
    /\ UNCHANGED <<file, may, custody, due>> /\ Steady

\* dropResourceUsesInTx of one owner, which retires or is purged
DropUses(h) ==
    /\ Serving /\ \E u \in Upload : <<h, u>> \in db.uses
    /\ LET next == [db EXCEPT !.uses = {p \in @ : p[1] # h}]
       IN  Commit(next) /\ Note({Blob}, Collected(next))
    /\ due' = TRUE
    /\ UNCHANGED <<file, may>> /\ Steady

\* A promotion: the command takes over what its draft holds.
Promote(g, h) ==
    /\ Serving /\ g \in From[h] /\ file[Blob]
    /\ \E u \in Upload : <<g, u>> \in db.uses
    /\ LET next == [db EXCEPT !.uses =
              {p \in @ : p[1] # g} \cup {<<h, p[2]>> : p \in {q \in @ : q[1] = g}}]
       IN  Commit(next) /\ Note({Blob}, Collected(next))
    /\ due' = TRUE
    /\ UNCHANGED <<file, may>> /\ Steady

\* stageBody: the file, off the main thread, neither owned nor registered.
Stage ==
    /\ alive /\ ~file[Blob] /\ Body # {}
    /\ Files({Blob}, {}) /\ left' = TRUE
    /\ UNCHANGED <<db, old, alive, turn, redo, writing, custody, mat, sweep, flusher, crashes, losses>>

\* prepareBody and the owner's commit, in one turn: the directory is registered
\* whether or not the file was there.
AcceptAs(b, registered) ==
    /\ Serving /\ b \notin db.body
    /\ Files({Blob}, {}) /\ Register(registered)
    /\ Commit([db EXCEPT !.body = @ \cup {b}, !.row = TRUE])
    /\ Note({Blob}, {})
    /\ left' = FALSE
    /\ UNCHANGED <<writing, alive, turn, redo, mat, sweep, pass, crashes, losses>>

\* Mutant: a file found staged is not registered.
AcceptStaged(b) == AcceptAs(b, {Blob} \ {k \in Key : file[k]})

Accept(b) == AcceptAs(b, {Blob})

\* A prune or a rewrite drops the reference; collectReleasedBodies.
DropBody(b) ==
    /\ Serving /\ b \in db.body
    /\ LET next == [db EXCEPT !.body = @ \ {b}]
       IN  Commit(next) /\ Note({Blob}, Collected(next))
    /\ due' = TRUE
    /\ UNCHANGED <<file, may>> /\ Steady

(***************************************************************************)
(* The collector: the section of a flight after its barrier.               *)
(***************************************************************************)
KeyOwned(k) == IF k = Blob THEN Owned(db) ELSE PartOwner(db, k) # "unowned"

\* Mutant: the owners are read, but not whether they moved during the wait.
RecheckNothing(k) == FALSE

Recheck(k) == k \in moved

Woke(k) == alive /\ turn = Idle /\ k \in Woken
Landed(k) == /\ wait' = [wait EXCEPT ![k] = "idle"] /\ moved' = moved \ {k}
             /\ change' = [change EXCEPT ![k] = "none"]

FlightRetries(k) ==
    /\ Woke(k) /\ Recheck(k)
    /\ wait' = [wait EXCEPT ![k] = change[k]] /\ moved' = moved \ {k}
    /\ UNCHANGED <<disk, change, writing, flusher>>
    /\ UNCHANGED <<alive, turn, redo, mat, sweep, book>>

FlightKeeps(k) ==
    /\ Woke(k) /\ ~Recheck(k) /\ KeyOwned(k)
    /\ Landed(k)
    /\ UNCHANGED <<disk, writing, flusher, alive, turn, redo, mat, sweep, book>>

\* The unlink, afterUnlink's delete of the blob row and its registration.
FlightUnlinks(k) ==
    /\ Woke(k) /\ ~Recheck(k) /\ ~KeyOwned(k)
    /\ Files({}, {k}) /\ Register({k})
    /\ Commit(IF k = Blob THEN [db EXCEPT !.row = FALSE] ELSE db)
    /\ Landed(k) /\ aged' = aged \ {k}
    /\ UNCHANGED <<alive, turn, redo, writing, mat, found, pass, book>>

(***************************************************************************)
(* The sweep after a start: old files nobody owns, then decided on main.   *)
(***************************************************************************)
SweepList ==
    /\ Serving /\ aged # {}
    /\ found' = {k \in aged : file[k] /\ (k = Blob => ~Owned(db))}
    /\ aged' = {}
    /\ UNCHANGED <<disk, alive, turn, redo, writing, custody, mat, flusher, book>>

\* A part that published before a crash gives up its digest here, and nobody goes
\* on to collect the blob, which the list passed over as owned.
SweepTake(k) ==
    /\ Serving /\ k \in found
    /\ found' = found \ {k}
    /\ IF k # Blob THEN CleanPart(k, FALSE)
       ELSE /\ Note({}, {Blob}) /\ due' = TRUE
            /\ UNCHANGED <<disk, reg, pass>>
    /\ left' = (left \/ (Owned(db) /\ ~Owned(db')))
    /\ UNCHANGED <<alive, turn, redo, writing, mat, aged, crashes, losses>>

(***************************************************************************)
(* The flusher.                                                            *)
(***************************************************************************)
Step(age, from, to) == IF age = from THEN to ELSE age

StartPass ==
    /\ alive /\ ~pass /\ due
    /\ pass' = TRUE /\ due' = FALSE /\ reg' = {}
    /\ may' = [k \in Key |-> IF k \in reg THEN {file[k]} ELSE may[k]]
    /\ old' = {}
    /\ change' = [k \in Key |-> Step(change[k], "new", "passing")]
    /\ wait' = [k \in Key |-> Step(wait[k], "new", "passing")]
    /\ mat' = [u \in Upload |-> Step(mat[u], "new", "passing")]
    /\ turn' = [turn EXCEPT !.g = Step(@, "new", "passing")]
    /\ UNCHANGED <<db, file, alive, redo, writing, moved, sweep, book>>

\* The obligations the pass covers are deleted, which changes the digest's owners.
Report ==
    /\ Free /\ pass
    /\ pass' = FALSE
    /\ LET clear == {u \in Upload : mat[u] = "passing" /\ db.ob[u] = "materialized"}
           some  == clear # {}
       IN  /\ Commit([db EXCEPT !.ob = [u \in Upload |-> IF u \in clear THEN "none" ELSE @[u]]])
           /\ mat' = [u \in Upload |-> IF u \in clear THEN "none" ELSE mat[u]]
           /\ turn' = IF some THEN At("clean", clear, "none") ELSE Idle
           /\ change' = [k \in Key |-> IF k = Blob /\ some THEN "new"
                                       ELSE Step(change[k], "passing", "synced")]
           /\ moved' = moved \cup {k \in {Blob} : some /\ wait[k] # "idle"}
           /\ due' = (due \/ some)
    /\ wait' = [k \in Key |-> Step(wait[k], "passing", "synced")]
    /\ UNCHANGED <<file, may, alive, redo, writing, sweep, reg, book>>

CleanAs(u, collect) ==
    /\ alive /\ turn.at = "clean" /\ u \in turn.ups
    /\ CleanPart(u, collect)
    /\ turn' = IF turn.ups = {u} THEN Idle ELSE [turn EXCEPT !.ups = @ \ {u}]
    /\ UNCHANGED <<alive, redo, writing, mat, sweep, book>>

\* Mutant: the part is cleaned, but the blob is not collected.
CleanOnly(u) == CleanAs(u, FALSE)

\* PublishBlob.onCleared for one of the cleared rows.
Clean(u) == CleanAs(u, TRUE)

(***************************************************************************)
(* Crashes.                                                                *)
(***************************************************************************)
Forget ==
    /\ alive' = FALSE /\ turn' = Idle /\ redo' = {} /\ writing' = {}
    /\ change' = [k \in Key |-> "none"] /\ wait' = [k \in Key |-> "idle"] /\ moved' = {}
    /\ mat' = [u \in Upload |-> "none"]
    /\ aged' = {} /\ found' = {}
    /\ pass' = FALSE /\ due' = FALSE /\ reg' = {}
    /\ left' = FALSE

Crash ==
    /\ alive /\ crashes + losses < MaxMishaps /\ crashes' = crashes + 1
    /\ Forget /\ UNCHANGED <<disk, losses>>

PowerLoss ==
    /\ losses < MaxLosses /\ crashes + losses < MaxMishaps /\ losses' = losses + 1 /\ UNCHANGED crashes
    /\ Forget
    /\ \E s \in old \cup {db} : db' = s
    /\ old' = {}
    /\ file' \in {f \in [Key -> BOOLEAN] : \A k \in Key : f[k] \in may[k]}
    /\ may' = [k \in Key |-> {file'[k]}]

\* completeOpen first resets every row another process materialized.
Restart ==
    /\ ~alive /\ alive' = TRUE
    /\ LET open == {u \in Upload : db.ob[u] # "none"}
       IN  /\ redo' = open
           /\ Commit([db EXCEPT !.ob = [u \in Upload |-> IF u \in open THEN "pending" ELSE @[u]]])
    /\ aged' = {k \in Key : file[k]}
    /\ due' = TRUE
    /\ UNCHANGED <<file, may, turn, writing, custody, mat, found, pass, reg, book>>

Proceed(u) == \/ Link(u) \/ Publish(u) \/ Materialize(u) \/ SectionFails(u) \/ Clean(u)
Flight(k) == FlightRetries(k) \/ FlightKeeps(k) \/ FlightUnlinks(k)

Next ==
    \/ \E u \in Upload :
          \/ Create(u) \/ WriteStart(u) \/ WriteEnd(u) \/ WriteFails(u)
          \/ Cancel(u) \/ Finalize(u) \/ Replay(u) \/ Release(u)
          \/ Link(u) \/ Publish(u) \/ Materialize(u) \/ SectionFails(u) \/ Clean(u)
          \/ \E h \in Holder : Claim(h, u)
    \/ \E h \in Holder : DropUses(h) \/ \E g \in Holder : Promote(g, h)
    \/ Stage \/ \E b \in Body : Accept(b) \/ DropBody(b)
    \/ \E k \in Key : Flight(k) \/ SweepTake(k)
    \/ SweepList \/ StartPass \/ Report
    \/ Crash \/ PowerLoss \/ Restart

Spec == Init /\ [][Next]_vars

\* An open section goes on, a woken flight runs, the flusher's worker and the
\* reading of its reports go on, and a started process redoes what is open and
\* sweeps.  Strong where requests come in between: the event loop takes a queued
\* event in its turn.  No request is promised, nor a restart.
Fairness ==
    /\ \A u \in Upload : WF_vars(Proceed(u)) /\ WF_vars(u \in redo /\ Replay(u))
    /\ \A k \in Key : WF_vars(Flight(k)) /\ SF_vars(SweepTake(k))
    /\ SF_vars(SweepList) /\ WF_vars(StartPass) /\ SF_vars(Report)

FairSpec == Spec /\ Fairness

(***************************************************************************)
(* Properties.                                                             *)
(***************************************************************************)
Age == {"none", "new", "passing", "synced"}

\* Every variable has its type; a file is among what a power loss may leave of it.
TypeOK ==
    /\ \A s \in old \cup {db} :
          /\ s.up \in [Upload -> {"none", "open", "uploaded", "finalizing", "published",
                                  "discarded"}]
          /\ s.res \in [Upload -> {"none", "publishing", "ready", "released"}]
          /\ s.ob \in [Upload -> {"none", "pending", "materialized"}]
          /\ s.ref \subseteq Upload /\ s.uses \subseteq Holder \X Upload
          /\ s.body \subseteq Body /\ s.row \in BOOLEAN
    /\ \A k \in Key : file[k] \in may[k] /\ may[k] \subseteq BOOLEAN
    /\ {alive, pass, due, left} \subseteq BOOLEAN
    /\ turn.at \in {"idle", "link", "commit", "materialize", "clean"}
    /\ turn.ups \subseteq Upload /\ turn.g \in Age
    /\ redo \subseteq Upload /\ writing \subseteq Upload
    /\ change \in [Key -> Age] /\ wait \in [Key -> (Age \ {"none"}) \cup {"idle"}]
    /\ mat \in [Upload -> Age]
    /\ moved \subseteq Key /\ aged \subseteq Key /\ found \subseteq Key /\ reg \subseteq Key
    /\ crashes \in 0..MaxMishaps /\ losses \in 0..MaxLosses

Survivors == old \cup {db}
Certain(k) == may[k] = {TRUE}

\* Who still needs an upload's part in a state the disk may be left in.
NeedsPart(s, u) ==
    \/ s.up[u] \in {"open", "uploaded"}
    \/ s.up[u] \in {"finalizing", "published"} /\ s.res[u] \in {"publishing", "ready"}
         /\ ~Certain(Blob)

\* The program unlinks the blob only when no state a power loss may leave has an
\* owner of it, and a part only when each such state that still publishes from
\* it, or has published it, finds the blob for certain.  The rule of
\* owner-generations.ts and of the obligation's registration (publish-blob.ts).
UnlinkedIsUnneeded ==
    [][alive /\ alive' => \A k \in Key : file[k] /\ ~file'[k] =>
          \A s \in Survivors : IF k = Blob THEN ~Owned(s) ELSE ~NeedsPart(s, k)]_vars

\* A ready resource whose obligation is gone has its blob whatever a power loss
\* leaves, through crashes, replays and the recovery of its publication.
PublicationSurvives ==
    \A s \in Survivors, u \in Upload :
        s.res[u] = "ready" /\ s.ob[u] = "none" => Certain(Blob)

\* Once every state a power loss may leave has somebody who needs the bytes (a
\* body, an accepted holder, a finished publication), the blob is there whatever
\* it leaves: a barrier that covers an owner covers the file (blob-files.ts,
\* resource-uses.ts).
NeedsBytes(s) ==
    \/ s.body # {} \/ s.uses # {}
    \/ \E u \in Upload : s.res[u] = "ready" /\ s.ob[u] = "none"
OwnersKeepBytes == (\A s \in Survivors : NeedsBytes(s)) => Certain(Blob)

\* The same within the life of one process.
OwnersKeepBytesInOneLife == crashes + losses = 0 => OwnersKeepBytes

\* A blob that nobody owns any more is removed, or owned again, unless the
\* process goes down: by its flight, or by the sweep of the next start, which the
\* file waits for when it was staged for a request that was refused or freed by
\* the sweep itself ("left").
UnownedIsCollected ==
    (alive /\ file[Blob] /\ ~left /\ ~Owned(db))
        ~> (~file[Blob] \/ Owned(db) \/ ~alive)

=============================================================================
