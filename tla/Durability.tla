------------------------------ MODULE Durability ------------------------------
(***************************************************************************)
(* What survives a power loss: the flusher (store/flusher.ts and its       *)
(* worker) and the obligations (store/obligations.ts) that owe file        *)
(* effects.  SQLite commits without a barrier; a worker thread makes       *)
(* commits and registered directories durable in passes and reports the    *)
(* generation each pass covers.                                            *)
(*                                                                         *)
(* The database is the sequence of its states since the last barrier: a    *)
(* power loss leaves any one of them.  A directory entry changed by an     *)
(* effect is lost or kept by a power loss until the directory is synced.   *)
(* File contents are written through (O_DSYNC) and left out.  The main     *)
(* thread runs in turns: "turn" names the obligation whose synchronous     *)
(* section is open; the worker and a power loss do not wait for its end.   *)
(***************************************************************************)
EXTENDS Naturals, Sequences, FiniteSets

CONSTANTS
    Client,        \* callers that commit and await flushed()
    Ob,            \* obligations
    Purge,         \* those whose effect deletes: it waits for its decision's barrier
    Dir,           \* directories
    DirsOf,        \* [Ob -> SUBSET Dir]: the directories an effect changes
    None,          \* "no such value"
    MaxPosted,     \* bound: reports of a worker that the main thread has not read
    MaxMishaps     \* bound: deaths of the worker, crashes, power losses, failing
                   \* effects and failing clears, taken together

ASSUME ObAssumption ==
    /\ Purge \subseteq Ob /\ None \notin Ob
    /\ IsFiniteSet(Ob) /\ IsFiniteSet(Client) /\ Client \cap Ob = {}
    /\ IsFiniteSet(Dir) /\ None \notin Dir \cup Nat
    /\ DirsOf \in [Ob -> SUBSET Dir]
ASSUME BoundAssumption ==
    MaxPosted \in Nat \ {0} /\ MaxMishaps \in Nat

VARIABLES
    \* the disk
    wal,       \* states of the database: the first is durable, the last is current
    base,      \* how many commits the durable one holds
    entry,     \* per obligation and directory: "old", "cached" or "durable"
    \* the main thread
    up,
    turn,      \* the obligation whose synchronous section is open
    gen,       \* FlusherController.generation
    out,       \* FlusherController.outstanding
    waiters,   \* FlusherController.waiters
    tracked,   \* Obligations.tracked
    work,      \* where the handler of an obligation is
    redo,      \* obligations completeOpen has still to finish
    told,      \* what a client's flushed() answered
    \* the worker
    life,      \* "none" (before a restart), "live", "dead" (exit not yet seen)
    inbox, outbox,
    pass,      \* state of the worker and of its pass
    \* bookkeeping
    mishaps

disk   == <<wal, base, entry>>
queues == <<gen, out, waiters>>
owner  == <<tracked, work, redo, turn>>
worker == <<life, inbox, outbox, pass>>
vars == <<disk, up, queues, owner, told, worker, mishaps>>

Row(s, g) == [state |-> s, g |-> g]
Resting == [at |-> "idle", left |-> {}]
\* A worker that has run no pass: lastProvenDataVersion is null.
Fresh == [at |-> "idle", target |-> 0, proven |-> None, observed |-> 0]

Init ==
    /\ wal = <<[ob |-> [o \in Ob |-> Row("none", 0)], note |-> {}]>>
    /\ base = 0
    /\ entry = [o \in Ob |-> [d \in DirsOf[o] |-> "old"]]
    /\ up = TRUE /\ turn = None
    /\ gen = 0 /\ out = <<>> /\ waiters = {}
    /\ tracked = [o \in Ob |-> 0]
    /\ work = [o \in Ob |-> Resting]
    /\ redo = {}
    /\ told = [c \in Client |-> "idle"]
    /\ life = "live" /\ inbox = <<>> /\ outbox = <<>> /\ pass = Fresh
    /\ mishaps = 0

Head0 == wal[Len(wal)]
Commits == base + Len(wal) - 1
CommitRow(o, r) == wal' = Append(wal, [Head0 EXCEPT !.ob[o] = r])

Mishap == mishaps < MaxMishaps /\ mishaps' = mishaps + 1

(***************************************************************************)
(* The controller.                                                         *)
(***************************************************************************)
Command(type, g, d) == [type |-> type, g |-> g, dir |-> d]

\* send: kept until it is acknowledged, and posted when there is a worker.
SendAll(cmds) ==
    /\ out' = out \o cmds
    /\ inbox' = IF life = "live" THEN inbox \o cmds ELSE inbox

\* register, mark and flushed each take the next generation.
SendNext(type, d) ==
    /\ gen' = gen + 1
    /\ SendAll(<<Command(type, gen + 1, d)>>)

\* The orders in which a set of directories is registered; a mark for none.
Orders(dirs) ==
    IF dirs = {} THEN {<<None>>}
    ELSE {f \in [1..Cardinality(dirs) -> dirs] : \A d \in dirs : \E i \in DOMAIN f : f[i] = d}

\* Ordinary work waits for completeOpen.
Serving == up /\ turn = None /\ redo = {}

\* A client's transaction, then flushed() in the same turn.
Write(c) ==
    /\ Serving /\ told[c] = "idle"
    /\ wal' = Append(wal, [Head0 EXCEPT !.note = @ \cup {c}])
    /\ SendNext("flush", None)
    /\ waiters' = waiters \cup {[g |-> gen + 1, who |-> c]}
    /\ told' = [told EXCEPT ![c] = "waiting"]
    /\ UNCHANGED <<base, entry, up, owner, life, outbox, pass, mishaps>>

(***************************************************************************)
(* Obligations: decide, act, register, materialize.                        *)
(***************************************************************************)
Acting(o) == [at |-> "act", left |-> DirsOf[o]]

\* A purge awaits the barrier of its decision before it deletes anything.
AwaitDecision(o) ==
    /\ SendNext("flush", None)
    /\ waiters' = waiters \cup {[g |-> gen + 1, who |-> o]}
    /\ work' = [work EXCEPT ![o] = [Resting EXCEPT !.at = "await"]]
    /\ UNCHANGED turn

Act(o) ==
    /\ work' = [work EXCEPT ![o] = Acting(o)] /\ turn' = o
    /\ UNCHANGED <<queues, inbox>>

\* Mutant: the decision was committed, so a purge deletes at once.
HandleAtOnce(o) == Act(o)

\* The handler of an obligation up to its first await.
Handle(o) == IF o \in Purge THEN AwaitDecision(o) ELSE Act(o)

\* The transaction of the decision creates the row; the effect follows it.
Decide(o) ==
    /\ Serving /\ Head0.ob[o].state = "none"
    /\ CommitRow(o, Row("pending", 0))
    /\ Handle(o)
    /\ UNCHANGED <<base, entry, up, tracked, redo, told, life, outbox, pass, mishaps>>

\* A pending row is worked on again: complete, recoverDurableTerminal.
Retry(o) ==
    /\ Serving /\ Head0.ob[o].state = "pending" /\ work[o].at = "idle"
    /\ Handle(o)
    /\ UNCHANGED <<disk, up, tracked, redo, told, life, outbox, pass, mishaps>>

\* completeOpen takes one open row after the other.
Redo(o) ==
    /\ up /\ turn = None /\ o \in redo
    /\ \A x \in Ob : work[x].at = "idle"
    /\ Handle(o)
    /\ UNCHANGED <<disk, up, tracked, redo, told, life, outbox, pass, mishaps>>

\* One rename, link or deletion.
Touch(o, d) ==
    /\ up /\ turn \in {None, o}
    /\ work[o].at = "act" /\ d \in work[o].left
    /\ entry' = [entry EXCEPT ![o][d] = IF @ = "old" THEN "cached" ELSE @]
    /\ work' = [work EXCEPT ![o].left = @ \ {d}]
    /\ UNCHANGED <<wal, base, up, turn, queues, tracked, redo, told, worker, mishaps>>

Done(o) ==
    /\ work' = [work EXCEPT ![o] = Resting]
    /\ turn' = None
    /\ redo' = redo \ {o}

\* registerEffect of each directory; a mark when there is none.
RegisterEach(dirs) ==
    \E order \in Orders(dirs) :
        /\ gen' = gen + Len(order)
        /\ SendAll([i \in DOMAIN order |->
              Command(IF order[i] = None THEN "flush" ELSE "register", gen + i, order[i])])

\* materialize: under the generation of the last registration.
MaterializeUnder(o, g) ==
    /\ up /\ turn \in {None, o}
    /\ work[o].at = "act" /\ work[o].left = {}
    /\ RegisterEach(DirsOf[o])
    /\ CommitRow(o, Row("materialized", g))
    /\ tracked' = [tracked EXCEPT ![o] = g]
    /\ Done(o)
    /\ UNCHANGED <<base, entry, up, waiters, told, life, outbox, pass, mishaps>>

\* Mutant: under a generation no registration has.
MaterializeLate(o) == MaterializeUnder(o, gen' + 1)

Materialize(o) == MaterializeUnder(o, gen')

\* The effect, its registration or its transaction throws: the row stays pending.
\* What a writer registered by then stays registered.
HandlerFails(o) ==
    /\ up /\ turn \in {None, o} /\ work[o].at = "act" /\ Mishap
    /\ LET touched == DirsOf[o] \ work[o].left
       IN  IF o \in Purge \/ touched = {} THEN UNCHANGED <<gen, out, inbox>>
           ELSE RegisterEach(touched)
    /\ Done(o)
    /\ UNCHANGED <<disk, up, waiters, tracked, told, life, outbox, pass>>

(***************************************************************************)
(* The worker.  A message matters only to the next pass, which starts with *)
(* what its port has delivered; a pass that is cut short after some of its *)
(* directories leaves no more than a shorter one, so they are one step.    *)
(***************************************************************************)
Largest(g, cmds) ==
    CHOOSE x \in {g} \cup {cmds[i].g : i \in DOMAIN cmds} :
        x >= g /\ \A i \in DOMAIN cmds : x >= cmds[i].g

StartPass(k) ==
    /\ life = "live" /\ pass.at = "idle" /\ Len(outbox) < MaxPosted
    /\ LET cmds == SubSeq(inbox, 1, k)
           dirs == {cmds[i].dir : i \in DOMAIN cmds}
       IN  /\ pass' = [pass EXCEPT !.at = "sample", !.target = Largest(@, cmds)]
           /\ entry' = [o \in Ob |-> [d \in DirsOf[o] |->
                 IF d \in dirs /\ entry[o][d] = "cached" THEN "durable" ELSE entry[o][d]]]
    /\ inbox' = SubSeq(inbox, k + 1, Len(inbox))
    /\ UNCHANGED <<wal, base, up, queues, owner, told, life, outbox, mishaps>>

\* PRAGMA data_version, after the directories and before the barrier.
Sample ==
    /\ life = "live" /\ pass.at = "sample"
    /\ pass' = [pass EXCEPT !.observed = Commits,
                            !.at = IF pass.proven = Commits THEN "post" ELSE "sync"]
    /\ UNCHANGED <<disk, up, queues, owner, told, life, inbox, outbox, mishaps>>

\* fsync of the WAL
Barrier ==
    /\ life = "live" /\ pass.at = "sync"
    /\ wal' = <<Head0>> /\ base' = Commits
    /\ pass' = [pass EXCEPT !.at = "post"]
    /\ UNCHANGED <<entry, up, queues, owner, told, life, inbox, outbox, mishaps>>

PostAs(version) ==
    /\ life = "live" /\ pass.at = "post"
    /\ pass' = [pass EXCEPT !.at = "idle", !.proven = version, !.observed = 0]
    /\ outbox' = Append(outbox, pass.target)
    /\ UNCHANGED <<disk, up, queues, owner, told, life, inbox, mishaps>>

\* Mutant: what is proved is read after the barrier.
PostLatest == PostAs(Commits)

Post == PostAs(pass.observed)

\* A directory or the WAL cannot be synced, or the thread exits.
Death ==
    /\ life = "live" /\ Mishap
    /\ life' = "dead" /\ inbox' = <<>> /\ pass' = Fresh
    /\ UNCHANGED <<disk, up, queues, owner, told, outbox>>

(***************************************************************************)
(* Answers of the worker, its exit and its successor.                      *)
(***************************************************************************)
\* The entries of s that stay, in their order.
Place(kept, i) == Cardinality({k \in kept : k <= i})
Picked(s, kept) == [n \in 1..Cardinality(kept) |-> s[CHOOSE i \in kept : Place(kept, i) = n]]

Unacknowledged(g) == Picked(out, {i \in DOMAIN out : out[i].g > g})
Registrations == Picked(out, {i \in DOMAIN out : out[i].type = "register"})

Clearable(g) == {o \in Ob : tracked[o] # 0 /\ tracked[o] <= g}

\* clearSynced, or its transaction fails and the rows stay tracked.
Clear(g) ==
    \/ /\ Clearable(g) = {}
       /\ UNCHANGED <<wal, tracked, mishaps>>
    \/ /\ Clearable(g) # {}
       /\ wal' = Append(wal, [Head0 EXCEPT !.ob = [o \in Ob |->
             IF o \in Clearable(g) /\ Head0.ob[o].state = "materialized"
                  /\ Head0.ob[o].g <= g
               THEN Row("cleared", 0) ELSE Head0.ob[o]]])
       /\ tracked' = [o \in Ob |-> IF o \in Clearable(g) THEN 0 ELSE tracked[o]]
       /\ UNCHANGED mishaps
    \/ Clearable(g) # {} /\ Mishap /\ UNCHANGED <<wal, tracked>>

\* Mutant: the waiter of the last generation is left out.
CoveredBefore(g) == {w \in waiters : w.g < g}

\* What a report resolves.
Covered(g) == {w \in waiters : w.g <= g}

Named(ws) == {w.who : w \in ws}

OnSynced ==
    /\ up /\ turn = None /\ outbox # <<>>
    /\ LET g == Head(outbox)
           who == Named(Covered(g))
       IN  /\ out' = Unacknowledged(g)
           /\ waiters' = waiters \ Covered(g)
           /\ told' = [c \in Client |-> IF c \in who THEN "answered" ELSE told[c]]
           /\ work' = [o \in Ob |-> IF o \in who THEN Acting(o) ELSE work[o]]
           /\ Clear(g)
    /\ outbox' = Tail(outbox)
    /\ UNCHANGED <<base, entry, up, gen, redo, turn, life, inbox, pass>>

ExitWith(kept, rejected) ==
    /\ up /\ turn = None /\ life = "dead"
    /\ life' = "none" /\ outbox' = <<>>
    /\ out' = kept
    /\ waiters' = waiters \ rejected
    /\ LET who == Named(rejected)
       IN  /\ told' = [c \in Client |-> IF c \in who THEN "unavailable" ELSE told[c]]
           /\ work' = [o \in Ob |-> IF o \in who THEN Resting ELSE work[o]]
           /\ redo' = redo \ who
    /\ UNCHANGED <<disk, up, gen, tracked, turn, inbox, pass, mishaps>>

\* Mutant: registrations are dropped with the flush commands.
ExitForgetful == ExitWith(<<>>, waiters)

\* onDeath: waiters are rejected, registrations kept for the next worker.
Exit == ExitWith(Registrations, waiters)

\* Mutant: the new worker is not driven to the current generation.
SpawnOnly ==
    /\ up /\ turn = None /\ life = "none"
    /\ life' = "live"
    /\ inbox' = out
    /\ UNCHANGED <<disk, up, queues, owner, told, outbox, pass, mishaps>>

\* restart: replay what is outstanding, then flush up to the current generation.
Spawn ==
    /\ up /\ turn = None /\ life = "none"
    /\ life' = "live"
    /\ out' = Append(out, Command("flush", gen, None))
    /\ inbox' = out'
    /\ UNCHANGED <<disk, up, gen, waiters, owner, told, outbox, pass, mishaps>>

(***************************************************************************)
(* Crash, power loss, start.                                               *)
(***************************************************************************)
ProcessGone ==
    /\ Mishap
    /\ up' = FALSE /\ turn' = None
    /\ gen' = 0 /\ out' = <<>> /\ waiters' = {}
    /\ tracked' = [o \in Ob |-> 0]
    /\ work' = [o \in Ob |-> Resting]
    /\ redo' = {}
    /\ told' = [c \in Client |-> IF told[c] = "waiting" THEN "lost" ELSE told[c]]
    /\ life' = "none" /\ inbox' = <<>> /\ outbox' = <<>> /\ pass' = Fresh

Crash == up /\ ProcessGone /\ UNCHANGED disk

PowerLoss ==
    /\ ProcessGone
    /\ \E i \in 1..Len(wal) : wal' = <<wal[i]>> /\ base' = 0
    /\ \E kept \in SUBSET {x \in Ob \X Dir : x[2] \in DirsOf[x[1]]
                                            /\ entry[x[1]][x[2]] = "cached"} :
         entry' = [o \in Ob |-> [d \in DirsOf[o] |->
                     IF entry[o][d] # "cached" THEN entry[o][d]
                     ELSE IF <<o, d>> \in kept THEN "durable" ELSE "old"]]

Open == {o \in Ob : Head0.ob[o].state \in {"pending", "materialized"}}

BootWith(rows) ==
    /\ ~up /\ up' = TRUE
    /\ life' = "live"
    /\ wal' = IF rows = Head0.ob THEN wal ELSE Append(wal, [Head0 EXCEPT !.ob = rows])
    /\ redo' = Open
    /\ UNCHANGED <<base, entry, turn, queues, tracked, work, told, inbox, outbox, pass,
                   mishaps>>

\* Mutant: a generation of the last process is taken for one of this process.
BootKeepsMaterialized == BootWith(Head0.ob)

\* start() and the reset with which completeOpen begins.
Boot ==
    BootWith([o \in Ob |-> IF o \in Open THEN Row("pending", 0) ELSE Head0.ob[o]])

MainStep ==
    \/ \E c \in Client : Write(c)
    \/ \E o \in Ob : Decide(o) \/ Retry(o) \/ HandlerFails(o)

HandlerStep(o) ==
    \/ Redo(o) \/ Materialize(o)
    \/ \E d \in Dir : Touch(o, d)

PassStep == Sample \/ Barrier \/ Post

Next ==
    \/ MainStep \/ (\E o \in Ob : HandlerStep(o))
    \/ (\E k \in 0..Len(inbox) : StartPass(k)) \/ PassStep \/ Death
    \/ OnSynced \/ Exit \/ Spawn
    \/ Crash \/ PowerLoss \/ Boot

Spec == Init /\ [][Next]_vars

\* A synchronous section ends, the worker's timer and port are served in turn,
\* and so are the reports and the exit of the worker on the main thread.
FairSpec ==
    /\ Spec
    /\ \A o \in Ob : WF_vars(HandlerStep(o))
    /\ SF_vars(StartPass(Len(inbox))) /\ WF_vars(PassStep)
    /\ SF_vars(OnSynced) /\ SF_vars(Exit) /\ SF_vars(Spawn)

-----------------------------------------------------------------------------
\* Types of the disk, the ports, the pass and the generations.
TypeOK ==
    /\ wal \in Seq([ob : [Ob -> [state : {"none", "pending", "materialized", "cleared"},
                                 g : Nat]], note : SUBSET Client])
    /\ wal # <<>> /\ base \in Nat
    /\ \A o \in Ob : entry[o] \in [DirsOf[o] -> {"old", "cached", "durable"}]
    /\ up \in BOOLEAN /\ turn \in Ob \cup {None}
    /\ gen \in Nat
    /\ out \in Seq([type : {"register", "flush"}, g : 0..gen, dir : Dir \cup {None}])
    /\ waiters \subseteq [g : 1..gen, who : Client \cup Ob]
    /\ tracked \in [Ob -> 0..gen]
    /\ work \in [Ob -> [at : {"idle", "await", "act"}, left : SUBSET Dir]]
    /\ redo \subseteq Ob
    /\ told \in [Client -> {"idle", "waiting", "answered", "unavailable", "lost"}]
    /\ life \in {"none", "live", "dead"}
    /\ inbox \in Seq([type : {"register", "flush"}, g : 0..gen, dir : Dir \cup {None}])
    /\ outbox \in Seq(0..gen) /\ Len(outbox) <= MaxPosted
    /\ pass.at \in {"idle", "sample", "sync", "post"} /\ pass.target \in 0..gen
    /\ pass.proven \in {None} \cup 0..Commits /\ pass.observed \in 0..Commits
    /\ mishaps \in 0..MaxMishaps

\* The refinement mapping (the map of the clients has its name in both).
Promise == INSTANCE FlushedWrites WITH latest <- Head0.note, durable <- wal[1].note

\* A flushed() that answered was true: the commits before it survive every later
\* power loss, whatever the worker did and however often it died in between.
\* Stated as an implementation of FlushedWrites: what is written is what the last
\* state of the database holds, what is durable what its first one holds.
ImplementsFlushedWrites == Promise!Spec

\* An obligation is gone, in any state of the database a power loss can leave,
\* only if every directory entry of its effect is durable.
ForgottenIsDurable ==
    \A i \in 1..Len(wal) : \A o \in Ob :
        wal[i].ob[o].state = "cleared" => \A d \in DirsOf[o] : entry[o][d] = "durable"

\* Nothing is deleted from the disk before the decision to delete it is durable.
DeletedAfterDecision ==
    \A o \in Purge : \A d \in DirsOf[o] :
        entry[o][d] # "old" => wal[1].ob[o].state # "none"

\* Every flushed() is answered or refused, also when the worker dies in its pass
\* or before its successor has started.
FlushIsAnswered ==
    \A c \in Client : told[c] = "waiting" ~> told[c] # "waiting"

\* A materialized obligation is cleared while the process runs, though a report
\* is lost with its worker or the clearing transaction fails once.
MaterializedIsCleared ==
    \A o \in Ob : (up /\ Head0.ob[o].state = "materialized")
        ~> (~up \/ Head0.ob[o].state # "materialized")
=============================================================================
