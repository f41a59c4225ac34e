-------------------------- MODULE DeferredMessages ---------------------------
(***************************************************************************)
(* The next message of a one-shot run (deferred-messages.ts and            *)
(* store/deferred-messages.ts): a draft that reserves the continuation of  *)
(* one predecessor job, is edited under its revision, and is sent by the   *)
(* daemon once the predecessor ended well, unless a Stop, a shutdown, a    *)
(* restart or a failed check holds it.                                     *)
(*                                                                         *)
(* An action is a turn of the daemon's thread, with the microtasks that no *)
(* I/O separates: the loop of a flight goes on in the turn that ends its   *)
(* await.  There is one predecessor: drafts of different predecessors      *)
(* share nothing but the process.  A draft is named after the create call  *)
(* that made it.  The capture of the controls and the staging of a body    *)
(* are one await, since nothing is decided between them.  The successor    *)
(* job itself, from its publication on, belongs to CommandQueue.           *)
(***************************************************************************)
EXTENDS Naturals, FiniteSets

CONSTANTS
    Call,          \* mutate calls; a create call that commits names its draft
    Key,           \* idempotency keys
    None,          \* "no such value"
    KeyOf,         \* [Call -> Key]: calls with one key are retries of one request
    ActionOf,      \* [Call -> {"create", "replace", "clear"}]
    MaxFaults,     \* bound: SQL writes that fail
    MaxRestarts,   \* bound: daemon starts after the first
    MayStop, MayShutdown, MayRefuse, MayContinue   \* which events a model includes

ASSUME CallAssumption == None \notin Call /\ IsFiniteSet(Call)
ASSUME RequestAssumption ==
    /\ KeyOf \in [Call -> Key]
    /\ ActionOf \in [Call -> {"create", "replace", "clear"}]
    /\ \A c, d \in Call : KeyOf[c] = KeyOf[d] => ActionOf[c] = ActionOf[d]
ASSUME BoundAssumption == MaxFaults \in Nat /\ MaxRestarts \in Nat
ASSUME ToggleAssumption == {MayStop, MayShutdown, MayRefuse, MayContinue} \subseteq BOOLEAN

VARIABLES
    \* durable
    job,       \* the predecessor's row: "live", "clean" (promotable) or "unclean"
    custody,   \* what its process-scope files prove: "unknown" or "clean"
    row,       \* deferred_message, per draft
    bound,     \* idempotency bindings: the draft a key's mutation was applied to
    claims,    \* successors that hold the continuation: drafts, or "explicit"
    \* the daemon process
    up,
    active,    \* the predecessor is in DaemonServer.activeJobs
    marked,    \* the predecessor is in DaemonServer.cancelled
    owed,      \* a later settlement proved the scope empty and is not yet reported
    calls,     \* progress of each mutate call
    request,   \* per key: the draft and revision its replace or clear names
    closing,   \* DeferredMessages.closing
    waiting,   \* DeferredMessages.waiting
    stopped,   \* DeferredMessages.stopped
    flight,    \* DeferredMessages.flights: where the evaluation of a draft is
    changed,   \* DeferredMessages.changed
    unsaved,   \* drafts whose hold shutdown() reported as not saved
    \* bookkeeping
    fenced,    \* drafts that were waiting or held at a Stop or a restart
    faults, restarts

predecessor == <<job, custody, active, marked, owed>>
requests    == <<bound, calls, request>>
engine      == <<flight, changed, waiting, stopped, faults>>
vars == <<job, custody, row, bound, claims, up, active, marked, owed, calls, request,
          closing, waiting, stopped, flight, changed, unsaved, fenced, faults, restarts>>

Reasons == {"predecessor", "stop_requested", "settlement_unknown", "shutdown",
            "admission_refused", "restart_requires_controller"}
ASSUME NoReasonAssumption == None \notin Reasons
Holds == Reasons \cup {None}

NoRow == [state |-> "none", rev |-> 0, hold |-> None, heldRev |-> 0]
Idle == [at |-> "idle", rev |-> 0]

Init ==
    /\ job = "live" /\ active \in BOOLEAN
    /\ custody = "unknown" /\ marked = FALSE /\ owed = FALSE
    /\ row = [c \in Call |-> NoRow]
    /\ bound = [k \in Key |-> None]
    /\ claims = {}
    /\ up = TRUE /\ closing = FALSE
    /\ calls = [c \in Call |-> "idle"]
    /\ request = [k \in Key |-> [draft |-> None, rev |-> 0]]
    /\ waiting = {} /\ stopped = {} /\ changed = {} /\ unsaved = {} /\ fenced = {}
    /\ flight = [c \in Call |-> Idle]
    /\ faults = 0 /\ restarts = 0

Reserved(d) == row[d].state \in {"waiting", "held"}

Fault == faults < MaxFaults /\ faults' = faults + 1

(***************************************************************************)
(* Holds.                                                                  *)
(***************************************************************************)
Held(r, why) == [r EXCEPT !.state = "held", !.hold = why, !.heldRev = r.rev]

\* Mutant: an edit of a held draft does not end its custody hold.
CustodyHoldAnyRevision(r) == r.state = "held" /\ r.hold = "settlement_unknown"

\* heldForProcessCustody: held for unknown custody and not replaced since.
CustodyHold(r) ==
    r.state = "held" /\ r.hold = "settlement_unknown" /\ r.heldRev = r.rev

\* Mutants: a shutdown holds under the code of its abort reason; what a Stop
\* fenced in memory only is not looked at.
FenceUnlisted(d, busy) ==
    IF closing THEN "host_cancelled"
    ELSE IF marked \/ d \in stopped THEN "stop_requested"
    ELSE IF busy \/ custody = "unknown" THEN "settlement_unknown" ELSE None

FenceSavedOnly(d, busy) ==
    IF closing THEN "shutdown"
    ELSE IF marked THEN "stop_requested"
    ELSE IF busy \/ custody = "unknown" THEN "settlement_unknown" ELSE None

Fence(d, busy) ==
    IF closing THEN "shutdown"
    ELSE IF marked \/ d \in stopped THEN "stop_requested"
    ELSE IF busy \/ custody = "unknown" THEN "settlement_unknown" ELSE None

(***************************************************************************)
(* Evaluation.  A step of a flight yields a row, the place of the flight,  *)
(* how many writes failed, and whether the error ended the flight.         *)
(***************************************************************************)
Step(r, f, cost, threw) == [row |-> r, flight |-> f, cost |-> cost, threw |-> threw]

HoldSteps(r, why) == {Step(Held(r, why), Idle, 0, FALSE), Step(r, Idle, 1, TRUE)}

Ended(busy) == job # "live" /\ ~busy

\* evaluateRevision up to its first await
Begin(d, r, busy) ==
    LET why == IF job = "unclean" THEN "predecessor" ELSE Fence(d, busy)
    IN  IF r.state # "waiting" \/ ~Ended(busy) THEN {Step(r, Idle, 0, FALSE)}
        ELSE IF why # None THEN HoldSteps(r, why)
        ELSE {Step(r, [at |-> "validate", rev |-> r.rev], 0, FALSE)}

\* The finally of a flight: a draft that no longer waits is forgotten.
Land(d, s, tracked) ==
    /\ faults + s.cost <= MaxFaults
    /\ row' = [row EXCEPT ![d] = s.row]
    /\ flight' = [flight EXCEPT ![d] = s.flight]
    /\ faults' = faults + s.cost
    /\ LET forgotten == IF s.flight = Idle /\ s.row.state # "waiting" THEN {d} ELSE {}
       IN  waiting' = tracked \ forgotten /\ stopped' = stopped \ forgotten

EvaluateAs(d, r, busy, note) ==
    IF flight[d] # Idle
      THEN /\ row' = [row EXCEPT ![d] = r]
           /\ changed' = changed \cup note
           /\ waiting' = waiting \cup {d}
           /\ UNCHANGED <<flight, stopped, faults>>
      ELSE /\ changed' = changed \ {d}
           /\ \E s \in Begin(d, r, busy) : Land(d, s, waiting \cup {d})

\* Mutant: a change during a flight is not remembered.
EvaluateOnce(d, r, busy) == EvaluateAs(d, r, busy, {})

\* evaluate: one flight per draft; a change during it is noted.
Evaluate(d, r, busy) == EvaluateAs(d, r, busy, {d})

\* The end of an evaluateRevision and, when the draft changed, the next one.
Advance(d, steps) ==
    \E s \in steps :
        /\ changed' = IF s.threw THEN changed ELSE changed \ {d}
        /\ \E t \in IF s.threw \/ d \notin changed THEN {s}
                     ELSE {[b EXCEPT !.cost = @ + s.cost] : b \in Begin(d, s.row, active)} :
             Land(d, t, waiting)

Validated(d) ==
    /\ up /\ flight[d].at = "validate"
    /\ flight' = [flight EXCEPT ![d].at = "stage"]
    /\ UNCHANGED <<predecessor, row, requests, claims, up, closing, waiting, stopped,
                   changed, unsaved, fenced, faults, restarts>>

\* Mutant: whatever the draft became, it takes the refusal of the old revision.
RefusedSteps(d) == HoldSteps(row[d], "admission_refused")

ValidateSteps(d) ==
    IF row[d].rev = flight[d].rev /\ row[d].state = "waiting"
      THEN HoldSteps(row[d], "admission_refused")
      ELSE {Step(row[d], Idle, 0, FALSE)}

ValidateFails(d) ==
    /\ up /\ flight[d].at = "validate" /\ MayRefuse
    /\ Advance(d, ValidateSteps(d))
    /\ UNCHANGED <<predecessor, requests, claims, up, closing, unsaved, fenced, restarts>>

Sent(r) == [r EXCEPT !.state = "dispatched"]

\* Why the acceptance mutation holds the draft instead of accepting it.
Refusals(d) ==
    LET why == IF Fence(d, active) # None THEN Fence(d, active)
               ELSE IF job = "unclean" THEN "predecessor"
               ELSE IF claims # {} THEN "admission_refused" ELSE None
    IN  IF why = None /\ MayRefuse THEN {None, "admission_refused"} ELSE {why}

PromoteFrom(d, current, refusals) ==
    IF ~current THEN {Step(row[d], Idle, 0, FALSE)}
    ELSE {Step(IF why = None THEN Sent(row[d]) ELSE Held(row[d], why), Idle, 0, FALSE) :
             why \in refusals}
         \cup {Step(Held(row[d], "admission_refused"), Idle, 1, FALSE),
               Step(row[d], Idle, 2, TRUE)}

\* Mutants: the revision, and the fence, are not checked again.
PromoteAnyRevision(d) ==
    PromoteFrom(d, row[d].state = "waiting", Refusals(d))
PromoteUnfenced(d) ==
    PromoteFrom(d, row[d].rev = flight[d].rev /\ row[d].state = "waiting", {None})

\* promote: everything is checked again in the transaction that accepts the
\* successor and freezes the draft.  When it fails, the draft is held; when that
\* fails too the flight ends with the error.
PromoteSteps(d) ==
    PromoteFrom(d, row[d].rev = flight[d].rev /\ row[d].state = "waiting", Refusals(d))

Promote(d) ==
    /\ up /\ flight[d].at = "stage"
    /\ Advance(d, PromoteSteps(d))
    /\ claims' = claims \cup {x \in {d} : row'[x].state = "dispatched"}
    /\ UNCHANGED <<predecessor, requests, up, closing, unsaved, fenced, restarts>>

(***************************************************************************)
(* Mutations: create, replace and clear.                                   *)
(***************************************************************************)
\* assertTarget
Creatable == claims = {} /\ \A d \in Call : ~Reserved(d)

\* assertEditable
Editable(target) == Reserved(target.draft) /\ row[target.draft].rev = target.rev

Refused(c, target) ==
    IF ActionOf[c] = "create" THEN ~Creatable ELSE ~Editable(target)

\* mutate until its await; the client names the revision it last read.
Mutate(c) ==
    LET k == KeyOf[c]
        created == ActionOf[c] = "create"
    IN  /\ up /\ calls[c] = "idle"
        /\ \E d \in Call :
             /\ created \/ row[d].state # "none"
             /\ request' = IF created \/ request[k].draft # None THEN request
                           ELSE [request EXCEPT ![k] = [draft |-> d, rev |-> row[d].rev]]
        /\ calls' = [calls EXCEPT ![c] =
             IF bound[k] # None THEN "replay"
             ELSE IF closing \/ (created /\ ~Creatable) THEN "refused" ELSE "staging"]
        /\ UNCHANGED <<predecessor, row, bound, claims, up, closing, engine, unsaved,
                       fenced, restarts>>

\* The row a mutation writes: only a create makes a draft wait.
Applied(c, target) ==
    CASE ActionOf[c] = "create"  -> [NoRow EXCEPT !.state = "waiting", !.rev = 1]
      [] ActionOf[c] = "replace" -> [row[target.draft] EXCEPT !.rev = @ + 1]
      [] ActionOf[c] = "clear"   ->
           [row[target.draft] EXCEPT !.rev = @ + 1, !.state = "cleared"]

CommitAs(c, replayed, refused) ==
    LET k == KeyOf[c]
        d == IF ActionOf[c] = "create" THEN c ELSE request[k].draft
    IN  /\ up /\ calls[c] = "staging"
        /\ IF closing \/ replayed \/ refused
             THEN /\ calls' = [calls EXCEPT ![c] =
                       IF ~closing /\ replayed THEN "replay" ELSE "refused"]
                  /\ UNCHANGED <<row, bound, engine>>
             ELSE /\ calls' = [calls EXCEPT ![c] = "applied"]
                  /\ bound' = [bound EXCEPT ![k] = d]
                  /\ LET r == Applied(c, request[k])
                     IN  IF r.state = "waiting" THEN Evaluate(d, r, active)
                         ELSE /\ row' = [row EXCEPT ![d] = r]
                              /\ waiting' = waiting \ {d}
                              /\ stopped' = stopped \ {d}
                              /\ UNCHANGED <<flight, changed, faults>>
        /\ UNCHANGED <<predecessor, claims, up, request, closing, unsaved, fenced,
                       restarts>>

\* Mutants: after the await the key, and the reservation, are not read again.
CommitWithoutReplay(c) == CommitAs(c, FALSE, Refused(c, request[KeyOf[c]]))
CommitWithoutRecheck(c) == CommitAs(c, bound[KeyOf[c]] # None, FALSE)

\* mutate after its await
Commit(c) == CommitAs(c, bound[KeyOf[c]] # None, Refused(c, request[KeyOf[c]]))

\* The transaction of the mutation fails.
CommitFails(c) ==
    /\ up /\ calls[c] = "staging" /\ Fault
    /\ calls' = [calls EXCEPT ![c] = "refused"]
    /\ UNCHANGED <<predecessor, row, bound, request, claims, up, closing, waiting,
                   stopped, flight, changed, unsaved, fenced, restarts>>

(***************************************************************************)
(* The predecessor, and the other successors it may get.                   *)
(***************************************************************************)
Start ==
    /\ up /\ ~closing /\ job = "live" /\ ~active /\ ~marked
    /\ active' = TRUE
    /\ UNCHANGED <<job, custody, marked, owed, row, requests, claims, up, closing, engine,
                   unsaved, fenced, restarts>>

\* Its terminal: whether it may promote at all, and what its scope record says.
End ==
    /\ up /\ active /\ job = "live"
    /\ job' \in {"clean", "unclean"}
    /\ custody' \in {"unknown", "clean"}
    /\ UNCHANGED <<active, marked, owed, row, requests, claims, up, closing, engine,
                   unsaved, fenced, restarts>>

\* drain() records a cancelled job that never ran; settled() is not called.
EndCancelled ==
    /\ up /\ ~closing /\ job = "live" /\ ~active /\ marked
    /\ job' = "unclean"
    /\ UNCHANGED <<custody, active, marked, owed, row, requests, claims, up, closing,
                   engine, unsaved, fenced, restarts>>

\* The finally of runJob: the slot is freed, then settled(predecessor).
FreeSlot ==
    /\ up /\ active /\ job # "live"
    /\ active' = FALSE
    /\ IF \E d \in Call : row[d].state = "waiting"
         THEN \E d \in Call : row[d].state = "waiting" /\ Evaluate(d, row[d], FALSE)
         ELSE UNCHANGED <<row, engine>>
    /\ UNCHANGED <<job, custody, marked, owed, requests, claims, up, closing, unsaved,
                   fenced, restarts>>

\* Mutant: an ordinary continuation does not ask for a reservation.
ContinueUnreserved == claims = {}

\* assertDeferredReservation and the continuation rule of an ordinary run.create
MayContinueNow == claims = {} /\ \A d \in Call : ~Reserved(d)

Continue ==
    /\ MayContinue /\ up /\ ~closing /\ job # "live" /\ MayContinueNow
    /\ claims' = {"explicit"}
    /\ UNCHANGED <<predecessor, row, requests, up, closing, engine, unsaved, fenced,
                   restarts>>

\* A successor that ended before its run started gives the continuation back.
Release ==
    /\ MayContinue /\ up /\ claims # {}
    /\ claims' = {}
    /\ UNCHANGED <<predecessor, row, requests, up, closing, engine, unsaved, fenced,
                   restarts>>

(***************************************************************************)
(* Stop: the cancel of the daemon (which marks the job) and the Stop of a  *)
(* predecessor that already ended.                                         *)
(***************************************************************************)
\* Mutant: a custody hold is left as it is.
StopHoldWaitingOnly(r) ==
    IF r.state = "waiting" THEN Held(r, "stop_requested") ELSE r

\* hold of a waiting draft, rehold of one that is held for custody
StopHold(r) ==
    CASE r.state = "waiting" -> Held(r, "stop_requested")
      [] CustodyHold(r)      -> [r EXCEPT !.hold = "stop_requested"]
      [] OTHER               -> r

\* stop(): fence, hold and report are one step; an unsaved hold stays fenced.
StopDraft(d) ==
    /\ fenced' = fenced \cup {d}
    /\ \/ /\ row' = [row EXCEPT ![d] = StopHold(@)]
          /\ stopped' = stopped \ {d}
          /\ UNCHANGED faults
       \/ /\ StopHold(row[d]) # row[d] /\ Fault
          /\ stopped' = stopped \cup {d}
          /\ UNCHANGED row

Stop ==
    /\ MayStop /\ up
    /\ marked' \in {marked, TRUE}
    /\ job' = IF marked' /\ job = "live" /\ ~active THEN "unclean" ELSE job
    /\ IF \E d \in Call : Reserved(d)
         THEN \E d \in Call : Reserved(d) /\ StopDraft(d)
         ELSE UNCHANGED <<fenced, row, stopped, faults>>
    /\ UNCHANGED <<custody, active, owed, requests, claims, up, closing, waiting, flight,
                   changed, unsaved, restarts>>

\* The cancel of a queued predecessor cannot be recorded: the job keeps its mark
\* and its place, and the Stop ends before the draft.
StopFails ==
    /\ MayStop /\ up /\ job = "live" /\ ~active /\ Fault
    /\ marked' = TRUE
    /\ UNCHANGED <<job, custody, active, owed, row, requests, claims, up, closing, waiting,
                   stopped, flight, changed, unsaved, fenced, restarts>>

(***************************************************************************)
(* Later settlement of the process scope, by the daemon that opened it.    *)
(***************************************************************************)
ScopeSettles ==
    /\ up /\ job # "live" /\ ~active /\ custody = "unknown" /\ restarts = 0
    /\ custody' = "clean" /\ owed' = TRUE
    /\ UNCHANGED <<job, active, marked, row, requests, claims, up, closing, engine,
                   unsaved, fenced, restarts>>

Resume(d, r) == Evaluate(d, r, active)

\* processScopeSettled, repeated while its write fails
Report ==
    /\ up /\ owed
    /\ \/ \E d \in Call :
            /\ ~closing /\ d \notin stopped /\ CustodyHold(row[d])
            /\ Fence(d, active) = None
            /\ \/ Resume(d, [row[d] EXCEPT !.state = "waiting", !.hold = None])
                  /\ owed' = FALSE
               \/ Fault /\ UNCHANGED <<row, waiting, stopped, flight, changed, owed>>
       \/ /\ \A d \in Call : closing \/ d \in stopped \/ ~CustodyHold(row[d])
                                \/ Fence(d, active) # None
          /\ owed' = FALSE
          /\ UNCHANGED <<row, engine>>
    /\ UNCHANGED <<job, custody, active, marked, requests, claims, up, closing, unsaved,
                   fenced, restarts>>

(***************************************************************************)
(* Shutdown, crash, restart.                                               *)
(***************************************************************************)
\* shutdown(): the fence first, then the hold of every draft tracked as waiting.
Shutdown ==
    /\ MayShutdown /\ up /\ ~closing
    /\ closing' = TRUE
    /\ LET toHold == {d \in waiting : row[d].state = "waiting"}
       IN  \E failed \in SUBSET toHold :
             /\ faults + Cardinality(failed) <= MaxFaults
             /\ faults' = faults + Cardinality(failed)
             /\ unsaved' = failed
             /\ row' = [d \in Call |-> IF d \in toHold \ failed
                                        THEN Held(row[d], "shutdown") ELSE row[d]]
    /\ UNCHANGED <<predecessor, requests, claims, up, waiting, stopped, flight, changed,
                   fenced, restarts>>

\* The process ends, by a crash or after its shutdown.
Down ==
    /\ up /\ restarts < MaxRestarts
    /\ up' = FALSE /\ closing' = FALSE
    /\ active' = FALSE /\ marked' = FALSE /\ owed' = FALSE
    /\ calls' = [c \in Call |-> IF calls[c] = "staging" THEN "lost" ELSE calls[c]]
    /\ waiting' = {} /\ stopped' = {} /\ changed' = {} /\ unsaved' = {}
    /\ flight' = [c \in Call |-> Idle]
    /\ UNCHANGED <<job, custody, row, bound, claims, request, fenced, faults, restarts>>

\* Mutant: drafts are left as they were.
RestartHoldNever(r) == r

RestartHold(r) ==
    IF r.state = "waiting" THEN Held(r, "restart_requires_controller") ELSE r

\* The command rows recover first, then recoverAfterStartup holds what waited.
Restart ==
    /\ ~up
    /\ up' = TRUE /\ restarts' = restarts + 1
    /\ job' = IF job = "live" THEN "unclean" ELSE job
    /\ row' = [d \in Call |-> RestartHold(row[d])]
    /\ fenced' = fenced \cup {d \in Call : Reserved(d)}
    /\ UNCHANGED <<custody, active, marked, owed, requests, claims, closing, engine,
                   unsaved>>

FlightStep(d) == Validated(d) \/ ValidateFails(d) \/ Promote(d)

Next ==
    \/ \E d \in Call : FlightStep(d)
    \/ \E c \in Call : Mutate(c) \/ Commit(c) \/ CommitFails(c)
    \/ Start \/ End \/ EndCancelled \/ FreeSlot \/ Continue \/ Release
    \/ Stop \/ StopFails \/ ScopeSettles \/ Report
    \/ Shutdown \/ Down \/ Restart

Spec == Init /\ [][Next]_vars

\* Preparation and staging end, and so does the runner of the predecessor.
FairSpec ==
    /\ Spec
    /\ \A d \in Call : WF_vars(FlightStep(d))
    /\ WF_vars(FreeSlot)

-----------------------------------------------------------------------------
\* Types of the drafts, the flights and what the daemon remembers of them.
TypeOK ==
    /\ job \in {"live", "clean", "unclean"} /\ custody \in {"unknown", "clean"}
    /\ row \in [Call -> [state : {"none", "waiting", "held", "dispatched", "cleared"},
                         rev : Nat, hold : Holds, heldRev : Nat]]
    /\ bound \in [Key -> Call \cup {None}]
    /\ claims \subseteq Call \cup {"explicit"}
    /\ {up, active, marked, owed, closing} \subseteq BOOLEAN
    /\ calls \in [Call -> {"idle", "staging", "applied", "replay", "refused", "lost"}]
    /\ request \in [Key -> [draft : Call \cup {None}, rev : Nat]]
    /\ waiting \subseteq Call /\ stopped \subseteq Call /\ changed \subseteq Call
    /\ unsaved \subseteq Call /\ fenced \subseteq Call
    /\ flight \in [Call -> [at : {"idle", "validate", "stage"}, rev : Nat]]
    /\ faults \in 0..MaxFaults /\ restarts \in 0..MaxRestarts

\* The continuation of a run belongs to one draft or to one successor, never to
\* two, however the awaits of creates, promotions and ordinary continuations overlap;
\* and the retries of one create, sent at any time, make one draft.
OneContinuation ==
    /\ Cardinality({d \in Call : Reserved(d)}) + Cardinality(claims) <= 1
    /\ \A c, d \in Call :
         row[c].state # "none" /\ row[d].state # "none" /\ KeyOf[c] = KeyOf[d] => c = d

Dispatches(d) == row[d].state # "dispatched" /\ row'[d].state = "dispatched"

\* What is sent is the revision whose controls were validated, and the refusal of
\* a revision never holds a newer one or revives a draft that was cleared.
DecidedAsValidated ==
    [][\A d \in Call :
         Dispatches(d) \/ (row'[d].hold = "admission_refused" /\ row'[d] # row[d]
                             /\ row[d].hold # "admission_refused")
           => row[d].state = "waiting" /\ flight[d].rev = row[d].rev]_vars

\* Nothing is sent once a Stop, a shutdown or a restart came over it, the Stop
\* whose hold could not be saved included, in this life of the daemon or the next.
FencedIsNeverSent ==
    [][\A d \in Call : Dispatches(d) => ~closing /\ ~marked /\ d \notin fenced]_vars

\* A held draft returns only when it was held for custody that is now proved, was
\* not edited and not stopped since.
HeldStaysHeld ==
    [][\A d \in Call : row[d].state = "held" /\ row'[d].state \in {"waiting", "dispatched"}
         => /\ row[d].hold = "settlement_unknown" /\ row[d].heldRev = row[d].rev
            /\ custody = "clean" /\ d \notin fenced]_vars

\* The loop of a flight loses no change: once the predecessor ended, a waiting
\* draft is sent, held or cleared, whatever edits and settlements race with it,
\* while the daemon serves and its writes succeed.
WaitingIsDecided ==
    \A d \in Call :
        (job # "live" /\ row[d].state = "waiting")
            ~> (row[d].state # "waiting" \/ closing \/ ~up \/ faults > 0)
=============================================================================
