----------------------------- MODULE FamilyBudget -----------------------------
(***************************************************************************)
(* The money of one Delegate family: the ledger its attempts reserve,      *)
(* stream and settle against (budget/ledger.ts), and the registry that     *)
(* lends a view of it to each child, drains the children before the        *)
(* parent's terminal and fences those that do not end                      *)
(* (orchestrator/delegationBudgetAuthority.ts, with the daemon's cancel).  *)
(*                                                                         *)
(* Every call is synchronous and is one action; attempts of all runs of    *)
(* the family interleave between calls.  Amounts are whole; a credential   *)
(* route is whether it is paid, its estimate and whether that is known.    *)
(* The registry lives in memory: a restart of the daemon ends the family.  *)
(***************************************************************************)
EXTENDS Naturals, FiniteSets, Functions

CONSTANTS
    Parent,        \* the parent run (its id, its task, its admission)
    Child,         \* its possible children, likewise
    Lease,         \* leases, each granted once
    None,          \* "no such value"
    Cap,           \* PaidBudget: the cap of finite(maxUsd), or None for unlimited
    MaxChildren,   \* MAX_DELEGATED_CHILDREN
    MaxUsd         \* bound: an estimate, a streamed total or a settled amount

ASSUME TaskAssumption == Parent \notin Child /\ None \notin Child \cup {Parent}
ASSUME AmountAssumption ==
    /\ Cap = None \/ Cap \in Nat
    /\ MaxChildren \in Nat /\ MaxUsd \in Nat /\ IsFiniteSet(Child) /\ IsFiniteSet(Lease)

VARIABLES
    \* SharedFinancialState
    lease,        \* leases: state, task and cost evidence
    hold,         \* holds: reservedUsd and observedUsd, both 0 when absent
    unknown,      \* unknownPaidInFlight
    started,      \* physicalDispatchStarted
    cash,         \* cashUsd
    overshot,
    \* ParentAuthority
    parent,       \* "open", "waiting", "drained", "timedOut", "gone"
    accepting,
    pending,      \* pendingAdmissions
    attached,     \* children
    released,     \* children whose view is released
    \* the daemon's jobs of the children
    job,          \* "none", "queued", "marked" (cancelled, not recorded), "running", "over"
    \* bookkeeping
    late,         \* children that attached after the drain had timed out
    excess        \* cash streamed or settled above the hold of its lease

money  == <<lease, hold, unknown, started, cash, overshot, excess>>
family == <<parent, accepting, pending, attached, released, job, late>>
vars == <<money, family>>

Task == Child \cup {Parent}
Usd == 0..MaxUsd

\* CostEvidence.  A zero route is proven zero or a subscription entitlement.
Zero == [paid |-> FALSE, known |-> TRUE, usd |-> 0]
UnknownPaid == [paid |-> TRUE, known |-> FALSE, usd |-> 0]
Metered(n) == [paid |-> TRUE, known |-> TRUE, usd |-> n]
Evidence == {Zero, UnknownPaid} \cup {Metered(n) : n \in Usd \ {0}}

NoLease == [state |-> "none", task |-> None, cost |-> Zero]
NoHold == [reserved |-> 0, observed |-> 0]
Larger(m, n) == IF m > n THEN m ELSE n

\* Mutant: a remainder may be negative.
Difference(m, n) == m - n
Less(m, n) == IF m > n THEN m - n ELSE 0
Reserved(l) == lease[l].state = "reserved"
\* The evidence of a closed lease is not read again.
Closed(l, s) == [lease[l] EXCEPT !.state = s, !.cost = Zero]

Init ==
    /\ lease = [l \in Lease |-> NoLease] /\ hold = [l \in Lease |-> NoHold]
    /\ unknown = {} /\ started = {} /\ cash = 0 /\ overshot = FALSE
    /\ parent = "open" /\ accepting = TRUE
    /\ pending = {} /\ attached = {} /\ released = {}
    /\ job = [c \in Child |-> "none"]
    /\ late = {} /\ excess = 0

(***************************************************************************)
(* Admission of a cost, for a new lease or for one that is repriced.       *)
(***************************************************************************)
Held(l) == Larger(hold[l].reserved, hold[l].observed)

\* outstandingHolds.
Holds == SumFunctionOnSet([l \in Lease |-> Held(l)], Lease)

\* tier() = "hard".
Hard ==
    /\ Cap # None
    /\ overshot \/ (Cap = 0 /\ cash + Holds > 0) \/ (Cap > 0 /\ cash + Holds >= Cap)

\* A view acts only for its own task and until it is released.
Scoped(t) == t = Parent \/ t \in attached \ released

\* Mutant: the holds of the other attempts are not subtracted.
HeadroomOfCash(l) == Less(Cap, cash)

\* remainingUsd, and what the lease already holds itself.
Headroom(l) == Less(Cap, cash + Holds) + Held(l)

\* Mutant: a lease that is repriced skips the check of unknown paid work.
DeniedAtReserve(l, cost, needed) ==
    /\ Cap # None /\ cost.paid
    /\ \/ Cap = 0
       \/ Hard
       \/ ~cost.known /\ unknown # {} /\ lease[l] = NoLease
       \/ needed > 0 /\ needed >= Headroom(l)

\* reservationDenial: nothing for a zero route.
Denied(l, cost, needed) ==
    /\ Cap # None /\ cost.paid
    /\ \/ Cap = 0
       \/ Hard
       \/ ~cost.known /\ unknown \ {l} # {}
       \/ needed > 0 /\ needed >= Headroom(l)

Reserve(t, l, cost) ==
    /\ Scoped(t) /\ lease[l] = NoLease /\ ~Denied(l, cost, cost.usd)
    /\ lease' = [lease EXCEPT ![l] = [state |-> "reserved", task |-> t, cost |-> cost]]
    /\ hold' = [hold EXCEPT ![l].reserved = cost.usd]
    /\ unknown' = IF Cap # None /\ ~cost.known THEN unknown \cup {l} ELSE unknown
    /\ UNCHANGED <<started, cash, overshot, excess, family>>

\* What a repriced lease must hold: never less than it did, and the new send on
\* top of what was observed.
Needed(l, cost) == Larger(hold[l].reserved, hold[l].observed + cost.usd)

\* repriceReservedLease; "drop": whether a zero route clears an unknown price.
RepriceAs(l, cost, drop) ==
    /\ Reserved(l) /\ Scoped(lease[l].task) /\ ~Denied(l, cost, Needed(l, cost))
    /\ lease' = [lease EXCEPT ![l].cost = cost]
    /\ hold' = [hold EXCEPT ![l].reserved = Needed(l, cost)]
    /\ unknown' = IF ~cost.known THEN IF Cap # None THEN unknown \cup {l} ELSE unknown
                  ELSE IF ~cost.paid /\ drop THEN unknown \ {l} ELSE unknown
    /\ UNCHANGED <<started, cash, overshot, excess, family>>

\* Mutant: a rotation to a zero route forgets what was already sent.
RepriceForgets(l, cost) == RepriceAs(l, cost, TRUE)

Reprice(l, cost) == RepriceAs(l, cost, l \notin started)

\* markPhysicalDispatchStarted: the scope is not checked.  (Nor is the state of
\* the lease: a mark on a closed lease is never read, and left out.)
Start(l) ==
    /\ Reserved(l) /\ lease[l].cost.paid
    /\ started' = started \cup {l}
    /\ UNCHANGED <<lease, hold, unknown, cash, overshot, excess, family>>

\* updateHold: a streamed total only raises the hold.
Stream(l, usd) ==
    /\ Reserved(l) /\ Scoped(lease[l].task) /\ usd > hold[l].observed
    /\ hold' = [hold EXCEPT ![l].observed = usd]
    /\ excess' = excess + Less(usd, Held(l))
    /\ UNCHANGED <<lease, unknown, started, cash, overshot, family>>

\* settle: a route reserved at zero stays free unless it met an unknown price
\* or the settlement carries a cash component of its own.
Settle(l, usd, component) ==
    LET free  == ~lease[l].cost.paid /\ l \notin unknown /\ ~component
        spent == IF free THEN 0 ELSE usd
    IN  /\ Reserved(l) /\ Scoped(lease[l].task)
        /\ lease' = [lease EXCEPT ![l] = Closed(l, "settled")]
        /\ hold' = [hold EXCEPT ![l] = NoHold]
        /\ unknown' = unknown \ {l} /\ started' = started \ {l}
        /\ cash' = cash + spent
        /\ overshot' = (overshot \/ (Cap # None /\ cash + spent > Cap))
        /\ excess' = excess + Less(spent, Held(l))
        /\ UNCHANGED family

\* cancel, of all leases of a set: what was sent and not settled is not counted.
CancelLeases(ls) ==
    /\ lease' = [l \in Lease |->
                   IF l \in ls /\ Reserved(l) THEN Closed(l, "cancelled") ELSE lease[l]]
    /\ hold' = [l \in Lease |-> IF l \in ls THEN NoHold ELSE hold[l]]
    /\ unknown' = unknown \ ls /\ started' = started \ ls

Cancel(l) ==
    /\ Reserved(l) /\ Scoped(lease[l].task)
    /\ CancelLeases({l})
    /\ UNCHANGED <<cash, overshot, excess, family>>

(***************************************************************************)
(* The registry and the jobs of the children.                              *)
(***************************************************************************)
\* Mutant: a child that is admitted and not attached is not waited for.
AttachedDrained == attached = {}

\* isDrained.
Drained == pending = {} /\ attached = {}

\* BudgetLedger.releaseTask, of the views of a set of children.
Release(cs) ==
    /\ CancelLeases({l \in Lease : Reserved(l) /\ lease[l].task \in cs \ released})
    /\ released' = released \cup cs
    /\ UNCHANGED <<cash, overshot, excess>>

\* assertCanAdmitChild and noteChildAccepted: the count never goes back.
Admit(c) ==
    /\ parent # "gone" /\ accepting /\ job[c] = "none"
    /\ Cardinality({d \in Child : job[d] # "none"}) < MaxChildren
    /\ job' = [job EXCEPT ![c] = "queued"]
    /\ pending' = pending \cup {c}
    /\ UNCHANGED <<money, parent, accepting, attached, released, late>>

StartJob(c) ==
    /\ job[c] = "queued"
    /\ job' = [job EXCEPT ![c] = "running"]
    /\ UNCHANGED <<money, parent, accepting, pending, attached, released, late>>

\* drain(): a job whose cancel could not be recorded is recorded here, and its
\* admission is not returned.
DiscardMarked(c) ==
    /\ job[c] = "marked"
    /\ job' = [job EXCEPT ![c] = "over"]
    /\ UNCHANGED <<money, parent, accepting, pending, attached, released, late>>

\* cancelJob of each child of a set: a queued one ends and its admission is
\* returned, unless the write of its record fails ("failing"); the runner of a
\* running one is told to stop.
CancelJobs(cs, failing) ==
    LET ended == {c \in cs : job[c] \in {"queued", "marked"}} \ failing
    IN  /\ job' = [c \in Child |-> IF c \in ended THEN "over"
                                   ELSE IF c \in failing THEN "marked" ELSE job[c]]
        /\ pending' = pending \ ended

Waiting(cs) == {c \in cs : job[c] \in {"queued", "marked"}}

CancelChild(c) ==
    /\ Waiting({c}) # {}
    /\ \E failing \in SUBSET {c} : CancelJobs({c}, failing)
    /\ UNCHANGED <<money, parent, accepting, attached, released, late>>

\* attachChild: the view of a child whose admission is pending, whatever the
\* parent is doing.
Attach(c) ==
    /\ job[c] = "running" /\ c \in pending /\ parent # "gone"
    /\ pending' = pending \ {c} /\ attached' = attached \cup {c}
    /\ late' = IF parent = "timedOut" THEN late \cup {c} ELSE late
    /\ UNCHANGED <<money, parent, accepting, released, job>>

\* The job of a child ends: releaseRun of an attached child, cancelAcceptedChild
\* of one that never attached.
JobEnds(c) ==
    /\ job[c] = "running"
    /\ job' = [job EXCEPT ![c] = "over"]
    /\ Release(attached \cap {c})
    /\ pending' = pending \ {c} /\ attached' = attached \ {c}
    /\ UNCHANGED <<parent, accepting, late>>

\* The fence, and the cancel of a running parent: no more children.
Fence ==
    /\ parent # "gone" /\ accepting
    /\ accepting' = FALSE
    /\ UNCHANGED <<money, parent, pending, attached, released, job, late>>

\* The barrier: beginParentClose, then waitForChildren cancels them all.
BeginClose ==
    /\ parent = "open"
    /\ parent' = IF Drained THEN "drained" ELSE "waiting"
    /\ accepting' = FALSE
    /\ \E failing \in SUBSET Waiting(pending) : CancelJobs(pending \cup attached, failing)
    /\ UNCHANGED <<money, attached, released, late>>

ChildrenDrained ==
    /\ parent = "waiting" /\ Drained
    /\ parent' = "drained"
    /\ UNCHANGED <<money, accepting, pending, attached, released, job, late>>

\* The timeout of the drain: the views of the attached children are released.
DrainTimeout ==
    /\ parent = "waiting" /\ ~Drained
    /\ parent' = "timedOut"
    /\ Release(attached)
    /\ UNCHANGED <<accepting, pending, attached, job, late>>

\* releaseRun of the parent, once its terminal is settled.
ParentReleased ==
    /\ parent \in {"drained", "timedOut"}
    /\ parent' = "gone" /\ accepting' = FALSE
    /\ Release(attached)
    /\ pending' = {} /\ attached' = {}
    /\ UNCHANGED <<job, late>>

-----------------------------------------------------------------------------
LedgerStep(l) ==
    \/ \E cost \in Evidence : (\E t \in Task : Reserve(t, l, cost)) \/ Reprice(l, cost)
    \/ Start(l) \/ Cancel(l)
    \/ \E usd \in Usd : Stream(l, usd) \/ \E b \in BOOLEAN : Settle(l, usd, b)

ChildStep(c) ==
    \/ Admit(c) \/ StartJob(c) \/ DiscardMarked(c) \/ CancelChild(c)
    \/ Attach(c) \/ JobEnds(c)

Next ==
    \/ \E l \in Lease : LedgerStep(l)
    \/ \E c \in Child : ChildStep(c)
    \/ Fence \/ BeginClose \/ ChildrenDrained \/ DrainTimeout \/ ParentReleased

Spec == Init /\ [][Next]_vars

-----------------------------------------------------------------------------
LeaseStates == {"none", "reserved", "settled", "cancelled"}

\* Types; amounts, and so remainders, are natural numbers.
TypeOK ==
    /\ lease \in [Lease -> [state : LeaseStates, task : Task \cup {None},
                            cost : [paid : BOOLEAN, known : BOOLEAN, usd : Nat]]]
    /\ hold \in [Lease -> [reserved : Nat, observed : Nat]]
    /\ unknown \subseteq Lease /\ started \subseteq Lease
    /\ cash \in Nat /\ excess \in Nat /\ overshot \in BOOLEAN
    /\ parent \in {"open", "waiting", "drained", "timedOut", "gone"}
    /\ accepting \in BOOLEAN
    /\ pending \subseteq Child /\ attached \subseteq Child
    /\ released \subseteq Child /\ late \subseteq Child
    /\ job \in [Child -> {"none", "queued", "marked", "running", "over"}]

\* Under a finite cap at most one attempt of the whole family is in flight at a
\* price nobody knows, through every rotation of its route, and only a lease
\* that is still open holds money or such a price.
OneUnknownPaid ==
    /\ Cap # None => \A k, l \in unknown : k = l
    /\ \A l \in Lease : Reserved(l) \/ (l \notin unknown /\ hold[l] = NoHold)

\* The cap is exceeded only by money above the hold it was admitted with:
\* attempts of parent and children never reserve the same headroom twice.
WithinCap == Cap # None => cash + Holds <= Cap + excess

\* What was sent at an unknown price keeps the family's only slot until its
\* lease is closed: a rotation to an included route does not free it.
DebtIsKept ==
    [][\A l \in unknown \cap started : l \in unknown' \/ ~Reserved(l)']_vars

\* Once the parent's barrier has ended no child holds or can add family money,
\* so the spend its terminal reports is whole; the exception is a child that
\* attached between the timeout of the drain and the release of the parent.
ChildrenAreSilent ==
    /\ parent \in {"drained", "timedOut", "gone"} =>
         \A l \in Lease : Reserved(l) => lease[l].task \notin Child \ late
    /\ parent = "gone" =>
         \A l \in Lease : Reserved(l) => lease[l].task = Parent
=============================================================================
