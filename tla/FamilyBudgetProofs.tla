-------------------------- MODULE FamilyBudgetProofs --------------------------
(***************************************************************************)
(* Proofs about FamilyBudget, for every family, number of attempts and     *)
(* cap: types, the single attempt at an unknown price, and the silence of  *)
(* the children once the parent's barrier has ended, and the cap.  The cap *)
(* is about a sum; what SumFunctionOnSet computes is shown subset by       *)
(* subset, by the smallest subset on which it would be wrong.              *)
(***************************************************************************)
EXTENDS FamilyBudget, FiniteSetTheorems, WellFoundedInduction, TLAPS

\* The scope of every open lease is alive.
OpenLeasesAreScoped ==
    \A l \in Lease : Reserved(l) => lease[l].task \in {Parent} \cup (attached \ released)

\* Admission stops at the barrier, and what the barrier left behind stays: no
\* child at all after a drain, none with a usable view after a timeout but the
\* late ones, and none once the parent is released.
BarrierHolds ==
    /\ parent # "open" => ~accepting
    /\ parent \in {"drained", "gone"} => Drained
    /\ parent = "timedOut" => attached \ released \subseteq late

SilenceInv == TypeOK /\ OpenLeasesAreScoped /\ BarrierHolds

\* A cost that is not known is paid: a zero route has a known price.
LEMMA EvidenceType ==
    ASSUME NEW cost \in Evidence
    PROVE  /\ cost \in [paid : BOOLEAN, known : BOOLEAN, usd : Nat]
           /\ ~cost.known => cost.paid
<1>1. CASE cost = Zero
  BY <1>1 DEF Zero
<1>u. CASE cost = UnknownPaid
  BY <1>u DEF UnknownPaid
<1>2. ASSUME NEW n \in Usd, cost = Metered(n)
      PROVE  /\ cost \in [paid : BOOLEAN, known : BOOLEAN, usd : Nat]
             /\ ~cost.known => cost.paid
  <2>1. n \in Nat
    BY AmountAssumption DEF Usd
  <2>2. QED
    BY <1>2, <2>1 DEF Metered
<1>3. QED
  BY <1>1, <1>u, <1>2 DEF Evidence

\* Closing leases keeps the types of the ledger.
LEMMA CancelType ==
    ASSUME TypeOK, NEW ls, CancelLeases(ls)
    PROVE  /\ lease' \in [Lease -> [state : LeaseStates, task : Task \cup {None},
                                    cost : [paid : BOOLEAN, known : BOOLEAN, usd : Nat]]]
           /\ hold' \in [Lease -> [reserved : Nat, observed : Nat]]
           /\ unknown' \subseteq Lease /\ started' \subseteq Lease
<1>1. \A l \in Lease : Closed(l, "cancelled") \in
          [state : LeaseStates, task : Task \cup {None},
           cost : [paid : BOOLEAN, known : BOOLEAN, usd : Nat]]
  BY DEF TypeOK, Closed, LeaseStates, Zero
<1>2. lease' \in [Lease -> [state : LeaseStates, task : Task \cup {None},
                            cost : [paid : BOOLEAN, known : BOOLEAN, usd : Nat]]]
  BY <1>1 DEF TypeOK, CancelLeases
<1>3. hold' \in [Lease -> [reserved : Nat, observed : Nat]]
  BY DEF TypeOK, CancelLeases, NoHold
<1>4. QED
  BY <1>2, <1>3 DEF TypeOK, CancelLeases

\* What a lease holds is an amount.
LEMMA HeldType == ASSUME TypeOK, NEW l \in Lease PROVE Held(l) \in Nat
  BY DEF TypeOK, Held, Larger

\* A remainder is an amount: it does not fall below zero.
LEMMA LessType == ASSUME NEW m \in Nat, NEW n \in Nat PROVE Less(m, n) \in Nat
  BY DEF Less

-----------------------------------------------------------------------------
\* Every call of the ledger keeps the types.
LEMMA LedgerTypes ==
    ASSUME TypeOK, NEW l \in Lease, LedgerStep(l)
    PROVE  TypeOK'
<1>1. ASSUME NEW cost \in Evidence, NEW t \in Task, Reserve(t, l, cost)
      PROVE  TypeOK'
  BY <1>1, EvidenceType DEF TypeOK, Reserve, family, LeaseStates
<1>2. ASSUME NEW cost \in Evidence, Reprice(l, cost)
      PROVE  TypeOK'
  <2>1. Needed(l, cost) \in Nat
    BY EvidenceType DEF TypeOK, Needed, Larger
  <2>2. QED
    BY <1>2, <2>1, EvidenceType DEF TypeOK, Reprice, RepriceAs, family
<1>3. CASE Start(l)
  BY <1>3 DEF TypeOK, Start, family
<1>4. CASE Cancel(l)
  BY <1>4, CancelType DEF TypeOK, Cancel, family
<1>5. ASSUME NEW usd \in Usd, Stream(l, usd)
      PROVE  TypeOK'
  <2>1. usd \in Nat /\ Less(usd, Held(l)) \in Nat
    BY AmountAssumption, HeldType, LessType DEF Usd
  <2>2. QED
    BY <1>5, <2>1 DEF TypeOK, Stream, family
<1>6. ASSUME NEW usd \in Usd, NEW b \in BOOLEAN, Settle(l, usd, b)
      PROVE  TypeOK'
  <2> DEFINE free  == ~lease[l].cost.paid /\ l \notin unknown /\ ~b
             spent == IF free THEN 0 ELSE usd
  <2>1. spent \in Nat /\ Less(spent, Held(l)) \in Nat
    BY AmountAssumption, HeldType, LessType DEF Usd
  <2>2. /\ cash' = cash + spent
        /\ excess' = excess + Less(spent, Held(l))
        /\ overshot' \in BOOLEAN
    BY <1>6 DEF Settle, TypeOK
  <2> HIDE DEF spent
  <2>3. /\ lease' = [lease EXCEPT ![l] = Closed(l, "settled")]
        /\ hold' = [hold EXCEPT ![l] = NoHold]
        /\ unknown' = unknown \ {l} /\ started' = started \ {l}
        /\ UNCHANGED family
    BY <1>6 DEF Settle
  <2>4. Closed(l, "settled") \in [state : LeaseStates, task : Task \cup {None},
                                  cost : [paid : BOOLEAN, known : BOOLEAN, usd : Nat]]
    BY DEF TypeOK, Closed, LeaseStates, Zero
  <2>5. cash' \in Nat /\ excess' \in Nat
    BY <2>1, <2>2 DEF TypeOK
  <2>6. QED
    BY <2>2, <2>3, <2>4, <2>5 DEF TypeOK, family, NoHold
<1>7. QED
  BY <1>1, <1>2, <1>3, <1>4, <1>5, <1>6 DEF LedgerStep

\* So does every step of the registry, of its timeout and of the jobs.
LEMMA FamilyTypes ==
    ASSUME TypeOK,
           \/ \E c \in Child : ChildStep(c)
           \/ Fence \/ BeginClose \/ ChildrenDrained \/ DrainTimeout \/ ParentReleased
    PROVE  TypeOK'
<1>1. ASSUME NEW c \in Child, Admit(c) \/ StartJob(c) \/ DiscardMarked(c) \/ Attach(c)
      PROVE  TypeOK'
  BY <1>1 DEF TypeOK, Admit, StartJob, DiscardMarked, Attach, money
<1>2. ASSUME NEW c \in Child, CancelChild(c)
      PROVE  TypeOK'
  BY <1>2 DEF TypeOK, CancelChild, CancelJobs, money
<1>3. ASSUME NEW c \in Child, JobEnds(c)
      PROVE  TypeOK'
  BY <1>3, CancelType DEF TypeOK, JobEnds, Release
<1>4. CASE Fence
  BY <1>4 DEF TypeOK, Fence, money
<1>5. CASE BeginClose
  BY <1>5 DEF TypeOK, BeginClose, CancelJobs, money
<1>6. CASE ChildrenDrained
  BY <1>6 DEF TypeOK, ChildrenDrained, money
<1>7. CASE DrainTimeout
  BY <1>7, CancelType DEF TypeOK, DrainTimeout, Release
<1>8. CASE ParentReleased
  BY <1>8, CancelType DEF TypeOK, ParentReleased, Release
<1>9. QED
  BY <1>1, <1>2, <1>3, <1>4, <1>5, <1>6, <1>7, <1>8 DEF ChildStep

\* A new ledger and registry have their types.
LEMMA InitTypes == Init => TypeOK
<1> DEFINE Records == [state : LeaseStates, task : Task \cup {None},
                       cost : [paid : BOOLEAN, known : BOOLEAN, usd : Nat]]
<1>1. NoLease \in Records
  BY DEF NoLease, LeaseStates, Zero
<1> HIDE DEF Records
<1>2. Init => lease \in [Lease -> Records]
  BY <1>1 DEF Init
<1>3. Init => hold \in [Lease -> [reserved : Nat, observed : Nat]]
  BY DEF Init, NoHold
<1>4. Init => job \in [Child -> {"none", "queued", "marked", "running", "over"}]
  BY DEF Init
<1>5. Init => overshot \in BOOLEAN /\ accepting \in BOOLEAN
  BY Zenon DEF Init
<1>6. Init => /\ cash \in Nat /\ excess \in Nat
              /\ parent \in {"open", "waiting", "drained", "timedOut", "gone"}
  BY DEF Init
<1>7. Init => /\ unknown \subseteq Lease /\ started \subseteq Lease
              /\ pending \subseteq Child /\ attached \subseteq Child
              /\ released \subseteq Child /\ late \subseteq Child
  BY DEF Init
<1>8. QED
  BY <1>2, <1>3, <1>4, <1>5, <1>6, <1>7 DEF TypeOK, Records

\* The types are inductive.
LEMMA NextTypes == TypeOK /\ [Next]_vars => TypeOK'
<1>1. CASE UNCHANGED vars
  BY <1>1 DEF TypeOK, vars, money, family
<1>2. QED
  BY <1>1, LedgerTypes, FamilyTypes DEF Next

\* The types of the ledger and of the registry, for every instance.
THEOREM TypesAreCorrect == Spec => []TypeOK
<1>1. QED
  BY InitTypes, NextTypes, PTL DEF Spec

-----------------------------------------------------------------------------
\* A step of the ledger changes one lease, and an unknown price is taken only
\* when no other lease has one.
LEMMA UnknownStep ==
    ASSUME TypeOK, OneUnknownPaid, [Next]_vars
    PROVE  OneUnknownPaid'
<1>1. ASSUME NEW ls, CancelLeases(ls)
      PROVE  OneUnknownPaid'
  BY <1>1 DEF OneUnknownPaid, TypeOK, CancelLeases, Closed, Reserved, NoHold
<1>2. ASSUME NEW l \in Lease, NEW cost \in Evidence, NEW t \in Task, Reserve(t, l, cost)
      PROVE  OneUnknownPaid'
  <2>1. Cap # None /\ ~cost.known => unknown \subseteq {l}
    BY <1>2, EvidenceType DEF Reserve, Denied
  <2>2. Cap # None => \A j, k \in unknown' : j = k
    BY <1>2, <2>1 DEF Reserve, OneUnknownPaid
  <2>3. \A k \in Lease : Reserved(k)' \/ (k \notin unknown' /\ hold'[k] = NoHold)
    BY <1>2 DEF Reserve, OneUnknownPaid, TypeOK, Reserved
  <2>4. QED
    BY <2>2, <2>3 DEF OneUnknownPaid
<1>3. ASSUME NEW l \in Lease, NEW cost \in Evidence, Reprice(l, cost)
      PROVE  OneUnknownPaid'
  <2>1. Cap # None /\ ~cost.known => unknown \subseteq {l}
    BY <1>3, EvidenceType DEF Reprice, RepriceAs, Denied
  <2>2. Cap # None => \A j, k \in unknown' : j = k
    BY <1>3, <2>1 DEF Reprice, RepriceAs, OneUnknownPaid
  <2>3. \A k \in Lease : Reserved(k)' \/ (k \notin unknown' /\ hold'[k] = NoHold)
    BY <1>3 DEF Reprice, RepriceAs, OneUnknownPaid, TypeOK, Reserved
  <2>4. QED
    BY <2>2, <2>3 DEF OneUnknownPaid
<1>4. ASSUME NEW l \in Lease, NEW usd \in Usd, Stream(l, usd)
      PROVE  OneUnknownPaid'
  BY <1>4 DEF Stream, OneUnknownPaid, TypeOK, Reserved
<1>5. ASSUME NEW l \in Lease, NEW usd \in Usd, NEW b \in BOOLEAN, Settle(l, usd, b)
      PROVE  OneUnknownPaid'
  <2>1. /\ lease' = [lease EXCEPT ![l] = Closed(l, "settled")]
        /\ hold' = [hold EXCEPT ![l] = NoHold]
        /\ unknown' = unknown \ {l}
    BY <1>5 DEF Settle
  <2>2. QED
    BY <2>1 DEF OneUnknownPaid, TypeOK, Reserved
<1>6. CASE UNCHANGED <<lease, hold, unknown>>
  BY <1>6 DEF OneUnknownPaid, Reserved
<1>7. ASSUME NEW l \in Lease, LedgerStep(l)
      PROVE  OneUnknownPaid'
  BY <1>1, <1>2, <1>3, <1>4, <1>5, <1>6, <1>7 DEF LedgerStep, Start, Cancel
<1>8. ASSUME NEW c \in Child, ChildStep(c)
      PROVE  OneUnknownPaid'
  BY <1>1, <1>6, <1>8 DEF ChildStep, Admit, StartJob, DiscardMarked, CancelChild,
     Attach, JobEnds, Release, money
<1>9. QED
  BY <1>1, <1>6, <1>7, <1>8 DEF Next, Fence, BeginClose, ChildrenDrained,
     DrainTimeout, ParentReleased, Release, money, vars

\* At most one attempt of the whole family is in flight at a price nobody knows.
THEOREM AtMostOneUnknownPaid == Spec => []OneUnknownPaid
<1>1. Init => OneUnknownPaid
  BY DEF Init, OneUnknownPaid, NoLease, NoHold, Reserved
<1>2. TypeOK /\ OneUnknownPaid /\ [Next]_vars => OneUnknownPaid'
  BY UnknownStep
<1>3. QED
  BY <1>1, <1>2, TypesAreCorrect, PTL DEF Spec

\* A rotation of the route never frees the slot of work already sent.
THEOREM UnknownDebtIsKept == Spec => DebtIsKept
<1> DEFINE Kept == \A l \in unknown \cap started : l \in unknown' \/ ~Reserved(l)'
<1>1. ASSUME TypeOK, Next
      PROVE  Kept
  <2>1. ASSUME NEW ls, CancelLeases(ls)
        PROVE  Kept
    BY <1>1, <2>1 DEF TypeOK, CancelLeases, Closed, Reserved
  <2>2. ASSUME NEW l \in Lease, NEW usd \in Usd, NEW b \in BOOLEAN, Settle(l, usd, b)
        PROVE  Kept
    <3>1. unknown' = unknown \ {l} /\ lease' = [lease EXCEPT ![l] = Closed(l, "settled")]
      BY <2>2 DEF Settle
    <3>2. QED
      BY <1>1, <3>1 DEF TypeOK, Closed, Reserved
  <2>3. ASSUME NEW l \in Lease, NEW cost \in Evidence, Reprice(l, cost)
        PROVE  Kept
    BY <2>3 DEF Reprice, RepriceAs
  <2>4. CASE unknown \subseteq unknown'
    BY <2>4
  <2>5. ASSUME NEW l \in Lease, LedgerStep(l)
        PROVE  Kept
    BY <2>1, <2>2, <2>3, <2>4, <2>5 DEF LedgerStep, Reserve, Start, Stream, Cancel
  <2>6. ASSUME NEW c \in Child, ChildStep(c)
        PROVE  Kept
    BY <2>1, <2>4, <2>6 DEF ChildStep, Admit, StartJob, DiscardMarked, CancelChild,
       Attach, JobEnds, Release, money
  <2>7. QED
    BY <1>1, <2>1, <2>4, <2>5, <2>6 DEF Next, Fence, BeginClose, ChildrenDrained,
       DrainTimeout, ParentReleased, Release, money
<1>2. TypeOK /\ [Next]_vars => [Kept]_vars
  BY <1>1
<1>3. QED
  BY <1>2, TypesAreCorrect, PTL DEF Spec, DebtIsKept

-----------------------------------------------------------------------------
\* Steps of the ledger open a lease only in a live scope, and close others.
LEMMA LedgerSilence ==
    ASSUME SilenceInv, NEW l \in Lease, LedgerStep(l)
    PROVE  OpenLeasesAreScoped' /\ BarrierHolds'
<1>1. UNCHANGED family
  BY DEF LedgerStep, Reserve, Reprice, RepriceAs, Start, Stream, Settle, Cancel
<1>2. BarrierHolds'
  BY <1>1 DEF SilenceInv, BarrierHolds, Drained, family
<1> DEFINE KeptOrScoped ==
      \A k \in Lease : Reserved(k)' =>
          \/ Reserved(k) /\ lease'[k].task = lease[k].task
          \/ Scoped(lease'[k].task)
<1>3. KeptOrScoped
  <2>1. ASSUME NEW cost \in Evidence, NEW t \in Task, Reserve(t, l, cost)
        PROVE  KeptOrScoped
    BY <2>1 DEF Reserve, SilenceInv, TypeOK, Reserved
  <2>2. ASSUME NEW cost \in Evidence, Reprice(l, cost)
        PROVE  KeptOrScoped
    BY <2>2 DEF Reprice, RepriceAs, SilenceInv, TypeOK, Reserved
  <2>3. ASSUME NEW usd \in Usd, NEW b \in BOOLEAN, Settle(l, usd, b)
        PROVE  KeptOrScoped
    <3>1. lease' = [lease EXCEPT ![l] = Closed(l, "settled")]
      BY <2>3 DEF Settle
    <3>2. QED
      BY <3>1 DEF SilenceInv, TypeOK, Reserved, Closed
  <2>4. CASE Cancel(l)
    BY <2>4 DEF Cancel, CancelLeases, Closed, SilenceInv, TypeOK, Reserved
  <2>5. CASE UNCHANGED lease
    BY <2>5 DEF Reserved
  <2>6. QED
    BY <2>1, <2>2, <2>3, <2>4, <2>5 DEF LedgerStep, Start, Stream
<1>4. QED
  BY <1>1, <1>2, <1>3 DEF SilenceInv, OpenLeasesAreScoped, Scoped, family

\* Steps of the children: a view is lent while the scope is alive and taken back
\* with its leases.
LEMMA ChildSilence ==
    ASSUME SilenceInv, NEW c \in Child, ChildStep(c)
    PROVE  OpenLeasesAreScoped' /\ BarrierHolds'
<1>1. CASE Admit(c)
  BY <1>1 DEF Admit, SilenceInv, OpenLeasesAreScoped, BarrierHolds, Drained, Reserved, money
<1>2. CASE StartJob(c) \/ DiscardMarked(c)
  BY <1>2 DEF StartJob, DiscardMarked, SilenceInv, OpenLeasesAreScoped, BarrierHolds,
     Drained, Reserved, money
<1>3. CASE CancelChild(c)
  BY <1>3 DEF CancelChild, CancelJobs, SilenceInv, OpenLeasesAreScoped, BarrierHolds,
     Drained, Reserved, money
<1>4. CASE Attach(c)
  BY <1>4 DEF Attach, SilenceInv, OpenLeasesAreScoped, BarrierHolds, Drained, Reserved,
     money
<1>5. CASE JobEnds(c)
  <2>1. BarrierHolds'
    BY <1>5 DEF JobEnds, Release, SilenceInv, BarrierHolds, Drained
  <2>2. \A l \in Lease : Reserved(l)' =>
            /\ Reserved(l) /\ lease'[l].task = lease[l].task
            /\ lease[l].task \notin (attached \cap {c}) \ released
    BY <1>5 DEF JobEnds, Release, CancelLeases, Closed, Reserved, SilenceInv, TypeOK
  <2>3. QED
    BY <1>5, <2>1, <2>2 DEF JobEnds, Release, SilenceInv, OpenLeasesAreScoped
<1>6. QED
  BY <1>1, <1>2, <1>3, <1>4, <1>5 DEF ChildStep

\* Steps of the parent: the barrier ends with no usable view left.
LEMMA ParentSilence ==
    ASSUME SilenceInv,
           Fence \/ BeginClose \/ ChildrenDrained \/ DrainTimeout \/ ParentReleased
    PROVE  OpenLeasesAreScoped' /\ BarrierHolds'
<1>1. CASE Fence
  BY <1>1 DEF Fence, SilenceInv, OpenLeasesAreScoped, BarrierHolds, Drained, Reserved,
     money
<1>2. CASE BeginClose
  BY <1>2 DEF BeginClose, CancelJobs, SilenceInv, OpenLeasesAreScoped, BarrierHolds,
     Drained, Reserved, money
<1>3. CASE ChildrenDrained
  BY <1>3 DEF ChildrenDrained, SilenceInv, OpenLeasesAreScoped, BarrierHolds, Drained,
     Reserved, money
<1>4. ASSUME Release(attached)
      PROVE  \A l \in Lease : Reserved(l)' => lease'[l].task = Parent
  <2>1. \A l \in Lease : Reserved(l)' =>
            /\ Reserved(l) /\ lease'[l].task = lease[l].task
            /\ lease[l].task \notin attached \ released
    BY <1>4 DEF Release, CancelLeases, Closed, Reserved, SilenceInv, TypeOK
  <2>2. QED
    BY <2>1 DEF SilenceInv, OpenLeasesAreScoped
<1>5. CASE DrainTimeout
  BY <1>4, <1>5 DEF DrainTimeout, Release, SilenceInv, OpenLeasesAreScoped, BarrierHolds
<1>6. CASE ParentReleased
  BY <1>4, <1>6 DEF ParentReleased, Release, OpenLeasesAreScoped, BarrierHolds, Drained
<1>7. QED
  BY <1>1, <1>2, <1>3, <1>5, <1>6

\* The strengthening implies the property.
LEMMA SilenceImplies == SilenceInv => ChildrenAreSilent
  BY TaskAssumption DEF SilenceInv, OpenLeasesAreScoped, BarrierHolds, Drained,
     ChildrenAreSilent

\* Once the parent's barrier has ended no child holds or can add family money.
THEOREM SilenceAfterBarrier == Spec => []ChildrenAreSilent
<1>1. Init => SilenceInv
  BY InitTypes DEF Init, SilenceInv, OpenLeasesAreScoped, BarrierHolds, Reserved, NoLease
<1>2. SilenceInv /\ [Next]_vars => SilenceInv'
  <2>1. CASE UNCHANGED vars
    BY <2>1, NextTypes DEF SilenceInv, OpenLeasesAreScoped, BarrierHolds, Drained,
       Reserved, vars, money, family
  <2>2. SilenceInv /\ Next => OpenLeasesAreScoped' /\ BarrierHolds'
    BY LedgerSilence, ChildSilence, ParentSilence DEF Next
  <2>3. QED
    BY <2>1, <2>2, NextTypes DEF SilenceInv
<1>3. QED
  BY <1>1, <1>2, SilenceImplies, PTL DEF Spec

-----------------------------------------------------------------------------
\* How SumFunctionOnSet adds up: one member, then the rest.
First(s) == CHOOSE x \in s : TRUE
Rest(s) == s \ {First(s)}
AddsUp(f, D, sum) == \A s \in D : sum[s] = IF s = {} THEN 0 ELSE f[First(s)] + sum[Rest(s)]

\* A nonempty collection of subsets of a finite set has a smallest one.
LEMMA SmallestSubset ==
    ASSUME NEW S, IsFiniteSet(S), NEW T, T \subseteq SUBSET S, T # {}
    PROVE  \E s \in T : \A r \in T : r \subseteq s => r = s
<1>1. IsWellFoundedOn(StrictSubsetOrdering(S), SUBSET S)
  BY FS_StrictSubsetOrderingWellFounded, FS_FiniteSubsetsOfFinite
<1>2. PICK s \in T : \A r \in T : <<r, s>> \notin StrictSubsetOrdering(S)
  BY <1>1, WFMin
<1>3. QED
  BY <1>2 DEF StrictSubsetOrdering

LEMMA RestType ==
    ASSUME NEW s, s # {}
    PROVE  First(s) \in s /\ Rest(s) \subseteq s /\ Rest(s) # s
BY DEF First, Rest

\* There is a function that adds up on every subset of a finite set.
LEMMA SumExists ==
    ASSUME NEW S, IsFiniteSet(S), NEW f
    PROVE  \E sum : sum = [s \in SUBSET S |-> sum[s]] /\ AddsUp(f, SUBSET S, sum)
<1> DEFINE U == SUBSET S
           Good(D, sum) == /\ \A s \in D : s # {} => Rest(s) \in D
                           /\ sum = [s \in D |-> sum[s]]
                           /\ AddsUp(f, D, sum)
           Open == {V \in SUBSET U : \E sum : Good(U \ V, sum)}
<1>1. IsFiniteSet(U)
  BY FS_SUBSET
<1>2. U \in Open
  <2>1. U \ U = {}
    OBVIOUS
  <2> DEFINE sum == [s \in {} |-> 0]
  <2>2. sum = [s \in {} |-> sum[s]]
    OBVIOUS
  <2>3. Good({}, sum)
    BY <2>2 DEF AddsUp
  <2> HIDE DEF sum, Good
  <2>4. Good(U \ U, sum)
    BY <2>1, <2>3
  <2>5. QED
    BY <2>4
<1>3. PICK V \in Open : \A W \in Open : W \subseteq V => W = V
  <2> HIDE DEF U
  <2>1. Open \subseteq SUBSET U /\ Open # {}
    BY <1>2
  <2> HIDE DEF Open
  <2>2. QED
    BY <1>1, <2>1, SmallestSubset
<1>4. V = {}
  <2> SUFFICES ASSUME V # {} PROVE FALSE
    OBVIOUS
  <2> DEFINE D == U \ V
  <2>1. PICK sum : Good(D, sum)
    OBVIOUS
  <2>2. PICK s \in V : \A r \in V : r \subseteq s => r = s
    <3>1. V \subseteq SUBSET S
      OBVIOUS
    <3>2. QED
      BY <3>1, SmallestSubset
  <2>3. s \in U /\ s \notin D
    OBVIOUS
  <2>4. s # {} => Rest(s) \in D
    BY <2>2, <2>3, RestType
  <2> DEFINE E == D \cup {s}
             new == [r \in E |-> IF r # s THEN sum[r]
                                 ELSE IF s = {} THEN 0 ELSE f[First(s)] + sum[Rest(s)]]
  <2>5. \A r \in D : r # s /\ new[r] = sum[r]
    BY <2>3
  <2>6. new = [r \in E |-> new[r]]
    OBVIOUS
  <2>7. new[s] = IF s = {} THEN 0 ELSE f[First(s)] + sum[Rest(s)]
    OBVIOUS
  <2> HIDE DEF new
  <2>8. \A r \in E : r # {} => Rest(r) \in E
    <3>1. \A r \in D : r # {} => Rest(r) \in D
      BY <2>1
    <3> HIDE DEF D
    <3>2. QED
      BY <2>4, <3>1
  <2>9. AddsUp(f, E, new)
    <3>1. /\ \A r \in D : r # {} => Rest(r) \in D
          /\ \A r \in D : sum[r] = IF r = {} THEN 0 ELSE f[First(r)] + sum[Rest(r)]
      BY <2>1 DEF AddsUp
    <3> HIDE DEF D, U
    <3>2. ASSUME NEW r \in D
          PROVE  new[r] = IF r = {} THEN 0 ELSE f[First(r)] + new[Rest(r)]
      BY <2>5, <3>1
    <3>3. new[s] = IF s = {} THEN 0 ELSE f[First(s)] + new[Rest(s)]
      BY <2>4, <2>5, <2>7
    <3>4. QED
      BY <3>2, <3>3 DEF AddsUp
  <2>10. Good(E, new)
    BY <2>6, <2>8, <2>9
  <2>11. E = U \ (V \ {s}) /\ V \ {s} \in SUBSET U
    BY <2>3
  <2> HIDE DEF E, Good, U, D
  <2>12. V \ {s} \in Open
    BY <2>10, <2>11
  <2>13. QED
    BY <1>3, <2>12
<1>5. QED
  <2>1. PICK sum : Good(U \ V, sum)
    OBVIOUS
  <2>2. U \ V = SUBSET S
    BY <1>4
  <2>3. Good(SUBSET S, sum)
    <3> HIDE DEF Good, U
    <3>1. QED BY <2>1, <2>2
  <2>4. QED
    BY <2>3

\* What the sum of amounts over a finite set is, subset by subset.
LEMMA SumUnfolds ==
    ASSUME NEW S, IsFiniteSet(S), NEW f \in [S -> Nat]
    PROVE  \E sum \in [SUBSET S -> Nat] :
              AddsUp(f, SUBSET S, sum) /\ SumFunctionOnSet(f, S) = sum[S]
<1> DEFINE Body(it) == [s \in SUBSET S |-> IF s = {} THEN 0
                 ELSE f[CHOOSE x \in s : TRUE] + it[s \ {CHOOSE x \in s : TRUE}]]
           sum == CHOOSE it : it = Body(it)
<1>1. SumFunctionOnSet(f, S) = sum[S]
  BY DEF SumFunctionOnSet, FoldFunctionOnSet, MapThenFoldSet
<1>2. \E it : it = Body(it)
  <2>1. PICK it : it = [s \in SUBSET S |-> it[s]] /\ AddsUp(f, SUBSET S, it)
    BY SumExists
  <2>2. \A s \in SUBSET S : it[s] = Body(it)[s]
    BY <2>1 DEF AddsUp, First, Rest
  <2>3. QED
    BY <2>1, <2>2
<1>3. sum = Body(sum)
  <2> HIDE DEF Body
  <2>1. QED
    BY <1>2
<1> HIDE DEF sum
<1>4. AddsUp(f, SUBSET S, sum)
  BY <1>3 DEF AddsUp, First, Rest
<1>5. \A s \in SUBSET S : sum[s] \in Nat
  <2> DEFINE Bad == {s \in SUBSET S : sum[s] \notin Nat}
  <2>1. SUFFICES ASSUME Bad # {} PROVE FALSE
    OBVIOUS
  <2>2. PICK s \in Bad : \A r \in Bad : r \subseteq s => r = s
    <3>1. Bad \subseteq SUBSET S
      OBVIOUS
    <3> HIDE DEF Bad
    <3>2. QED
      BY <2>1, <3>1, SmallestSubset
  <2>3. s # {}
    BY <1>4 DEF AddsUp
  <2>4. sum[Rest(s)] \in Nat /\ f[First(s)] \in Nat
    BY <2>2, <2>3, RestType
  <2>5. sum[s] = f[First(s)] + sum[Rest(s)]
    BY <1>4, <2>3 DEF AddsUp
  <2>6. QED
    BY <2>4, <2>5
<1>6. sum \in [SUBSET S -> Nat]
  BY <1>3, <1>5
<1>7. QED
  BY <1>1, <1>4, <1>6

LEMMA SumType ==
    ASSUME NEW S, IsFiniteSet(S), NEW f \in [S -> Nat]
    PROVE  SumFunctionOnSet(f, S) \in Nat
<1>1. PICK sum \in [SUBSET S -> Nat] :
              AddsUp(f, SUBSET S, sum) /\ SumFunctionOnSet(f, S) = sum[S]
  BY SumUnfolds
<1>2. QED
  BY <1>1

\* Smaller amounts, smaller sum.
LEMMA SumMonotone ==
    ASSUME NEW S, IsFiniteSet(S), NEW f \in [S -> Nat], NEW g \in [S -> Nat],
           \A x \in S : f[x] <= g[x]
    PROVE  SumFunctionOnSet(f, S) <= SumFunctionOnSet(g, S)
<1>1. PICK a \in [SUBSET S -> Nat] :
              AddsUp(f, SUBSET S, a) /\ SumFunctionOnSet(f, S) = a[S]
  BY SumUnfolds
<1>2. PICK b \in [SUBSET S -> Nat] :
              AddsUp(g, SUBSET S, b) /\ SumFunctionOnSet(g, S) = b[S]
  BY SumUnfolds
<1> DEFINE Bad == {s \in SUBSET S : ~(a[s] <= b[s])}
<1>3. Bad = {}
  <2> SUFFICES ASSUME Bad # {} PROVE FALSE
    OBVIOUS
  <2>1. PICK s \in Bad : \A r \in Bad : r \subseteq s => r = s
    <3>1. Bad \subseteq SUBSET S
      OBVIOUS
    <3> HIDE DEF Bad
    <3>2. QED
      BY <3>1, SmallestSubset
  <2>2. s # {}
    BY <1>1, <1>2 DEF AddsUp
  <2>3. /\ a[Rest(s)] <= b[Rest(s)] /\ a[Rest(s)] \in Nat /\ b[Rest(s)] \in Nat
        /\ f[First(s)] \in Nat /\ g[First(s)] \in Nat /\ f[First(s)] <= g[First(s)]
    BY <2>1, <2>2, RestType
  <2>4. a[s] = f[First(s)] + a[Rest(s)] /\ b[s] = g[First(s)] + b[Rest(s)]
    BY <1>1, <1>2, <2>2 DEF AddsUp
  <2>5. QED
    BY <2>3, <2>4
<1>4. QED
  BY <1>1, <1>2, <1>3

\* A sum in which one amount changes.
LEMMA SumChanges ==
    ASSUME NEW S, IsFiniteSet(S), NEW f \in [S -> Nat], NEW g \in [S -> Nat],
           NEW l \in S, \A x \in S \ {l} : f[x] = g[x]
    PROVE  SumFunctionOnSet(f, S) + g[l] = SumFunctionOnSet(g, S) + f[l]
<1>1. PICK a \in [SUBSET S -> Nat] :
              AddsUp(f, SUBSET S, a) /\ SumFunctionOnSet(f, S) = a[S]
  BY SumUnfolds
<1>2. PICK b \in [SUBSET S -> Nat] :
              AddsUp(g, SUBSET S, b) /\ SumFunctionOnSet(g, S) = b[S]
  BY SumUnfolds
<1> DEFINE Right(s) == IF l \in s THEN a[s] + g[l] = b[s] + f[l] ELSE a[s] = b[s]
           Bad == {s \in SUBSET S : ~Right(s)}
<1>3. Bad = {}
  <2> SUFFICES ASSUME Bad # {} PROVE FALSE
    OBVIOUS
  <2>1. PICK s \in Bad : \A r \in Bad : r \subseteq s => r = s
    <3>1. Bad \subseteq SUBSET S
      OBVIOUS
    <3> HIDE DEF Bad
    <3>2. QED
      BY <3>1, SmallestSubset
  <2>2. s # {}
    BY <1>1, <1>2 DEF AddsUp
  <2>3. First(s) \in s /\ Rest(s) \in SUBSET S /\ Right(Rest(s))
    BY <2>1, <2>2, RestType
  <2>4. /\ a[Rest(s)] \in Nat /\ b[Rest(s)] \in Nat
        /\ f[First(s)] \in Nat /\ g[First(s)] \in Nat /\ f[l] \in Nat /\ g[l] \in Nat
    BY <2>3
  <2>5. a[s] = f[First(s)] + a[Rest(s)] /\ b[s] = g[First(s)] + b[Rest(s)]
    BY <1>1, <1>2, <2>2 DEF AddsUp
  <2>6. l \in Rest(s) <=> l \in s /\ First(s) # l
    BY DEF Rest
  <2>7. First(s) # l => f[First(s)] = g[First(s)]
    BY <2>3
  <2>8. Right(s)
    <3>1. CASE First(s) = l
      <4>1. l \in s /\ l \notin Rest(s)
        BY <2>3, <2>6, <3>1
      <4>2. a[Rest(s)] = b[Rest(s)]
        BY <2>3, <4>1
      <4>3. a[s] + g[l] = b[s] + f[l]
        BY <2>4, <2>5, <3>1, <4>2
      <4>4. QED
        BY <4>1, <4>3
    <3>2. CASE First(s) # l
      <4>1. l \in Rest(s) <=> l \in s
        BY <2>6, <3>2
      <4>2. CASE l \in s
        <5>1. a[Rest(s)] + g[l] = b[Rest(s)] + f[l]
          BY <2>3, <4>1, <4>2
        <5>2. QED
          BY <2>4, <2>5, <2>7, <3>2, <4>2, <5>1
      <4>3. CASE l \notin s
        <5>1. a[Rest(s)] = b[Rest(s)]
          BY <2>3, <4>1, <4>3
        <5>2. QED
          BY <2>4, <2>5, <2>7, <3>2, <4>3, <5>1
      <4>4. QED
        BY <4>2, <4>3
    <3>3. QED
      BY <3>1, <3>2
  <2>9. QED
    BY <2>1, <2>8
<1>4. a[S] + g[l] = b[S] + f[l]
  BY <1>3
<1>5. QED
  BY <1>1, <1>2, <1>4

\* Nothing adds up to nothing.
LEMMA SumOfNothing ==
    ASSUME NEW S, IsFiniteSet(S), NEW f \in [S -> Nat], \A x \in S : f[x] = 0
    PROVE  SumFunctionOnSet(f, S) = 0
<1>1. PICK sum \in [SUBSET S -> Nat] :
              AddsUp(f, SUBSET S, sum) /\ SumFunctionOnSet(f, S) = sum[S]
  BY SumUnfolds
<1> DEFINE Bad == {s \in SUBSET S : sum[s] # 0}
<1>2. Bad = {}
  <2> SUFFICES ASSUME Bad # {} PROVE FALSE
    OBVIOUS
  <2>1. PICK s \in Bad : \A r \in Bad : r \subseteq s => r = s
    <3>1. Bad \subseteq SUBSET S
      OBVIOUS
    <3> HIDE DEF Bad
    <3>2. QED
      BY <3>1, SmallestSubset
  <2>2. s # {}
    BY <1>1, <2>1 DEF AddsUp
  <2>3. sum[Rest(s)] = 0 /\ f[First(s)] = 0
    BY <2>1, <2>2, RestType
  <2>4. sum[s] = f[First(s)] + sum[Rest(s)]
    BY <1>1, <2>2 DEF AddsUp
  <2>5. QED
    BY <2>1, <2>3, <2>4
<1>3. QED
  BY <1>1, <1>2

-----------------------------------------------------------------------------
\* The amounts the leases hold, as Holds adds them up.
Amounts == [l \in Lease |-> Held(l)]

LEMMA AmountsType ==
    ASSUME TypeOK
    PROVE  Amounts \in [Lease -> Nat] /\ Holds \in Nat /\ Holds = SumFunctionOnSet(Amounts, Lease)
<1>1. Amounts \in [Lease -> Nat]
  BY HeldType DEF Amounts
<1>2. Holds = SumFunctionOnSet(Amounts, Lease)
  BY DEF Holds, Amounts
<1>3. SumFunctionOnSet(Amounts, Lease) \in Nat
  BY <1>1, AmountAssumption, SumType
<1>4. QED
  BY <1>1, <1>2, <1>3

\* What one call does to the money held: the hold of its lease changes.
LEMMA HoldChanges ==
    ASSUME TypeOK, TypeOK', NEW l \in Lease, \A k \in Lease \ {l} : hold'[k] = hold[k]
    PROVE  /\ Holds \in Nat /\ Holds' \in Nat /\ Held(l) \in Nat /\ Held(l)' \in Nat
           /\ Holds + Held(l)' = Holds' + Held(l)
<1>1. /\ Amounts \in [Lease -> Nat] /\ Holds = SumFunctionOnSet(Amounts, Lease)
      /\ Holds \in Nat
  BY AmountsType
<1>2. /\ Amounts' \in [Lease -> Nat] /\ Holds' = SumFunctionOnSet(Amounts', Lease)
      /\ Holds' \in Nat
  <2>1. (TypeOK => Amounts \in [Lease -> Nat] /\ Holds = SumFunctionOnSet(Amounts, Lease)
                   /\ Holds \in Nat)'
    BY AmountsType, PTL
  <2>2. QED
    BY <2>1
<1>3. \A k \in Lease \ {l} : Amounts[k] = Amounts'[k]
  BY DEF Amounts, Held
<1>4. Amounts[l] = Held(l) /\ Amounts'[l] = Held(l)'
  BY DEF Amounts
<1>5. SumFunctionOnSet(Amounts, Lease) + Amounts'[l]
          = SumFunctionOnSet(Amounts', Lease) + Amounts[l]
  BY <1>1, <1>2, <1>3, AmountAssumption, SumChanges
<1>6. QED
  BY <1>1, <1>2, <1>4, <1>5

\* No hold grows: the money held does not grow.
LEMMA HoldsFall ==
    ASSUME TypeOK, TypeOK', \A k \in Lease : hold'[k] = hold[k] \/ hold'[k] = NoHold
    PROVE  Holds \in Nat /\ Holds' \in Nat /\ Holds' <= Holds
<1>1. /\ Amounts \in [Lease -> Nat] /\ Holds = SumFunctionOnSet(Amounts, Lease)
      /\ Holds \in Nat
  BY AmountsType
<1>2. /\ Amounts' \in [Lease -> Nat] /\ Holds' = SumFunctionOnSet(Amounts', Lease)
      /\ Holds' \in Nat
  <2>1. (TypeOK => Amounts \in [Lease -> Nat] /\ Holds = SumFunctionOnSet(Amounts, Lease)
                   /\ Holds \in Nat)'
    BY AmountsType, PTL
  <2>2. QED
    BY <2>1
<1>3. \A k \in Lease : Amounts'[k] <= Amounts[k]
  <2> TAKE k \in Lease
  <2>1. Amounts[k] \in Nat /\ Amounts'[k] \in Nat
    BY <1>1, <1>2
  <2>2. CASE hold'[k] = hold[k]
    BY <2>1, <2>2 DEF Amounts, Held
  <2>3. CASE hold'[k] = NoHold
    <3>1. Amounts'[k] = 0
      BY <2>3 DEF Amounts, Held, NoHold, Larger
    <3>2. QED
      BY <2>1, <3>1
  <2>4. QED
    BY <2>2, <2>3
<1>4. SumFunctionOnSet(Amounts', Lease) <= SumFunctionOnSet(Amounts, Lease)
  BY <1>1, <1>2, <1>3, AmountAssumption, SumMonotone
<1>5. QED
  BY <1>1, <1>2, <1>4

\* A price that the headroom admits fits under the cap, on top of what is spent
\* and held and in the place of what its lease held.
LEMMA AdmittedFits ==
    ASSUME TypeOK, WithinCap, Cap # None, NEW l \in Lease, NEW cost \in Evidence,
           NEW needed \in Nat, cost.paid, ~Denied(l, cost, needed), Held(l) <= needed,
           NEW after \in Nat, Holds + needed = after + Held(l)
    PROVE  cash + after <= Cap + excess
<1>1. /\ Cap \in Nat /\ cash \in Nat /\ excess \in Nat
      /\ Holds \in Nat /\ Held(l) \in Nat
  BY AmountAssumption, AmountsType, HeldType DEF TypeOK
<1>2. cash + Holds <= Cap + excess
  BY DEF WithinCap
<1>3. needed = 0 \/ needed < Less(Cap, cash + Holds) + Held(l)
  <2>1. needed = 0 \/ ~(needed >= Headroom(l))
    BY DEF Denied
  <2>2. cash + Holds \in Nat
    BY <1>1
  <2>3. Less(Cap, cash + Holds) \in Nat
    BY <1>1, <2>2, LessType
  <2>4. QED
    BY <1>1, <2>1, <2>3 DEF Headroom
<1>4. CASE needed = 0
  BY <1>1, <1>2, <1>4
<1>5. CASE needed # 0
  <2>1. CASE Cap > cash + Holds
    <3>1. Less(Cap, cash + Holds) = Cap - (cash + Holds)
      BY <2>1 DEF Less
    <3>2. QED
      BY <1>1, <1>3, <1>5, <2>1, <3>1
  <2>2. CASE ~(Cap > cash + Holds)
    <3>1. Less(Cap, cash + Holds) = 0
      BY <2>2 DEF Less
    <3>2. QED
      BY <1>1, <1>3, <1>5, <3>1
  <2>3. QED
    BY <2>1, <2>2
<1>6. QED
  BY <1>4, <1>5

\* What fits under the cap still fits when it shrinks.
LEMMA SmallerFits ==
    ASSUME NEW c \in Nat, NEW h \in Nat, NEW limit \in Nat, NEW e \in Nat,
           NEW less \in Nat, c + h <= limit + e, less <= h
    PROVE  c + less <= limit + e
OBVIOUS

\* Every call of the ledger keeps the family within its cap.
LEMMA LedgerWithinCap ==
    ASSUME TypeOK, TypeOK', OneUnknownPaid, WithinCap, NEW l \in Lease, LedgerStep(l)
    PROVE  WithinCap'
<1> SUFFICES ASSUME Cap # None PROVE cash' + Holds' <= Cap + excess'
  BY DEF WithinCap
<1>1. /\ Cap \in Nat /\ cash \in Nat /\ excess \in Nat /\ Holds \in Nat
  BY AmountAssumption, AmountsType DEF TypeOK
<1>2. /\ hold[l] \in [reserved : Nat, observed : Nat]
      /\ hold \in [Lease -> [reserved : Nat, observed : Nat]]
  BY DEF TypeOK
<1>3. cash + Holds <= Cap + excess
  BY DEF WithinCap
<1>4. (\A k \in Lease \ {l} : hold'[k] = hold[k]) =>
         /\ Holds' \in Nat /\ Held(l) \in Nat /\ Held(l)' \in Nat
         /\ Holds + Held(l)' = Holds' + Held(l)
  BY HoldChanges
<1>5. ASSUME NEW cost \in Evidence, NEW t \in Task, Reserve(t, l, cost)
      PROVE  cash' + Holds' <= Cap + excess'
  <2>1. /\ lease[l] = NoLease /\ ~Denied(l, cost, cost.usd)
        /\ hold' = [hold EXCEPT ![l].reserved = cost.usd]
        /\ cash' = cash /\ excess' = excess
    BY <1>5 DEF Reserve
  <2>2. hold[l] = NoHold /\ cost.usd \in Nat
    BY <2>1, EvidenceType DEF OneUnknownPaid, Reserved, NoLease
  <2>3. hold'[l].reserved = cost.usd /\ hold'[l].observed = 0
    BY <1>2, <2>1, <2>2 DEF NoHold
  <2>4. Held(l) = 0 /\ Held(l)' = cost.usd
    BY <2>2, <2>3 DEF Held, NoHold, Larger
  <2>5. /\ Holds' \in Nat /\ Held(l) \in Nat /\ Held(l)' \in Nat
        /\ Holds + Held(l)' = Holds' + Held(l)
    BY <1>2, <1>4, <2>1
  <2>6. CASE cost.paid
    <3>1. Held(l) <= cost.usd /\ Holds + cost.usd = Holds' + Held(l)
      BY <2>2, <2>4, <2>5
    <3>2. cash + Holds' <= Cap + excess
      BY <2>1, <2>2, <2>5, <2>6, <3>1, AdmittedFits
    <3>3. QED
      BY <2>1, <3>2
  <2>7. CASE ~cost.paid
    <3>1. cost.usd = 0
      BY <2>7 DEF Evidence, Zero, UnknownPaid, Metered
    <3>2. QED
      BY <1>1, <1>3, <2>1, <2>4, <2>5, <3>1
  <2>8. QED
    BY <2>6, <2>7
<1>6. ASSUME NEW cost \in Evidence, Reprice(l, cost)
      PROVE  cash' + Holds' <= Cap + excess'
  <2>1. /\ ~Denied(l, cost, Needed(l, cost))
        /\ hold' = [hold EXCEPT ![l].reserved = Needed(l, cost)]
        /\ cash' = cash /\ excess' = excess
    BY <1>6 DEF Reprice, RepriceAs
  <2>2. /\ cost.usd \in Nat /\ hold[l].reserved \in Nat /\ hold[l].observed \in Nat
    BY <1>2, EvidenceType
  <2>3. /\ Needed(l, cost) \in Nat /\ hold[l].reserved <= Needed(l, cost)
        /\ hold[l].observed + cost.usd <= Needed(l, cost)
        /\ cost.usd = 0 => Needed(l, cost) = Held(l)
    BY <2>2 DEF Needed, Larger, Held
  <2>4. hold'[l].reserved = Needed(l, cost) /\ hold'[l].observed = hold[l].observed
    BY <1>2, <2>1
  <2>5. Held(l)' = Needed(l, cost) /\ Held(l) <= Needed(l, cost)
    BY <2>2, <2>3, <2>4 DEF Held, Larger
  <2>6. /\ Holds' \in Nat /\ Held(l) \in Nat /\ Held(l)' \in Nat
        /\ Holds + Held(l)' = Holds' + Held(l)
    BY <1>2, <1>4, <2>1
  <2>7. CASE cost.paid
    <3>1. Holds + Needed(l, cost) = Holds' + Held(l)
      BY <2>5, <2>6
    <3>2. cash + Holds' <= Cap + excess
      BY <2>1, <2>3, <2>5, <2>6, <2>7, <3>1, AdmittedFits
    <3>3. QED
      BY <2>1, <3>2
  <2>8. CASE ~cost.paid
    <3>1. cost.usd = 0
      BY <2>8 DEF Evidence, Zero, UnknownPaid, Metered
    <3>2. QED
      BY <1>1, <1>3, <2>1, <2>3, <2>5, <2>6, <3>1
  <2>9. QED
    BY <2>7, <2>8
<1>7. ASSUME NEW usd \in Usd, Stream(l, usd)
      PROVE  cash' + Holds' <= Cap + excess'
  <2>1. /\ usd \in Nat /\ usd > hold[l].observed /\ cash' = cash
        /\ hold' = [hold EXCEPT ![l].observed = usd]
        /\ excess' = excess + Less(usd, Held(l))
    BY <1>7, AmountAssumption DEF Stream, Usd
  <2>2. hold[l].reserved \in Nat /\ hold[l].observed \in Nat
    BY <1>2
  <2>3. hold'[l].reserved = hold[l].reserved /\ hold'[l].observed = usd
    BY <1>2, <2>1
  <2>4. Held(l)' = Held(l) + Less(usd, Held(l))
    BY <2>1, <2>2, <2>3 DEF Held, Larger, Less
  <2>5. /\ Holds' \in Nat /\ Held(l) \in Nat /\ Held(l)' \in Nat
        /\ Holds + Held(l)' = Holds' + Held(l)
    BY <1>2, <1>4, <2>1
  <2>6. Less(usd, Held(l)) \in Nat
    BY <2>1, <2>5, LessType
  <2>7. QED
    BY <1>1, <1>3, <2>1, <2>4, <2>5, <2>6
<1>8. ASSUME NEW usd \in Usd, NEW b \in BOOLEAN, Settle(l, usd, b)
      PROVE  cash' + Holds' <= Cap + excess'
  <2> DEFINE free  == ~lease[l].cost.paid /\ l \notin unknown /\ ~b
             spent == IF free THEN 0 ELSE usd
  <2>1. /\ cash' = cash + spent
        /\ excess' = excess + Less(spent, Held(l))
        /\ hold' = [hold EXCEPT ![l] = NoHold]
    BY <1>8 DEF Settle
  <2>2. spent \in Nat
    BY AmountAssumption DEF Usd
  <2> HIDE DEF spent
  <2>3. hold'[l] = NoHold
    BY <1>2, <2>1
  <2>4. Held(l)' = 0
    BY <2>3 DEF Held, NoHold, Larger
  <2>5. /\ Holds' \in Nat /\ Held(l) \in Nat /\ Held(l)' \in Nat
        /\ Holds + Held(l)' = Holds' + Held(l)
    BY <1>2, <1>4, <2>1
  <2>6. Less(spent, Held(l)) \in Nat /\ spent <= Held(l) + Less(spent, Held(l))
    BY <2>2, <2>5 DEF Less
  <2>7. QED
    BY <1>1, <1>3, <2>1, <2>2, <2>4, <2>5, <2>6
<1>9. CASE Cancel(l)
  <2>1. cash' = cash /\ excess' = excess /\ CancelLeases({l})
    BY <1>9 DEF Cancel
  <2>2. \A k \in Lease : hold'[k] = hold[k] \/ hold'[k] = NoHold
    BY <2>1 DEF CancelLeases
  <2>3. Holds' \in Nat /\ Holds' <= Holds
    BY <2>2, HoldsFall
  <2>4. cash + Holds' <= Cap + excess
    BY <1>1, <1>3, <2>3, SmallerFits
  <2>5. QED
    BY <2>1, <2>4
<1>10. CASE Start(l)
  <2>1. cash' = cash /\ excess' = excess /\ hold' = hold
    BY <1>10 DEF Start
  <2>2. Holds' \in Nat /\ Holds' <= Holds
    BY <2>1, HoldsFall
  <2>3. cash + Holds' <= Cap + excess
    BY <1>1, <1>3, <2>2, SmallerFits
  <2>4. QED
    BY <2>1, <2>3
<1>11. QED
  BY <1>5, <1>6, <1>7, <1>8, <1>9, <1>10 DEF LedgerStep

\* Steps of the registry and of the jobs spend nothing, and hold no more.
LEMMA FamilyWithinCap ==
    ASSUME TypeOK, TypeOK', WithinCap,
           \/ \E c \in Child : ChildStep(c)
           \/ Fence \/ BeginClose \/ ChildrenDrained \/ DrainTimeout \/ ParentReleased
    PROVE  WithinCap'
<1>1. /\ cash' = cash /\ excess' = excess
      /\ hold' = hold \/ \E ls : CancelLeases(ls)
  <2>1. ASSUME NEW c \in Child, ChildStep(c)
        PROVE  /\ cash' = cash /\ excess' = excess
               /\ hold' = hold \/ \E ls : CancelLeases(ls)
    BY <2>1 DEF ChildStep, Admit, StartJob, DiscardMarked, CancelChild, Attach,
       JobEnds, Release, money
  <2>2. QED
    BY <2>1 DEF Fence, BeginClose, ChildrenDrained, DrainTimeout, ParentReleased,
       Release, money
<1>2. \A k \in Lease : hold'[k] = hold[k] \/ hold'[k] = NoHold
  BY <1>1 DEF CancelLeases
<1>3. Holds \in Nat /\ Holds' \in Nat /\ Holds' <= Holds
  BY <1>2, HoldsFall
<1>4. Cap # None => Cap \in Nat /\ cash \in Nat /\ excess \in Nat
  BY AmountAssumption DEF TypeOK
<1>5. QED
  BY <1>1, <1>3, <1>4 DEF WithinCap

\* A new ledger holds nothing.
LEMMA InitWithinCap == Init => WithinCap
<1> SUFFICES ASSUME Init, Cap # None PROVE cash + Holds <= Cap + excess
  BY DEF WithinCap
<1>1. TypeOK
  BY InitTypes
<1>2. Amounts \in [Lease -> Nat] /\ Holds = SumFunctionOnSet(Amounts, Lease)
  BY <1>1, AmountsType
<1>3. \A k \in Lease : Amounts[k] = 0
  BY DEF Init, Amounts, Held, NoHold, Larger
<1>4. SumFunctionOnSet(Amounts, Lease) = 0
  BY <1>2, <1>3, AmountAssumption, SumOfNothing
<1>5. Cap \in Nat /\ cash = 0 /\ excess = 0
  BY AmountAssumption DEF Init
<1>6. QED
  BY <1>2, <1>4, <1>5

\* The cap is exceeded only by money above the hold it was admitted with: no
\* headroom is lent twice, whatever the family does between two calls.
THEOREM CapIsKept == Spec => []WithinCap
<1>1. TypeOK /\ TypeOK' /\ OneUnknownPaid /\ WithinCap /\ [Next]_vars => WithinCap'
  <2> SUFFICES ASSUME TypeOK, TypeOK', OneUnknownPaid, WithinCap, [Next]_vars
               PROVE  WithinCap'
    OBVIOUS
  <2>1. CASE UNCHANGED vars
    BY <2>1 DEF vars, money, WithinCap, Holds, Held
  <2>2. QED
    BY <2>1, LedgerWithinCap, FamilyWithinCap DEF Next
<1>2. QED
  BY <1>1, InitWithinCap, TypesAreCorrect, AtMostOneUnknownPaid, PTL DEF Spec

=============================================================================
