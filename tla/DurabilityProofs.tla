--------------------------- MODULE DurabilityProofs ---------------------------
(***************************************************************************)
(* Proofs about Durability, for every number of callers, obligations and   *)
(* directories, and any number of deaths of the worker, crashes, power     *)
(* losses, failing effects and failing clears: types, no obligation is     *)
(* forgotten before its effect is durable, nothing is deleted before its   *)
(* decision is durable, and flushed() keeps the promise of FlushedWrites.  *)
(*                                                                         *)
(* IInv is inductive.  WalInv orders the states a power loss can leave,    *)
(* CoverInv says what a report, once it is on its way, stands for, and     *)
(* OrderInv and Owed follow a registration from its generation through     *)
(* the outstanding commands, the port and the pass to the disk.            *)
(***************************************************************************)
EXTENDS Durability, FiniteSetTheorems, SequenceTheorems, NaturalsInduction,
        WellFoundedInduction, TLAPS

\* The states of the database, the commands of the flusher and its passes.
States == [ob : [Ob -> [state : {"none", "pending", "materialized", "cleared"}, g : Nat]],
           note : SUBSET Client]
CommandSet == [type : {"register", "flush"}, g : Nat, dir : Dir \cup {None}]
PassSet == [at : {"idle", "sample", "sync", "post"}, target : Nat,
            proven : {None} \cup Nat, observed : Nat]

\* State s holds the write or the decision of x.
Holds(s, x) ==
    /\ x \in Client => x \in s.note
    /\ x \in Ob => s.ob[x].state # "none"

\* Types of the database, the ports, the main thread, the generations and the pass.
DbTypes ==
    /\ wal \in Seq(States) /\ wal # <<>> /\ base \in Nat
    /\ entry = [o \in Ob |-> entry[o]]
    /\ \A o \in Ob : entry[o] \in [DirsOf[o] -> {"old", "cached", "durable"}]

PortTypes ==
    /\ gen \in Nat
    /\ out \in Seq(CommandSet) /\ inbox \in Seq(CommandSet)
    /\ outbox \in Seq(Nat) /\ Len(outbox) <= MaxPosted
    /\ \A i \in 1..Len(out) : out[i].g <= gen
    /\ \A i \in 1..Len(inbox) : inbox[i].g <= gen
    /\ \A i \in 1..Len(outbox) : outbox[i] <= gen

MainTypes ==
    /\ up \in BOOLEAN /\ turn \in Ob \cup {None} /\ mishaps \in 0..MaxMishaps
    /\ work \in [Ob -> [at : {"idle", "await", "act"}, left : SUBSET Dir]]
    /\ redo \subseteq Ob
    /\ told \in [Client -> {"idle", "waiting", "answered", "unavailable", "lost"}]
    /\ life \in {"none", "live", "dead"}

GenTypes ==
    /\ tracked \in [Ob -> Nat] /\ \A o \in Ob : tracked[o] <= gen
    /\ waiters \subseteq [g : Nat \ {0}, who : Client \cup Ob]
    /\ \A w \in waiters : w.g <= gen

PassTypes ==
    /\ pass \in PassSet /\ pass.target <= gen
    /\ pass.proven # None => pass.proven <= Commits
    /\ pass.observed <= Commits
    /\ pass.at # "idle" => Len(outbox) < MaxPosted

TypeInv == DbTypes /\ PortTypes /\ MainTypes /\ GenTypes /\ PassTypes

\* A process that is gone, and a worker that is, have left nothing behind.
ProcessInv ==
    /\ ~up => /\ life = "none" /\ out = <<>> /\ waiters = {} /\ outbox = <<>>
              /\ tracked = [o \in Ob |-> 0] /\ work = [o \in Ob |-> Resting]
    /\ life # "live" => inbox = <<>> /\ pass = Fresh

\* A later state of the database holds every write and decision of an earlier one.
WalInv ==
    \A i, j \in 1..Len(wal) : i <= j =>
        \A x \in Client \cup Ob : Holds(wal[i], x) => Holds(wal[j], x)

\* Who waits has committed, and a generation that is reported, or about to be,
\* covers only what no power loss can undo; so does the version the worker proved.
CoverInv ==
    /\ \A v, w \in waiters : v.who = w.who /\ v.who \in Client => v = w
    /\ \A w \in waiters : Holds(Head0, w.who) /\ (w.who \in Client => told[w.who] = "waiting")
    /\ \A o \in redo : Holds(Head0, o)
    /\ \A w \in waiters : \A i \in 1..Len(outbox) : w.g <= outbox[i] => Holds(wal[1], w.who)
    /\ pass.at = "post" => \A w \in waiters : w.g <= pass.target => Holds(wal[1], w.who)
    /\ pass.proven # None => pass.proven <= base
    /\ pass.at = "post" => pass.observed <= base

\* A registration has a larger generation than every command before it.
Ordered(s) ==
    \A i, j \in 1..Len(s) : i < j /\ s[j].type = "register" => s[i].g < s[j].g

Among(e, s) == \E i \in 1..Len(s) : s[i] = e

OrderInv ==
    /\ Ordered(out) /\ Ordered(inbox)
    /\ \A j \in 1..Len(inbox) : inbox[j].type = "register" => pass.target < inbox[j].g
    /\ \A j \in 1..Len(out) : out[j].type = "register" => 0 < out[j].g

\* Command e is still to be carried out and reported.
Waiting(e) ==
    /\ Among(e, out)
    /\ \A i \in 1..Len(outbox) : outbox[i] < e.g
    /\ life = "live" => Among(e, inbox)

\* The entry of d is on the disk, or a registration of o waits for it.
Owed(o, d) ==
    \/ entry[o][d] = "durable"
    \/ \E r \in 1..tracked[o] : Waiting(Command("register", r, d))

\* What an effect has done so far, and what a tracked obligation is owed.
EffectInv ==
    /\ \A o \in Ob : work[o].at = "act" =>
          /\ \A d \in DirsOf[o] \ work[o].left : entry[o][d] # "old"
          /\ o \in Purge => Holds(wal[1], o)
    /\ \A o \in Ob : tracked[o] # 0 => \A d \in DirsOf[o] : entry[o][d] # "old" /\ Owed(o, d)

\* The inductive invariant.
IInv ==
    /\ TypeInv /\ ProcessInv /\ WalInv /\ CoverInv /\ OrderInv /\ EffectInv
    /\ ForgottenIsDurable /\ DeletedAfterDecision

-----------------------------------------------------------------------------
\* The places of the members of a finite set of numbers are 1, 2, ... in their order.
LEMMA PlaceIsABijection ==
    ASSUME NEW kept, NEW n \in Nat, kept \subseteq 1..n
    PROVE  /\ Cardinality(kept) \in Nat
           /\ \A i \in kept : Place(kept, i) \in 1..Cardinality(kept)
           /\ \A i, k \in kept : i < k => Place(kept, i) < Place(kept, k)
           /\ \A m \in 1..Cardinality(kept) : \E i \in kept : Place(kept, i) = m
<1> DEFINE Upto(i) == {k \in kept : k <= i}
           N == Cardinality(kept)
           P == [i \in kept |-> Place(kept, i)]
<1>1. IsFiniteSet(kept) /\ N \in Nat
  <2>1. IsFiniteSet(1..n)
    BY FS_Interval
  <2> QED
    BY <2>1, FS_Subset, FS_CardinalityType
<1>2. \A i \in kept : /\ IsFiniteSet(Upto(i)) /\ Cardinality(Upto(i)) \in Nat
                      /\ Cardinality(Upto(i)) <= N
                      /\ Place(kept, i) = Cardinality(Upto(i))
  <2> TAKE i \in kept
  <2>1. Upto(i) \in SUBSET kept
    OBVIOUS
  <2>2. Place(kept, i) = Cardinality(Upto(i))
    BY DEF Place
  <2> HIDE DEF Upto
  <2>3. IsFiniteSet(Upto(i)) /\ Cardinality(Upto(i)) <= N
    BY <1>1, <2>1, FS_Subset
  <2>4. Cardinality(Upto(i)) \in Nat
    BY <2>3, FS_CardinalityType
  <2> QED
    BY <2>2, <2>3, <2>4
<1>3. \A i \in kept : Place(kept, i) \in 1..N
  <2> TAKE i \in kept
  <2>1. i \in Upto(i)
    OBVIOUS
  <2>2. Cardinality(Upto(i)) # 0
    <3> HIDE DEF Upto
    <3> QED BY <1>2, <2>1, FS_EmptySet
  <2> QED
    BY <1>1, <1>2, <2>2
<1>4. \A i, k \in kept : i < k => Place(kept, i) < Place(kept, k)
  <2> SUFFICES ASSUME NEW i \in kept, NEW k \in kept, i < k
               PROVE  Place(kept, i) < Place(kept, k)
    OBVIOUS
  <2>1. k \in Upto(k) /\ k \notin Upto(i)
    OBVIOUS
  <2>2. Upto(i) \in SUBSET Upto(k)
    <3> SUFFICES ASSUME NEW j \in kept, j <= i PROVE j <= k
      OBVIOUS
    <3>1. i \in Nat /\ j \in Nat /\ k \in Nat
      OBVIOUS
    <3> QED BY <3>1
  <2> HIDE DEF Upto
  <2>3. Cardinality(Upto(i)) <= Cardinality(Upto(k))
        /\ Cardinality(Upto(i)) # Cardinality(Upto(k))
    BY <1>2, <2>1, <2>2, FS_Subset
  <2> QED
    BY <1>2, <2>3
<1>5. \A i, k \in kept : Place(kept, i) = Place(kept, k) => i = k
  <2> HIDE DEF N, Upto
  <2> SUFFICES ASSUME NEW i \in kept, NEW k \in kept, Place(kept, i) = Place(kept, k)
               PROVE  i = k
    OBVIOUS
  <2>1. i \in Nat /\ k \in Nat
    OBVIOUS
  <2> QED BY <1>2, <1>4, <2>1
<1>6. P \in Injection(kept, 1..N)
  <2>1. P \in [kept -> 1..N]
    BY <1>3
  <2> QED
    BY <1>5, <2>1 DEF Injection, IsInjective
<1>7. IsFiniteSet(1..N) /\ Cardinality(1..N) = N
  BY <1>1, FS_Interval
<1>8. P \in Surjection(kept, 1..N)
  BY <1>6, <1>7, FS_Injection
<1>9. \A m \in 1..N : \E i \in kept : P[i] = m
  BY <1>8 DEF Surjection
<1> QED
  BY <1>1, <1>3, <1>4, <1>9

\* Picked holds the kept entries and no others, in their order.
LEMMA PickedKeepsOrder ==
    ASSUME NEW S, NEW s \in Seq(S), NEW kept \in SUBSET (1..Len(s))
    PROVE  /\ Picked(s, kept) \in Seq(S)
           /\ \A m \in 1..Len(Picked(s, kept)) : \E i \in kept : Picked(s, kept)[m] = s[i]
           /\ \A i \in kept : \E m \in 1..Len(Picked(s, kept)) : Picked(s, kept)[m] = s[i]
           /\ \A l, m \in 1..Len(Picked(s, kept)) : l < m =>
                \E i, k \in kept :
                   i < k /\ Picked(s, kept)[l] = s[i] /\ Picked(s, kept)[m] = s[k]
<1> DEFINE Nth(m) == CHOOSE i \in kept : Place(kept, i) = m
           N == Cardinality(kept)
           w == [m \in 1..N |-> s[Nth(m)]]
<1>1. Len(s) \in Nat /\ \A i \in kept : i \in 1..Len(s) /\ s[i] \in S
  BY LenProperties, ElementOfSeq
<1>2. \A i \in kept : i \in Nat
  BY <1>1
<1>4. Picked(s, kept) = w
  BY DEF Picked
<1>5. /\ N \in Nat
      /\ \A i \in kept : Place(kept, i) \in 1..N
      /\ \A i, k \in kept : i < k => Place(kept, i) < Place(kept, k)
      /\ \A m \in 1..N : \E i \in kept : Place(kept, i) = m
  BY <1>1, PlaceIsABijection
<1>6. \A m \in 1..N : Nth(m) \in kept /\ Place(kept, Nth(m)) = m
  BY <1>5
<1> HIDE DEF Nth, N
<1>7. \A i, k \in kept : Place(kept, i) = Place(kept, k) => i = k
  <2> SUFFICES ASSUME NEW i \in kept, NEW k \in kept, Place(kept, i) = Place(kept, k), i # k
               PROVE  FALSE
    OBVIOUS
  <2>1. i \in Nat /\ k \in Nat
    BY <1>1
  <2>2. Place(kept, i) \in Nat /\ (i < k \/ k < i)
    BY <1>5, <2>1
  <2> QED BY <1>5, <2>2
<1>8. \A i \in kept : Nth(Place(kept, i)) = i
  BY <1>5, <1>6, <1>7
<1>9. w \in Seq(S) /\ Len(w) = N /\ \A m \in 1..N : w[m] = s[Nth(m)]
  <2>1. w \in [1..N -> S]
    BY <1>1, <1>6
  <2>2. w \in Seq(S)
    BY <1>5, <2>1
  <2>3. Len(w) = N
    BY <1>5, <2>1
  <2> QED BY <2>2, <2>3
<1> HIDE DEF w
<1>10. \A m \in 1..N : \E i \in kept : w[m] = s[i]
  BY <1>6, <1>9
<1>11. \A i \in kept : \E m \in 1..N : w[m] = s[i]
  BY <1>5, <1>8, <1>9
<1>12. ASSUME NEW l \in 1..N, NEW m \in 1..N, l < m
       PROVE  \E i, k \in kept : i < k /\ w[l] = s[i] /\ w[m] = s[k]
  <2>0. Nth(l) \in kept /\ Nth(m) \in kept
    BY <1>6
  <2>1. Nth(l) \in kept /\ Nth(m) \in kept /\ Nth(l) \in Nat /\ Nth(m) \in Nat
    BY <1>2, <2>0
  <2>2. Place(kept, Nth(l)) = l /\ Place(kept, Nth(m)) = m
    BY <1>6
  <2>3. ~(Nth(m) < Nth(l))
    BY <1>5, <1>12, <2>1, <2>2
  <2>4. Nth(l) < Nth(m)
    BY <1>12, <2>1, <2>2, <2>3
  <2> QED
    BY <1>9, <2>1, <2>4
<1> QED
  BY <1>4, <1>9, <1>10, <1>11, <1>12

\* The order of the numbers, for the least-element principle.
Below == {ss \in Nat \X Nat : ss[1] < ss[2]}

\* A set of numbers has a least one.
LEMMA LeastNumber ==
    ASSUME NEW S, S \subseteq Nat, S # {}
    PROVE  \E x \in S : \A y \in S : x <= y
<1>1. IsWellFoundedOn(Below, Nat)
  BY NatLessThanWellFounded DEF OpToRel, Below
<1>2. PICK x \in S : \A y \in S : <<y, x>> \notin Below
  BY <1>1, WFMin
<1>3. \A y \in S : x <= y
  <2> SUFFICES ASSUME NEW y \in S
               PROVE  x <= y
    OBVIOUS
  <2>1. x \in Nat /\ y \in Nat /\ <<y, x>> \notin Below
    BY <1>2
  <2> QED
    BY <2>1 DEF Below
<1> QED
  BY <1>3

\* A bounded set of numbers has a largest one.
LEMMA LargestNumber ==
    ASSUME NEW S, S \subseteq Nat, S # {}, NEW n \in Nat, \A y \in S : y <= n
    PROVE  \E x \in S : \A y \in S : y <= x
<1> DEFINE B == {b \in Nat : \A y \in S : y <= b}
<1>1. PICK b \in B : \A c \in B : b <= c
  <2>1. B \subseteq Nat /\ B # {}
    OBVIOUS
  <2> HIDE DEF B
  <2> QED BY <2>1, LeastNumber
<1>2. b \in Nat /\ \A y \in S : y <= b
  BY <1>1
<1>3. b \in S
  <2>1. SUFFICES ASSUME b \notin S PROVE FALSE
    OBVIOUS
  <2>2. \A y \in S : y < b
    BY <1>2, <2>1
  <2>3. b - 1 \in Nat /\ \A y \in S : y <= b - 1
    <3>1. PICK z \in S : TRUE
      OBVIOUS
    <3>2. z \in Nat /\ z < b
      BY <2>2
    <3>3. \A y \in S : y \in Nat /\ y < b
      BY <2>2
    <3> QED
      BY <1>2, <3>2, <3>3
  <2>4. b - 1 \in B
    BY <2>3
  <2> QED
    BY <1>1, <1>2, <2>4
<1> QED
  BY <1>2, <1>3

\* The target of a pass is the largest generation it has seen.
LEMMA LargestIsLargest ==
    ASSUME NEW g \in Nat, NEW cmds \in Seq(CommandSet), NEW n \in Nat, g <= n,
           \A i \in 1..Len(cmds) : cmds[i].g <= n
    PROVE  /\ Largest(g, cmds) \in Nat /\ Largest(g, cmds) <= n /\ Largest(g, cmds) >= g
           /\ \A i \in 1..Len(cmds) : Largest(g, cmds) >= cmds[i].g
           /\ Largest(g, cmds) = g
                \/ \E i \in 1..Len(cmds) : Largest(g, cmds) = cmds[i].g
<1> DEFINE S == {g} \cup {cmds[i].g : i \in DOMAIN cmds}
<1>1. DOMAIN cmds = 1..Len(cmds) /\ \A i \in 1..Len(cmds) : cmds[i].g \in Nat
  <2>1. \A i \in 1..Len(cmds) : cmds[i] \in CommandSet
    BY ElementOfSeq
  <2> QED
    BY <2>1, LenProperties DEF CommandSet
<1>2. S \subseteq Nat /\ g \in S /\ \A y \in S : y <= n
  BY <1>1
<1>3. \A y \in S : y = g \/ \E i \in 1..Len(cmds) : y = cmds[i].g
  BY <1>1
<1>4. \A i \in 1..Len(cmds) : cmds[i].g \in S
  BY <1>1
<1>5. Largest(g, cmds) = CHOOSE x \in S : x >= g /\ \A i \in DOMAIN cmds : x >= cmds[i].g
  BY DEF Largest
<1> HIDE DEF S
<1>6. PICK x \in S : \A y \in S : y <= x
  BY <1>2, LargestNumber
<1>7. x >= g /\ \A i \in DOMAIN cmds : x >= cmds[i].g
  BY <1>1, <1>2, <1>4, <1>6
<1>8. /\ Largest(g, cmds) \in S /\ Largest(g, cmds) >= g
      /\ \A i \in DOMAIN cmds : Largest(g, cmds) >= cmds[i].g
  BY <1>5, <1>7
<1> QED
  BY <1>1, <1>2, <1>3, <1>8

-----------------------------------------------------------------------------
\* A commit of the main thread adds a state that keeps what the last one held.
Added(s) ==
    /\ s \in States /\ wal' = Append(wal, s)
    /\ \A x \in Client \cup Ob : Holds(Head0, x) => Holds(s, x)
    /\ \A o \in Ob : s.ob[o].state = "cleared" =>
          \/ Head0.ob[o].state = "cleared"
          \/ \A d \in DirsOf[o] : entry[o][d] = "durable"

\* The database after a step: grown by a commit or as it was, lost back to one of
\* its states, or hardened by a barrier.
Grown ==
    /\ base' = base
    /\ wal' = wal \/ \E s \in States : Added(s)

Lost == base' = 0 /\ \E i \in 1..Len(wal) : wal' = <<wal[i]>>

Hardened == base' = Commits /\ wal' = <<Head0>>

\* The types of the database's states and of the number of commits.
LEMMA WalFacts ==
    ASSUME DbTypes
    PROVE  /\ Len(wal) \in Nat \ {0} /\ Commits \in Nat /\ Head0 \in States
           /\ Commits = base + Len(wal) - 1
           /\ \A i \in 1..Len(wal) : wal[i] \in States
<1>1. Len(wal) \in Nat \ {0}
  BY EmptySeq DEF DbTypes
<1>2. \A i \in 1..Len(wal) : wal[i] \in States
  BY ElementOfSeq DEF DbTypes
<1> QED
  BY <1>1, <1>2 DEF DbTypes, Commits, Head0

\* A commit appends its state and leaves the others.
LEMMA AddedFacts ==
    ASSUME DbTypes, NEW s \in States, wal' = Append(wal, s)
    PROVE  /\ wal' \in Seq(States) /\ wal' # <<>> /\ Len(wal') = Len(wal) + 1
           /\ \A i \in 1..Len(wal) : wal'[i] = wal[i]
           /\ Head0' = s /\ wal'[Len(wal')] = s /\ wal'[1] = wal[1]
<1>1. wal \in Seq(States)
  BY DEF DbTypes
<1>2. Len(wal) \in Nat \ {0}
  BY WalFacts
<1>3. /\ wal' \in Seq(States) /\ wal' # <<>> /\ Len(wal') = Len(wal) + 1
      /\ \A i \in 1..Len(wal) : wal'[i] = wal[i]
      /\ wal'[Len(wal) + 1] = s
  BY <1>1, AppendProperties
<1>4. Head0' = wal'[Len(wal')]
  BY DEF Head0
<1> QED
  BY <1>2, <1>3, <1>4

\* A commit leaves what is durable and keeps what is held.
LEMMA GrownFacts ==
    ASSUME DbTypes, WalInv, Grown
    PROVE  /\ wal' \in Seq(States) /\ wal' # <<>> /\ base' \in Nat /\ WalInv'
           /\ wal'[1] = wal[1] /\ base' = base /\ Commits' >= Commits
           /\ \A x \in Client \cup Ob : Holds(Head0, x) => Holds(Head0, x)'
<1>1. CASE wal' = wal
  <2>1. Head0' = Head0 /\ Commits' = Commits
    BY <1>1 DEF Head0, Commits, Grown
  <2>2. WalInv'
    BY <1>1 DEF WalInv, Holds
  <2>3. \A x \in Client \cup Ob : Holds(Head0, x)' <=> Holds(Head0, x)
    BY <2>1 DEF Holds
  <2> QED
    BY <1>1, <2>1, <2>2, <2>3, WalFacts DEF Grown, DbTypes
<1>2. ASSUME NEW s \in States, Added(s)
      PROVE  /\ wal' \in Seq(States) /\ wal' # <<>> /\ base' \in Nat /\ WalInv'
             /\ wal'[1] = wal[1] /\ base' = base /\ Commits' >= Commits
             /\ \A x \in Client \cup Ob : Holds(Head0, x) => Holds(Head0, x)'
  <2>1. /\ wal' \in Seq(States) /\ wal' # <<>> /\ Len(wal') = Len(wal) + 1
        /\ \A i \in 1..Len(wal) : wal'[i] = wal[i]
        /\ Head0' = s /\ wal'[Len(wal')] = s /\ wal'[1] = wal[1]
    BY <1>2, AddedFacts DEF Added
  <2>2. \A x \in Client \cup Ob : Holds(Head0, x)' <=> Holds(s, x)
    BY <2>1 DEF Holds
  <2>3. \A x \in Client \cup Ob : Holds(Head0, x) => Holds(s, x)
    BY <1>2 DEF Added
  <2>4. Commits' = base' + Len(wal') - 1
    BY DEF Commits
  <2>5. Len(wal) \in Nat \ {0} /\ Head0 = wal[Len(wal)]
    BY WalFacts DEF Head0
  <2>6. ASSUME NEW i \in 1..Len(wal'), NEW j \in 1..Len(wal'), i <= j,
               NEW x \in Client \cup Ob, Holds(wal'[i], x)
        PROVE  Holds(wal'[j], x)
    <3>1. CASE j <= Len(wal)
      <4>1. i \in 1..Len(wal) /\ j \in 1..Len(wal) /\ wal'[i] = wal[i] /\ wal'[j] = wal[j]
        BY <2>1, <2>5, <2>6, <3>1
      <4> QED
        BY <2>6, <4>1 DEF WalInv
    <3>2. CASE j = Len(wal) + 1 /\ i <= Len(wal)
      <4>1. i \in 1..Len(wal) /\ wal'[i] = wal[i] /\ Len(wal) \in 1..Len(wal)
        BY <2>1, <2>5, <3>2
      <4>2. Holds(Head0, x)
        BY <2>5, <2>6, <4>1 DEF WalInv
      <4> QED
        BY <2>1, <2>3, <3>2, <4>2
    <3>3. CASE i = j
      BY <2>6, <3>3
    <3> QED
      BY <2>1, <2>5, <2>6, <3>1, <3>2, <3>3
  <2>7. WalInv'
    BY <2>6 DEF WalInv, Holds
  <2> QED
    BY <2>1, <2>2, <2>3, <2>4, <2>5, <2>7, WalFacts DEF Grown, DbTypes
<1> QED
  BY <1>1, <1>2 DEF Grown

\* What a step does to the database.
LEMMA StoreFacts ==
    ASSUME DbTypes, WalInv, Grown \/ Lost \/ Hardened
    PROVE  /\ wal' \in Seq(States) /\ wal' # <<>> /\ base' \in Nat /\ WalInv'
           /\ \A x \in Client \cup Ob : Holds(wal[1], x) => Holds(wal[1], x)'
           /\ ~Lost => /\ base' >= base /\ Commits' >= Commits
                       /\ \A x \in Client \cup Ob : Holds(Head0, x) => Holds(Head0, x)'
           /\ \A s \in States : wal' = <<s>> => Head0' = s /\ wal'[1] = s
<1>1. /\ Len(wal) \in Nat \ {0} /\ Commits \in Nat /\ Head0 \in States
      /\ Commits = base + Len(wal) - 1 /\ base \in Nat
      /\ \A i \in 1..Len(wal) : wal[i] \in States
  BY WalFacts DEF DbTypes
<1>2. ASSUME NEW s \in States, wal' = <<s>>
      PROVE  /\ wal' \in Seq(States) /\ wal' # <<>> /\ WalInv' /\ Len(wal') = 1
             /\ wal'[1] = s /\ Head0' = s
  <2>1. Len(wal') = 1 /\ wal'[1] = s /\ wal' \in Seq(States) /\ wal' # <<>>
    BY <1>2
  <2>2. WalInv'
    BY <2>1 DEF WalInv, Holds
  <2> QED
    BY <2>1, <2>2 DEF Head0
<1>3. CASE Grown
  <2>1. \A x \in Client \cup Ob : Holds(wal[1], x) => Holds(wal[1], x)'
    BY <1>3, GrownFacts DEF Holds
  <2>2. base' >= base
    BY <1>1, <1>3 DEF Grown
  <2> QED
    BY <1>2, <1>3, <2>1, <2>2, GrownFacts
<1>4. CASE Lost
  <2>1. PICK i \in 1..Len(wal) : wal' = <<wal[i]>>
    BY <1>4 DEF Lost
  <2>2. wal'[1] = wal[i]
    BY <2>1
  <2>3. 1 \in 1..Len(wal) /\ 1 <= i
    BY <1>1
  <2>4. \A x \in Client \cup Ob : Holds(wal[1], x) => Holds(wal[i], x)
    BY <2>3 DEF WalInv
  <2>5. \A x \in Client \cup Ob : Holds(wal[1], x) => Holds(wal[1], x)'
    BY <2>2, <2>4 DEF Holds
  <2> QED
    BY <1>1, <1>2, <1>4, <2>1, <2>5 DEF Lost
<1>5. CASE Hardened
  <2>1. wal'[1] = Head0 /\ Head0' = Head0 /\ Len(wal') = 1 /\ base' = Commits
    BY <1>1, <1>2, <1>5 DEF Hardened
  <2>2. 1 \in 1..Len(wal) /\ Len(wal) \in 1..Len(wal) /\ 1 <= Len(wal)
    BY <1>1
  <2>3. \A x \in Client \cup Ob : Holds(wal[1], x) => Holds(Head0, x)
    BY <2>2 DEF WalInv, Head0
  <2>4. \A x \in Client \cup Ob : (Holds(wal[1], x)' <=> Holds(Head0, x))
                                  /\ (Holds(Head0, x)' <=> Holds(Head0, x))
    BY <2>1 DEF Holds
  <2>5. Commits' = base' + Len(wal') - 1
    BY DEF Commits
  <2>6. base' >= base /\ Commits' >= Commits
    BY <1>1, <2>1, <2>5
  <2> QED
    BY <1>1, <1>2, <1>5, <2>1, <2>3, <2>4, <2>6 DEF Hardened
<1> QED
  BY <1>3, <1>4, <1>5

-----------------------------------------------------------------------------
\* Commands of the next generations are sent.
Numbered(cmds) ==
    /\ cmds \in Seq(CommandSet)
    /\ \A i \in 1..Len(cmds) : cmds[i].g = gen + i
    /\ gen' = gen + Len(cmds) /\ SendAll(cmds)

\* An order of registrations lists each directory.
LEMMA OrdersListThem ==
    ASSUME NEW dirs \in SUBSET Dir, NEW order \in Orders(dirs)
    PROVE  /\ order \in Seq(Dir \cup {None}) /\ DOMAIN order = 1..Len(order)
           /\ Len(order) \in Nat
           /\ \A d \in dirs : \E i \in 1..Len(order) : order[i] = d
<1>1. CASE dirs = {}
  <2>1. order = <<None>>
    BY <1>1 DEF Orders
  <2> QED
    BY <1>1, <2>1
<1>2. CASE dirs # {}
  <2>1. IsFiniteSet(dirs)
    BY ObAssumption, FS_Subset
  <2>2. Cardinality(dirs) \in Nat
    BY <2>1, FS_CardinalityType
  <2>3. order \in [1..Cardinality(dirs) -> dirs]
        /\ \A d \in dirs : \E i \in DOMAIN order : order[i] = d
    BY <1>2 DEF Orders
  <2>4. order \in Seq(Dir \cup {None})
    BY <2>2, <2>3
  <2>5. DOMAIN order = 1..Len(order) /\ Len(order) \in Nat
    BY <2>4, LenProperties
  <2> QED
    BY <2>3, <2>4, <2>5
<1> QED
  BY <1>1, <1>2

\* registerEffect of each directory sends one registration of each.
LEMMA RegisterEachSends ==
    ASSUME gen \in Nat, NEW dirs \in SUBSET Dir, RegisterEach(dirs)
    PROVE  \E cmds \in Seq(CommandSet) :
              /\ Numbered(cmds)
              /\ \A d \in dirs : \E i \in 1..Len(cmds) :
                    cmds[i] = Command("register", gen + i, d)
<1>1. PICK order \in Orders(dirs) :
        /\ gen' = gen + Len(order)
        /\ SendAll([i \in DOMAIN order |->
              Command(IF order[i] = None THEN "flush" ELSE "register", gen + i, order[i])])
  BY DEF RegisterEach
<1> DEFINE cmds == [i \in DOMAIN order |->
              Command(IF order[i] = None THEN "flush" ELSE "register", gen + i, order[i])]
<1>2. /\ order \in Seq(Dir \cup {None}) /\ DOMAIN order = 1..Len(order)
      /\ Len(order) \in Nat
      /\ \A d \in dirs : \E i \in 1..Len(order) : order[i] = d
  BY OrdersListThem
<1>3. \A i \in 1..Len(order) : order[i] \in Dir \cup {None}
  BY <1>2, ElementOfSeq
<1>4. cmds \in [1..Len(order) -> CommandSet]
  <2>1. \A i \in 1..Len(order) : cmds[i] \in CommandSet
    <3> TAKE i \in 1..Len(order)
    <3>1. gen + i \in Nat
      BY <1>2
    <3> QED
      BY <1>2, <1>3, <3>1 DEF CommandSet, Command
  <2> QED
    BY <1>2, <2>1
<1>5. cmds \in Seq(CommandSet) /\ Len(cmds) = Len(order)
  <2>1. cmds \in Seq(CommandSet)
    BY <1>2, <1>4
  <2>2. DOMAIN cmds = 1..Len(order)
    BY <1>2
  <2>3. Len(cmds) = Len(order)
    BY <1>2, <2>1, <2>2, LenProperties
  <2> QED
    BY <2>1, <2>3
<1>6. \A i \in 1..Len(order) : cmds[i].g = gen + i
  BY <1>2 DEF Command
<1>7. \A d \in dirs : \E i \in 1..Len(order) : cmds[i] = Command("register", gen + i, d)
  <2> TAKE d \in dirs
  <2>1. PICK i \in 1..Len(order) : order[i] = d
    BY <1>2
  <2>2. d # None
    BY ObAssumption
  <2>3. cmds[i] = Command("register", gen + i, d)
    BY <1>2, <2>1, <2>2
  <2> QED
    BY <2>3
<1>8. SendAll(cmds)
  BY <1>1
<1> HIDE DEF cmds
<1>9. Numbered(cmds)
  BY <1>1, <1>5, <1>6, <1>8 DEF Numbered
<1> QED
  BY <1>5, <1>7, <1>9

\* flushed() sends one command of the next generation.
LEMMA SendNextSends ==
    ASSUME gen \in Nat, NEW d \in Dir \cup {None}, SendNext("flush", d)
    PROVE  Numbered(<<Command("flush", gen + 1, d)>>) /\ gen' = gen + 1
<1>1. Command("flush", gen + 1, d) \in CommandSet /\ Command("flush", gen + 1, d).g = gen + 1
  BY DEF Command, CommandSet
<1> DEFINE e == Command("flush", gen + 1, d)
<1> HIDE DEF e
<1>2. <<e>> \in Seq(CommandSet) /\ Len(<<e>>) = 1 /\ <<e>>[1] = e
  BY <1>1 DEF e
<1>3. gen' = gen + 1 /\ SendAll(<<e>>)
  BY DEF SendNext, e
<1>4. \A i \in 1..Len(<<e>>) : <<e>>[i].g = gen + i
  BY <1>1, <1>2 DEF e
<1>5. Numbered(<<e>>)
  BY <1>2, <1>3, <1>4 DEF Numbered
<1> QED
  BY <1>3, <1>5 DEF e

\* A step that sends nothing.
LEMMA SilenceSends ==
    ASSUME PortTypes, UNCHANGED <<gen, out, inbox>>
    PROVE  Numbered(<<>>)
<1>1. <<>> \in Seq(CommandSet) /\ Len(<<>>) = 0
  BY EmptySeq
<1>2. out \o <<>> = out /\ inbox \o <<>> = inbox
  BY ConcatEmptySeq DEF PortTypes
<1> QED
  BY <1>1, <1>2 DEF Numbered, SendAll, PortTypes

\* Commands of the next generations keep a port in order.
LEMMA OrderedConcat ==
    ASSUME NEW s \in Seq(CommandSet), NEW cmds \in Seq(CommandSet), NEW n \in Nat,
           \A i \in 1..Len(s) : s[i].g <= n, Ordered(s),
           \A i \in 1..Len(cmds) : cmds[i].g = n + i
    PROVE  /\ s \o cmds \in Seq(CommandSet) /\ Ordered(s \o cmds)
           /\ \A i \in 1..Len(s \o cmds) : (s \o cmds)[i].g <= n + Len(cmds)
           /\ \A i \in 1..Len(s \o cmds) :
                 Among((s \o cmds)[i], s) \/ n < (s \o cmds)[i].g
           /\ \A e : Among(e, s) \/ Among(e, cmds) => Among(e, s \o cmds)
<1> DEFINE t == s \o cmds
<1>1. Len(s) \in Nat /\ Len(cmds) \in Nat
  BY LenProperties
<1>2. /\ t \in Seq(CommandSet) /\ Len(t) = Len(s) + Len(cmds)
      /\ \A i \in 1..Len(t) : t[i] = IF i <= Len(s) THEN s[i] ELSE cmds[i - Len(s)]
  BY <1>1, ConcatProperties
<1> HIDE DEF t
<1>3. \A i \in 1..Len(s) : i \in 1..Len(t) /\ t[i] = s[i]
  BY <1>1, <1>2
<1>4. \A i \in 1..Len(cmds) : Len(s) + i \in 1..Len(t) /\ t[Len(s) + i] = cmds[i]
  <2> TAKE i \in 1..Len(cmds)
  <2>1. Len(s) + i \in 1..Len(t) /\ ~(Len(s) + i <= Len(s)) /\ (Len(s) + i) - Len(s) = i
    BY <1>1, <1>2
  <2> QED
    BY <1>2, <2>1
<1>5. \A i \in 1..Len(t) : \/ i \in 1..Len(s) /\ t[i] = s[i] /\ t[i].g <= n
                           \/ i - Len(s) \in 1..Len(cmds) /\ t[i].g = n + (i - Len(s))
  BY <1>1, <1>2
<1>6. \A i \in 1..Len(t) : t[i].g <= n + Len(cmds)
  <2> TAKE i \in 1..Len(t)
  <2>1. t[i] \in CommandSet
    BY <1>2, ElementOfSeq
  <2>2. t[i].g \in Nat
    BY <2>1 DEF CommandSet
  <2> QED
    BY <1>1, <1>5, <2>2
<1>7. \A i \in 1..Len(t) : Among(t[i], s) \/ n < t[i].g
  BY <1>1, <1>5 DEF Among
<1>8. \A e : Among(e, s) \/ Among(e, cmds) => Among(e, t)
  BY <1>3, <1>4 DEF Among
<1>9. Ordered(t)
  <2> SUFFICES ASSUME NEW i \in 1..Len(t), NEW j \in 1..Len(t), i < j,
                      t[j].type = "register"
               PROVE  t[i].g < t[j].g
    BY DEF Ordered
  <2>1. CASE j \in 1..Len(s)
    <3>1. i \in 1..Len(s) /\ t[i] = s[i] /\ t[j] = s[j]
      BY <1>1, <1>2, <1>3, <2>1
    <3> QED
      BY <2>1, <3>1 DEF Ordered
  <2>2. CASE j - Len(s) \in 1..Len(cmds) /\ t[j].g = n + (j - Len(s))
    <3>1. t[i] \in CommandSet
      BY <1>2, ElementOfSeq
    <3>2. t[i].g \in Nat /\ i \in Nat /\ j \in Nat
      BY <1>1, <1>2, <3>1 DEF CommandSet
    <3>3. t[i].g <= n \/ t[i].g = n + (i - Len(s))
      BY <1>5
    <3>4. t[j].g = n + (j - Len(s)) /\ 1 <= j - Len(s) /\ i < j
      BY <1>1, <2>2
    <3> QED
      BY <1>1, <3>2, <3>3, <3>4
  <2> QED
    BY <1>5, <2>1, <2>2
<1> QED
  BY <1>2, <1>6, <1>7, <1>8, <1>9 DEF t

\* What is sent stands behind what was there, with larger generations.
LEMMA SentKeeps ==
    ASSUME PortTypes, OrderInv, pass \in PassSet, pass.target <= gen,
           NEW cmds, Numbered(cmds),
           UNCHANGED <<life, outbox>>, pass'.target = pass.target
    PROVE  /\ PortTypes' /\ OrderInv' /\ gen' >= gen
           /\ \A e : Waiting(e) => Waiting(e)'
           /\ \A i \in 1..Len(cmds) : Waiting(cmds[i])'
<1>1. /\ cmds \in Seq(CommandSet) /\ gen' = gen + Len(cmds)
      /\ \A i \in 1..Len(cmds) : cmds[i].g = gen + i
      /\ out' = out \o cmds
      /\ inbox' = IF life = "live" THEN inbox \o cmds ELSE inbox
  BY DEF Numbered, SendAll
<1>2. /\ gen \in Nat /\ out \in Seq(CommandSet) /\ inbox \in Seq(CommandSet)
      /\ Len(cmds) \in Nat /\ pass.target \in Nat /\ pass.target <= gen
      /\ outbox \in Seq(Nat) /\ Len(outbox) \in Nat
  BY <1>1, LenProperties DEF PortTypes, PassSet
<1>3. gen' \in Nat /\ gen' >= gen
  BY <1>1, <1>2
<1>4. /\ out' \in Seq(CommandSet) /\ Ordered(out')
      /\ \A i \in 1..Len(out') : out'[i].g <= gen'
      /\ \A i \in 1..Len(out') : Among(out'[i], out) \/ gen < out'[i].g
      /\ \A e : Among(e, out) \/ Among(e, cmds) => Among(e, out')
  BY <1>1, <1>2, OrderedConcat DEF PortTypes, OrderInv
<1>5. /\ inbox' \in Seq(CommandSet) /\ Ordered(inbox')
      /\ \A i \in 1..Len(inbox') : inbox'[i].g <= gen'
      /\ \A i \in 1..Len(inbox') : Among(inbox'[i], inbox) \/ gen < inbox'[i].g
      /\ \A e : Among(e, inbox) \/ (life = "live" /\ Among(e, cmds)) => Among(e, inbox')
  <2>1. CASE life = "live"
    BY <1>1, <1>2, <2>1, OrderedConcat DEF PortTypes, OrderInv
  <2>2. CASE life # "live"
    <3>1. inbox' = inbox
      BY <1>1, <2>2
    <3>2. \A i \in 1..Len(inbox) : inbox[i] \in CommandSet
      BY <1>2, ElementOfSeq
    <3>3. \A i \in 1..Len(inbox) : inbox[i].g \in Nat /\ inbox[i].g <= gen
      BY <3>2 DEF CommandSet, PortTypes
    <3>4. \A i \in 1..Len(inbox) : inbox[i].g <= gen'
      BY <1>2, <1>3, <3>3
    <3> QED
      BY <1>2, <2>2, <3>1, <3>4 DEF OrderInv, Among
  <2> QED
    BY <2>1, <2>2
<1>6. \A i \in 1..Len(outbox) : outbox[i] \in Nat /\ outbox[i] <= gen /\ outbox[i] <= gen'
  <2> TAKE i \in 1..Len(outbox)
  <2>1. outbox[i] \in Nat /\ outbox[i] <= gen
    BY <1>2, ElementOfSeq DEF PortTypes
  <2> QED
    BY <1>2, <1>3, <2>1
<1>7. PortTypes'
  BY <1>3, <1>4, <1>5, <1>6 DEF PortTypes
<1>8. \A j \in 1..Len(out') : out'[j].type = "register" => 0 < out'[j].g
  <2> SUFFICES ASSUME NEW j \in 1..Len(out'), out'[j].type = "register"
               PROVE  0 < out'[j].g
    OBVIOUS
  <2>1. CASE Among(out'[j], out)
    BY <2>1 DEF Among, OrderInv
  <2>2. CASE gen < out'[j].g
    <3>1. out'[j] \in CommandSet
      BY <1>4, ElementOfSeq
    <3>2. out'[j].g \in Nat
      BY <3>1 DEF CommandSet
    <3> QED
      BY <1>2, <2>2, <3>2
  <2> QED
    BY <1>4, <2>1, <2>2
<1>9. \A j \in 1..Len(inbox') : inbox'[j].type = "register" => pass.target < inbox'[j].g
  <2> SUFFICES ASSUME NEW j \in 1..Len(inbox'), inbox'[j].type = "register"
               PROVE  pass.target < inbox'[j].g
    OBVIOUS
  <2>1. CASE Among(inbox'[j], inbox)
    BY <2>1 DEF Among, OrderInv
  <2>2. CASE gen < inbox'[j].g
    <3>1. inbox'[j] \in CommandSet
      BY <1>5, ElementOfSeq
    <3>2. inbox'[j].g \in Nat
      BY <3>1 DEF CommandSet
    <3> QED
      BY <1>2, <2>2, <3>2
  <2> QED
    BY <1>5, <2>1, <2>2
<1>10. OrderInv'
  BY <1>4, <1>5, <1>8, <1>9 DEF OrderInv
<1>11. \A e : Waiting(e) => Waiting(e)'
  <2> SUFFICES ASSUME NEW e, Waiting(e)
               PROVE  Waiting(e)'
    OBVIOUS
  <2>1. Among(e, out') /\ (life = "live" => Among(e, inbox'))
    BY <1>4, <1>5 DEF Waiting
  <2> QED
    BY <2>1 DEF Waiting, Among
<1>12. \A i \in 1..Len(cmds) : Waiting(cmds[i])'
  <2> SUFFICES ASSUME NEW i \in 1..Len(cmds)
               PROVE  Waiting(cmds[i])'
    OBVIOUS
  <2>1. Among(cmds[i], cmds)
    BY DEF Among
  <2>2. Among(cmds[i], out') /\ (life = "live" => Among(cmds[i], inbox'))
    BY <1>4, <1>5, <2>1
  <2>3. \A m \in 1..Len(outbox) : outbox[m] < cmds[i].g
    <3> TAKE m \in 1..Len(outbox)
    <3>1. cmds[i].g = gen + i /\ i \in Nat \ {0}
      BY <1>1, <1>2
    <3> QED
      BY <1>2, <1>6, <3>1
  <2> QED
    BY <2>2, <2>3 DEF Waiting, Among
<1> QED
  BY <1>3, <1>7, <1>10, <1>11, <1>12

-----------------------------------------------------------------------------
\* A commit of rows that forgets only what is durable.
LEMMA RowsAdded ==
    ASSUME DbTypes, NEW rows,
           rows \in [Ob -> [state : {"none", "pending", "materialized", "cleared"}, g : Nat]],
           \A o \in Ob : Head0.ob[o].state # "none" => rows[o].state # "none",
           \A o \in Ob : rows[o].state = "cleared" =>
              \/ Head0.ob[o].state = "cleared"
              \/ \A d \in DirsOf[o] : entry[o][d] = "durable",
           wal' = Append(wal, [Head0 EXCEPT !.ob = rows])
    PROVE  Added([Head0 EXCEPT !.ob = rows])
<1> DEFINE s == [Head0 EXCEPT !.ob = rows]
<1>1. Head0 \in States
  BY WalFacts
<1>2. s \in States /\ s.ob = rows /\ s.note = Head0.note
  BY <1>1 DEF States
<1> HIDE DEF s
<1>3. \A x \in Client \cup Ob : Holds(Head0, x) => Holds(s, x)
  BY <1>2 DEF Holds
<1>4. wal' = Append(wal, s)
  BY DEF s
<1>5. Added(s)
  BY <1>2, <1>3, <1>4 DEF Added
<1> QED
  BY <1>5 DEF s

\* The commit of a decision or of a materialization.
LEMMA CommitRowAdds ==
    ASSUME DbTypes, NEW o \in Ob, NEW g \in Nat, NEW word \in {"pending", "materialized"},
           CommitRow(o, Row(word, g))
    PROVE  /\ \E s \in States : Added(s)
           /\ Head0'.ob[o] = Row(word, g) /\ Head0'.note = Head0.note
           /\ wal'[1] = wal[1]
<1> DEFINE rows == [Head0.ob EXCEPT ![o] = Row(word, g)]
           s == [Head0 EXCEPT !.ob = rows]
<1>1. Head0 \in States
  BY WalFacts
<1>2. /\ rows \in [Ob -> [state : {"none", "pending", "materialized", "cleared"}, g : Nat]]
      /\ rows[o] = Row(word, g) /\ \A x \in Ob : x # o => rows[x] = Head0.ob[x]
  <2>1. Row(word, g) \in [state : {"none", "pending", "materialized", "cleared"}, g : Nat]
    BY DEF Row
  <2>2. Head0.ob \in [Ob -> [state : {"none", "pending", "materialized", "cleared"}, g : Nat]]
    BY <1>1 DEF States
  <2> QED
    BY <2>1, <2>2
<1>3. wal' = Append(wal, s)
  <2>1. wal' = Append(wal, [Head0 EXCEPT !.ob[o] = Row(word, g)])
    BY DEF CommitRow
  <2>2. [Head0 EXCEPT !.ob[o] = Row(word, g)] = s
    BY <1>1 DEF States
  <2> QED
    BY <2>1, <2>2
<1>4. s \in States /\ s.ob = rows /\ s.note = Head0.note
  BY <1>1, <1>2 DEF States
<1>5. Row(word, g).state # "none" /\ Row(word, g).state # "cleared"
  BY DEF Row
<1> HIDE DEF rows
<1>6. Added(s)
  BY <1>2, <1>3, <1>5, RowsAdded
<1>7. Head0' = s /\ wal'[1] = wal[1]
  BY <1>3, <1>4, AddedFacts
<1> QED
  BY <1>2, <1>4, <1>6, <1>7

\* The commit of a caller's write.
LEMMA NoteAdds ==
    ASSUME DbTypes, NEW c \in Client, wal' = Append(wal, [Head0 EXCEPT !.note = @ \cup {c}])
    PROVE  /\ \E s \in States : Added(s)
           /\ Head0'.note = Head0.note \cup {c} /\ wal'[1] = wal[1]
<1> DEFINE s == [Head0 EXCEPT !.note = @ \cup {c}]
<1>1. Head0 \in States
  BY WalFacts
<1>2. s \in States /\ s.ob = Head0.ob /\ s.note = Head0.note \cup {c}
  BY <1>1 DEF States
<1> HIDE DEF s
<1>3. wal' = Append(wal, s)
  BY DEF s
<1>4. \A x \in Client \cup Ob : Holds(Head0, x) => Holds(s, x)
  BY <1>2 DEF Holds
<1>5. Added(s)
  BY <1>2, <1>3, <1>4 DEF Added
<1>6. Head0' = s /\ wal'[1] = wal[1]
  BY <1>2, <1>3, AddedFacts
<1> QED
  BY <1>2, <1>5, <1>6

\* What the registrations up to a reported generation owed is on the disk.
LEMMA ClearableIsDurable ==
    ASSUME TypeInv, EffectInv, outbox # <<>>, NEW o \in Clearable(Head(outbox))
    PROVE  o \in Ob /\ \A d \in DirsOf[o] : entry[o][d] = "durable"
<1>1. o \in Ob /\ tracked[o] # 0 /\ tracked[o] <= Head(outbox)
  BY DEF Clearable
<1>2. outbox \in Seq(Nat) /\ tracked[o] \in Nat
  BY <1>1 DEF TypeInv, PortTypes, GenTypes
<1>3. 1 \in 1..Len(outbox) /\ Head(outbox) = outbox[1] /\ outbox[1] \in Nat
  <2>1. Len(outbox) \in Nat \ {0}
    BY <1>2, EmptySeq
  <2>2. Head(outbox) = outbox[1]
    BY <1>2
  <2> QED
    BY <1>2, <2>1, <2>2, ElementOfSeq
<1>4. ASSUME NEW d \in DirsOf[o], entry[o][d] # "durable"
      PROVE  FALSE
  <2>1. Owed(o, d)
    BY <1>1, <1>4 DEF EffectInv
  <2>2. PICK r \in 1..tracked[o] : Waiting(Command("register", r, d))
    BY <1>4, <2>1 DEF Owed
  <2>3. outbox[1] < r
    BY <1>3, <2>2 DEF Waiting, Command
  <2> QED
    BY <1>1, <1>2, <1>3, <2>3
<1> QED
  BY <1>1, <1>4

\* clearSynced forgets only what is durable.
LEMMA ClearAdds ==
    ASSUME TypeInv, EffectInv, outbox # <<>>, Clear(Head(outbox))
    PROVE  /\ wal' = wal \/ \E s \in States : Added(s)
           /\ wal'[1] = wal[1] /\ Head0'.note = Head0.note
<1> DEFINE g == Head(outbox)
           rows == [o \in Ob |->
             IF o \in Clearable(g) /\ Head0.ob[o].state = "materialized" /\ Head0.ob[o].g <= g
               THEN Row("cleared", 0) ELSE Head0.ob[o]]
<1>1. DbTypes /\ Head0 \in States
  BY WalFacts DEF TypeInv
<1>2. CASE wal' = wal
  BY <1>2 DEF Head0
<1>3. CASE wal' = Append(wal, [Head0 EXCEPT !.ob = rows])
  <2>1. /\ rows \in [Ob -> [state : {"none", "pending", "materialized", "cleared"}, g : Nat]]
        /\ \A o \in Ob : Head0.ob[o].state # "none" => rows[o].state # "none"
    BY <1>1 DEF States, Row
  <2>2. \A o \in Ob : rows[o].state = "cleared" => Head0.ob[o].state = "cleared"
                                                    \/ o \in Clearable(g)
    OBVIOUS
  <2>3. \A o \in Ob : rows[o].state = "cleared" =>
           \/ Head0.ob[o].state = "cleared"
           \/ \A d \in DirsOf[o] : entry[o][d] = "durable"
    BY <2>2, ClearableIsDurable
  <2> HIDE DEF rows
  <2>4. Added([Head0 EXCEPT !.ob = rows])
    BY <1>1, <1>3, <2>1, <2>3, RowsAdded
  <2>5. [Head0 EXCEPT !.ob = rows] \in States
        /\ [Head0 EXCEPT !.ob = rows].note = Head0.note
    BY <1>1, <2>1 DEF States
  <2>6. Head0' = [Head0 EXCEPT !.ob = rows] /\ wal'[1] = wal[1]
    BY <1>1, <1>3, <2>5, AddedFacts
  <2> QED
    BY <2>4, <2>5, <2>6
<1> QED
  BY <1>2, <1>3 DEF Clear

\* A start sets open rows back and forgets none.
LEMMA BootAdds ==
    ASSUME TypeInv, Boot
    PROVE  /\ wal' = wal \/ \E s \in States : Added(s)
           /\ wal'[1] = wal[1] /\ Head0'.note = Head0.note
<1> DEFINE rows == [o \in Ob |-> IF o \in Open THEN Row("pending", 0) ELSE Head0.ob[o]]
<1>1. DbTypes /\ Head0 \in States
  BY WalFacts DEF TypeInv
<1>2. CASE wal' = wal
  BY <1>2 DEF Head0
<1>3. CASE wal' = Append(wal, [Head0 EXCEPT !.ob = rows])
  <2>1. /\ rows \in [Ob -> [state : {"none", "pending", "materialized", "cleared"}, g : Nat]]
        /\ \A o \in Ob : Head0.ob[o].state # "none" => rows[o].state # "none"
        /\ \A o \in Ob : rows[o].state = "cleared" => Head0.ob[o].state = "cleared"
    BY <1>1 DEF States, Row
  <2> HIDE DEF rows
  <2>2. Added([Head0 EXCEPT !.ob = rows])
    BY <1>1, <1>3, <2>1, RowsAdded
  <2>3. [Head0 EXCEPT !.ob = rows] \in States
        /\ [Head0 EXCEPT !.ob = rows].note = Head0.note
    BY <1>1, <2>1 DEF States
  <2>4. Head0' = [Head0 EXCEPT !.ob = rows] /\ wal'[1] = wal[1]
    BY <1>1, <1>3, <2>3, AddedFacts
  <2> QED
    BY <2>2, <2>3, <2>4
<1> QED
  BY <1>2, <1>3 DEF Boot, BootWith

\* Every step but a barrier and a power loss is a commit or leaves the database.
LEMMA StepStore ==
    ASSUME TypeInv, EffectInv, [Next]_vars
    PROVE  Grown \/ (Lost /\ PowerLoss) \/ (Hardened /\ Barrier)
<1>1. DbTypes /\ gen \in Nat
  BY DEF TypeInv, PortTypes
<1>2. CASE UNCHANGED vars
  BY <1>2 DEF vars, disk, Grown
<1>3. ASSUME NEW c \in Client, Write(c)
      PROVE  Grown
  BY <1>1, <1>3, NoteAdds DEF Write, Grown
<1>4. ASSUME NEW o \in Ob, Decide(o)
      PROVE  Grown
  BY <1>1, <1>4, CommitRowAdds DEF Decide, Grown
<1>5. ASSUME NEW o \in Ob, Retry(o) \/ HandlerFails(o) \/ Redo(o)
      PROVE  Grown
  BY <1>5 DEF Retry, HandlerFails, Redo, disk, Grown
<1>6. ASSUME NEW o \in Ob, NEW d \in Dir, Touch(o, d)
      PROVE  Grown
  BY <1>6 DEF Touch, Grown
<1>7. ASSUME NEW o \in Ob, Materialize(o)
      PROVE  Grown
  <2>1. gen' \in Nat
    <3>1. DirsOf[o] \in SUBSET Dir
      BY ObAssumption
    <3>2. PICK cmds \in Seq(CommandSet) : Numbered(cmds)
      BY <1>1, <1>7, <3>1, RegisterEachSends DEF Materialize, MaterializeUnder
    <3> QED
      BY <1>1, <3>2, LenProperties DEF Numbered
  <2> QED
    BY <1>1, <1>7, <2>1, CommitRowAdds DEF Materialize, MaterializeUnder, Grown
<1>8. ASSUME NEW k \in 0..Len(inbox), StartPass(k)
      PROVE  Grown
  BY <1>8 DEF StartPass, Grown
<1>9. CASE Sample \/ Post \/ Death \/ Exit \/ Spawn \/ Crash
  BY <1>9 DEF Sample, Post, PostAs, Death, Exit, ExitWith, Spawn, Crash, disk, Grown
<1>10. CASE Barrier
  BY <1>10 DEF Barrier, Hardened
<1>11. CASE OnSynced
  <2>1. wal' = wal \/ \E s \in States : Added(s)
    BY <1>11, ClearAdds DEF OnSynced
  <2> QED
    BY <1>11, <2>1 DEF OnSynced, Grown
<1>12. CASE PowerLoss
  BY <1>12 DEF PowerLoss, Lost
<1>13. CASE Boot
  <2>1. wal' = wal \/ \E s \in States : Added(s)
    BY <1>13, BootAdds
  <2> QED
    BY <1>13, <2>1 DEF Boot, BootWith, Grown
<1> QED
  BY <1>2, <1>3, <1>4, <1>5, <1>6, <1>7, <1>8, <1>9, <1>10, <1>11, <1>12, <1>13
     DEF Next, MainStep, HandlerStep, PassStep

-----------------------------------------------------------------------------
\* Picking keeps a port in order.
LEMMA PickedIsOrdered ==
    ASSUME NEW s \in Seq(CommandSet), Ordered(s), NEW kept \in SUBSET (1..Len(s))
    PROVE  /\ Picked(s, kept) \in Seq(CommandSet) /\ Ordered(Picked(s, kept))
           /\ \A m \in 1..Len(Picked(s, kept)) : \E i \in kept : Picked(s, kept)[m] = s[i]
           /\ \A i \in kept : Among(s[i], Picked(s, kept))
<1> DEFINE t == Picked(s, kept)
<1>1. /\ t \in Seq(CommandSet)
      /\ \A m \in 1..Len(t) : \E i \in kept : t[m] = s[i]
      /\ \A i \in kept : \E m \in 1..Len(t) : t[m] = s[i]
      /\ \A l, m \in 1..Len(t) : l < m =>
            \E i, k \in kept : i < k /\ t[l] = s[i] /\ t[m] = s[k]
  BY PickedKeepsOrder
<1> HIDE DEF t
<1>2. Ordered(t)
  <2> SUFFICES ASSUME NEW l \in 1..Len(t), NEW m \in 1..Len(t), l < m,
                      t[m].type = "register"
               PROVE  t[l].g < t[m].g
    BY DEF Ordered
  <2>1. PICK i \in kept, k \in kept : i < k /\ t[l] = s[i] /\ t[m] = s[k]
    BY <1>1
  <2> QED
    BY <2>1 DEF Ordered
<1>3. \A i \in kept : Among(s[i], t)
  BY <1>1 DEF Among
<1> QED
  BY <1>1, <1>2, <1>3 DEF t

\* A sequence cut in two.
LEMMA SplitSequence ==
    ASSUME NEW S, NEW s \in Seq(S), NEW k \in 0..Len(s)
    PROVE  /\ SubSeq(s, 1, k) \in Seq(S) /\ Len(SubSeq(s, 1, k)) = k
           /\ \A i \in 1..k : SubSeq(s, 1, k)[i] = s[i]
           /\ SubSeq(s, k + 1, Len(s)) \in Seq(S)
           /\ Len(SubSeq(s, k + 1, Len(s))) = Len(s) - k
           /\ \A i \in 1..(Len(s) - k) : SubSeq(s, k + 1, Len(s))[i] = s[k + i]
<1>1. Len(s) \in Nat /\ k \in Nat /\ \A i \in 1..Len(s) : s[i] \in S
  BY LenProperties, ElementOfSeq
<1>2. /\ SubSeq(s, 1, k) \in Seq(S) /\ Len(SubSeq(s, 1, k)) = k
      /\ \A i \in 1..k : SubSeq(s, 1, k)[i] = s[i]
  <2>1. \A i \in 1..k : s[i] \in S
    BY <1>1
  <2>2. /\ SubSeq(s, 1, k) \in Seq(S)
        /\ Len(SubSeq(s, 1, k)) = IF 1 <= k THEN k - 1 + 1 ELSE 0
        /\ \A i \in 1..(k - 1 + 1) : SubSeq(s, 1, k)[i] = s[1 + i - 1]
    BY <1>1, <2>1, SubSeqProperties
  <2>3. \A i \in 1..k : i \in 1..(k - 1 + 1) /\ 1 + i - 1 = i
    BY <1>1
  <2>4. \A i \in 1..k : SubSeq(s, 1, k)[i] = s[i]
    BY <2>2, <2>3
  <2>5. Len(SubSeq(s, 1, k)) = k
    BY <1>1, <2>2
  <2> QED
    BY <2>2, <2>4, <2>5
<1>3. /\ SubSeq(s, k + 1, Len(s)) \in Seq(S)
      /\ Len(SubSeq(s, k + 1, Len(s))) = Len(s) - k
      /\ \A i \in 1..(Len(s) - k) : SubSeq(s, k + 1, Len(s))[i] = s[k + i]
  <2>1. (\A i \in (k + 1)..Len(s) : s[i] \in S) /\ k + 1 \in Int /\ Len(s) \in Int
    BY <1>1
  <2>2. /\ SubSeq(s, k + 1, Len(s)) \in Seq(S)
        /\ Len(SubSeq(s, k + 1, Len(s))) = IF k + 1 <= Len(s) THEN Len(s) - (k + 1) + 1 ELSE 0
        /\ \A i \in 1..(Len(s) - (k + 1) + 1) :
              SubSeq(s, k + 1, Len(s))[i] = s[(k + 1) + i - 1]
    BY <2>1, SubSeqProperties
  <2>3. \A i \in 1..(Len(s) - k) : i \in 1..(Len(s) - (k + 1) + 1) /\ (k + 1) + i - 1 = k + i
    BY <1>1
  <2>4. \A i \in 1..(Len(s) - k) : SubSeq(s, k + 1, Len(s))[i] = s[k + i]
    BY <2>2, <2>3
  <2>5. Len(SubSeq(s, k + 1, Len(s))) = Len(s) - k
    BY <1>1, <2>2
  <2> QED
    BY <2>2, <2>4, <2>5
<1> QED
  BY <1>2, <1>3

\* A handler sends a flush or nothing.
LEMMA HandleSends ==
    ASSUME PortTypes, NEW o \in Ob, Handle(o)
    PROVE  \E cmds : Numbered(cmds)
<1>1. CASE o \in Purge
  BY <1>1, SendNextSends DEF Handle, AwaitDecision, PortTypes
<1>2. CASE o \notin Purge
  BY <1>2, SilenceSends DEF Handle, Act, queues
<1> QED
  BY <1>1, <1>2

\* The steps that send, perhaps nothing, and leave the worker's reports alone.
Sends ==
    /\ \E cmds : Numbered(cmds)
    /\ UNCHANGED <<life, outbox>> /\ pass'.target = pass.target

\* The steps of the main thread, the sample and the barrier only send.
LEMMA StepSends ==
    ASSUME TypeInv,
           \/ UNCHANGED vars \/ Sample \/ Barrier
           \/ \E c \in Client : Write(c)
           \/ \E o \in Ob : \/ Decide(o) \/ Retry(o) \/ HandlerFails(o) \/ Redo(o)
                            \/ Materialize(o) \/ \E d \in Dir : Touch(o, d)
    PROVE  Sends
<1>1. PortTypes /\ gen \in Nat /\ pass \in PassSet
  BY DEF TypeInv, PortTypes, PassTypes
<1>2. CASE UNCHANGED vars
  BY <1>1, <1>2, SilenceSends DEF vars, queues, worker, Sends
<1>3. CASE Sample
  BY <1>1, <1>3, SilenceSends DEF Sample, queues, Sends, PassSet
<1>4. CASE Barrier
  BY <1>1, <1>4, SilenceSends DEF Barrier, queues, Sends, PassSet
<1>5. ASSUME NEW c \in Client, Write(c)
      PROVE  Sends
  BY <1>1, <1>5, SendNextSends DEF Write, Sends
<1>6. ASSUME NEW o \in Ob, Decide(o) \/ Retry(o) \/ Redo(o)
      PROVE  Sends
  BY <1>1, <1>6, HandleSends DEF Decide, Retry, Redo, Sends
<1>7. ASSUME NEW o \in Ob, HandlerFails(o)
      PROVE  Sends
  <2>1. \E cmds : Numbered(cmds)
    <3>1. CASE UNCHANGED <<gen, out, inbox>>
      BY <1>1, <3>1, SilenceSends
    <3>2. CASE RegisterEach(DirsOf[o] \ work[o].left)
      <4>1. DirsOf[o] \ work[o].left \in SUBSET Dir
        BY ObAssumption
      <4> QED
        BY <1>1, <3>2, <4>1, RegisterEachSends
    <3> QED
      BY <1>7, <3>1, <3>2 DEF HandlerFails
  <2> QED
    BY <1>7, <2>1 DEF HandlerFails, Sends
<1>8. ASSUME NEW o \in Ob, Materialize(o)
      PROVE  Sends
  <2>1. DirsOf[o] \in SUBSET Dir
    BY ObAssumption
  <2>2. \E cmds : Numbered(cmds)
    BY <1>1, <1>8, <2>1, RegisterEachSends DEF Materialize, MaterializeUnder
  <2> QED
    BY <1>8, <2>2 DEF Materialize, MaterializeUnder, Sends
<1>9. ASSUME NEW o \in Ob, NEW d \in Dir, Touch(o, d)
      PROVE  Sends
  BY <1>1, <1>9, SilenceSends DEF Touch, queues, worker, Sends
<1> QED
  BY <1>2, <1>3, <1>4, <1>5, <1>6, <1>7, <1>8, <1>9 DEF Sends

-----------------------------------------------------------------------------
\* A registration that is waiting goes on waiting, or the pass that starts has it.
Kept ==
    \A r \in Nat : \A d \in Dir : Waiting(Command("register", r, d)) =>
        \/ Waiting(Command("register", r, d))'
        \/ \E k \in 0..Len(inbox) : StartPass(k) /\ d \in {SubSeq(inbox, 1, k)[i].dir : i \in 1..k}

Ports == PortTypes' /\ OrderInv' /\ PassTypes' /\ gen' >= gen /\ Kept

\* Ports, for the steps that only send.
LEMMA SendsPorts ==
    ASSUME TypeInv, OrderInv, Sends, pass' \in PassSet, Commits' \in Nat,
           pass'.proven # None => pass'.proven <= Commits', pass'.observed <= Commits',
           pass'.at # "idle" => Len(outbox) < MaxPosted
    PROVE  Ports
<1>1. PortTypes /\ pass \in PassSet /\ pass.target <= gen
  BY DEF TypeInv, PassTypes
<1>2. PICK cmds : Numbered(cmds)
  BY DEF Sends
<1>3. /\ PortTypes' /\ OrderInv' /\ gen' >= gen
      /\ \A e : Waiting(e) => Waiting(e)'
  BY <1>1, <1>2, SentKeeps DEF Sends
<1>4. pass'.target <= gen'
  <2>1. gen \in Nat /\ gen' \in Nat /\ pass.target \in Nat /\ pass'.target = pass.target
    BY <1>1, <1>3 DEF PortTypes, PassSet, Sends
  <2> QED
    BY <1>1, <1>3, <2>1
<1>5. PassTypes'
  BY <1>4 DEF PassTypes, Sends
<1>6. Kept
  BY <1>3 DEF Kept
<1> QED
  BY <1>3, <1>5, <1>6 DEF Ports

\* Ports, for the start of a pass: what it takes has smaller generations than what
\* it leaves.
LEMMA StartPassPorts ==
    ASSUME TypeInv, OrderInv, NEW k \in 0..Len(inbox), StartPass(k), Commits' = Commits
    PROVE  Ports
<1> DEFINE first == SubSeq(inbox, 1, k)
           rest == SubSeq(inbox, k + 1, Len(inbox))
<1>1. /\ PortTypes /\ gen \in Nat /\ inbox \in Seq(CommandSet) /\ Len(inbox) \in Nat
      /\ pass \in PassSet /\ pass.target \in Nat /\ pass.target <= gen
      /\ k \in Nat
  BY LenProperties DEF TypeInv, PortTypes, PassTypes, PassSet
<1>2. \A i \in 1..Len(inbox) : /\ inbox[i] \in CommandSet /\ inbox[i].g \in Nat
                               /\ inbox[i].g <= gen
  <2> TAKE i \in 1..Len(inbox)
  <2>1. inbox[i] \in CommandSet
    BY <1>1, ElementOfSeq
  <2> QED
    BY <1>1, <2>1 DEF PortTypes, CommandSet
<1>3. /\ first \in Seq(CommandSet) /\ Len(first) = k
      /\ \A i \in 1..k : first[i] = inbox[i]
      /\ rest \in Seq(CommandSet) /\ Len(rest) = Len(inbox) - k
      /\ \A i \in 1..(Len(inbox) - k) : rest[i] = inbox[k + i]
  BY <1>1, SplitSequence
<1>4. pass' = [pass EXCEPT !.at = "sample", !.target = Largest(pass.target, first)]
  BY DEF StartPass
<1>5. inbox' = rest /\ UNCHANGED <<gen, out, life, outbox>> /\ Len(outbox) < MaxPosted
  BY DEF StartPass, queues
<1> HIDE DEF first, rest
<1>6. \A i \in 1..Len(first) : first[i].g <= gen /\ i \in 1..Len(inbox) /\ first[i] = inbox[i]
  BY <1>1, <1>2, <1>3
<1>7. /\ Largest(pass.target, first) \in Nat /\ Largest(pass.target, first) <= gen
      /\ \/ Largest(pass.target, first) = pass.target
         \/ \E i \in 1..Len(first) : Largest(pass.target, first) = first[i].g
  BY <1>1, <1>3, <1>6, LargestIsLargest
<1>8. /\ pass' \in PassSet /\ pass'.target = Largest(pass.target, first)
      /\ pass'.proven = pass.proven /\ pass'.observed = pass.observed
  BY <1>1, <1>4, <1>7 DEF PassSet
<1>9. \A i \in 1..Len(rest) : k + i \in 1..Len(inbox) /\ rest[i] = inbox[k + i]
  BY <1>1, <1>3
<1>10. PortTypes'
  <2>1. \A i \in 1..Len(rest) : rest[i].g <= gen
    BY <1>2, <1>9
  <2> QED
    BY <1>1, <1>3, <1>5, <2>1 DEF PortTypes
<1>11. Ordered(rest)
  <2> SUFFICES ASSUME NEW i \in 1..Len(rest), NEW j \in 1..Len(rest), i < j,
                      rest[j].type = "register"
               PROVE  rest[i].g < rest[j].g
    BY DEF Ordered
  <2>1. i \in Nat /\ j \in Nat /\ k + i < k + j
    BY <1>1
  <2> QED
    BY <1>9, <2>1 DEF OrderInv, Ordered
<1>12. ASSUME NEW j \in 1..Len(rest), rest[j].type = "register"
       PROVE  pass'.target < rest[j].g
  <2>1. k + j \in 1..Len(inbox) /\ rest[j] = inbox[k + j]
    BY <1>9
  <2>2. pass.target < rest[j].g
    BY <1>12, <2>1 DEF OrderInv
  <2>3. ASSUME NEW i \in 1..Len(first)
        PROVE  first[i].g < rest[j].g
    <3>1. i \in 1..Len(inbox) /\ first[i] = inbox[i] /\ i <= k
      BY <1>1, <1>3, <1>6
    <3>2. i < k + j
      BY <1>1, <3>1
    <3> QED
      BY <1>12, <2>1, <3>1, <3>2 DEF OrderInv, Ordered
  <2> QED
    BY <1>7, <1>8, <2>2, <2>3
<1>13. OrderInv'
  BY <1>5, <1>11, <1>12 DEF OrderInv, Ordered
<1>14. PassTypes'
  BY <1>5, <1>7, <1>8 DEF TypeInv, PassTypes
<1>15. Kept
  <2> SUFFICES ASSUME NEW r \in Nat, NEW d \in Dir, Waiting(Command("register", r, d)),
                      ~(d \in {first[i].dir : i \in 1..k})
               PROVE  Waiting(Command("register", r, d))'
    BY DEF Kept, first
  <2> DEFINE e == Command("register", r, d)
  <2>0. e.dir = d
    BY DEF Command
  <2>1. Among(e, out) /\ (\A i \in 1..Len(outbox) : outbox[i] < e.g)
        /\ (life = "live" => Among(e, inbox))
    BY DEF Waiting
  <2> HIDE DEF e
  <2>2. ASSUME NEW i \in 1..Len(inbox), inbox[i] = e
        PROVE  Among(e, rest)
    <3>1. ~(i \in 1..k)
      BY <1>3, <2>0, <2>2
    <3>2. i - k \in 1..Len(rest)
      BY <1>1, <1>3, <3>1
    <3>3. rest[i - k] = inbox[k + (i - k)] /\ k + (i - k) = i
      BY <1>1, <1>9, <3>2
    <3> QED
      BY <2>2, <3>2, <3>3 DEF Among
  <2>3. life = "live" => Among(e, rest)
    BY <2>1, <2>2 DEF Among
  <2> QED
    BY <1>5, <2>1, <2>3 DEF Waiting, Among, e
<1> QED
  BY <1>1, <1>5, <1>10, <1>13, <1>14, <1>15 DEF Ports

\* Ports, for a report: every registration in the port is beyond its target.
LEMMA PostPorts ==
    ASSUME TypeInv, OrderInv, Post, Commits' = Commits
    PROVE  Ports
<1>1. /\ PortTypes /\ gen \in Nat /\ outbox \in Seq(Nat) /\ Len(outbox) \in Nat
      /\ pass \in PassSet /\ pass.target \in Nat /\ pass.target <= gen
      /\ pass.observed \in Nat /\ pass.observed <= Commits /\ Len(outbox) < MaxPosted
      /\ MaxPosted \in Nat /\ life = "live"
  BY LenProperties, BoundAssumption DEF TypeInv, PortTypes, PassTypes, PassSet, Post, PostAs
<1>2. /\ pass' \in PassSet /\ pass'.target = pass.target /\ pass'.at = "idle"
      /\ pass'.proven = pass.observed /\ pass'.observed = 0
  BY <1>1 DEF Post, PostAs, PassSet
<1>3. outbox' = Append(outbox, pass.target) /\ UNCHANGED <<gen, out, inbox, life>>
  BY DEF Post, PostAs, queues
<1>4. /\ outbox' \in Seq(Nat) /\ Len(outbox') = Len(outbox) + 1
      /\ \A i \in 1..Len(outbox) : outbox'[i] = outbox[i]
      /\ outbox'[Len(outbox) + 1] = pass.target
  BY <1>1, <1>3, AppendProperties
<1>5. \A i \in 1..Len(outbox') : \/ i \in 1..Len(outbox) /\ outbox'[i] = outbox[i]
                                 \/ outbox'[i] = pass.target
  BY <1>1, <1>4
<1>6. PortTypes'
  <2>1. \A i \in 1..Len(outbox') : outbox'[i] <= gen
    BY <1>1, <1>5 DEF PortTypes
  <2>2. Len(outbox') <= MaxPosted
    BY <1>1, <1>4
  <2> QED
    BY <1>1, <1>3, <1>4, <2>1, <2>2 DEF PortTypes
<1>7. OrderInv'
  BY <1>2, <1>3 DEF OrderInv, Ordered
<1>8. PassTypes'
  <2>1. Commits \in Nat
    BY WalFacts DEF TypeInv
  <2> QED
    BY <1>1, <1>2, <1>3, <2>1 DEF PassTypes
<1>9. Kept
  <2> SUFFICES ASSUME NEW r \in Nat, NEW d \in Dir, Waiting(Command("register", r, d))
               PROVE  Waiting(Command("register", r, d))'
    BY DEF Kept
  <2> DEFINE e == Command("register", r, d)
  <2>0. e.type = "register"
    BY DEF Command
  <2>1. Among(e, out) /\ (\A i \in 1..Len(outbox) : outbox[i] < e.g) /\ Among(e, inbox)
    BY <1>1 DEF Waiting
  <2> HIDE DEF e
  <2>2. pass.target < e.g
    BY <2>0, <2>1 DEF OrderInv, Among
  <2>3. \A i \in 1..Len(outbox') : outbox'[i] < e.g
    BY <1>5, <2>1, <2>2
  <2> QED
    BY <1>3, <2>1, <2>3 DEF Waiting, Among, e
<1> QED
  BY <1>1, <1>3, <1>6, <1>7, <1>8, <1>9 DEF Ports

\* The type of a worker that has run no pass.
LEMMA FreshIsAPass == Fresh \in PassSet
<1>1. Fresh.at = "idle" /\ Fresh.target = 0 /\ Fresh.proven = None /\ Fresh.observed = 0
  BY DEF Fresh
<1> QED
  BY DEF Fresh, PassSet

\* A worker without messages and without a pass.
LEMMA EmptyPorts ==
    ASSUME gen' \in Nat, gen' = 0 \/ gen' >= gen, Commits' \in Nat,
           inbox' = <<>>, pass' = Fresh
    PROVE  /\ inbox' \in Seq(CommandSet) /\ Ordered(inbox)' /\ Len(inbox') = 0
           /\ PassTypes'
<1>1. inbox' \in Seq(CommandSet) /\ Len(inbox') = 0
  BY EmptySeq
<1>2. Ordered(inbox)'
  BY <1>1 DEF Ordered
<1>3. PassTypes'
  <2>1. pass' \in PassSet
    BY FreshIsAPass
  <2>2. /\ pass'.target = 0 /\ pass'.proven = None /\ pass'.observed = 0
        /\ pass'.at = "idle"
    BY DEF Fresh
  <2> QED
    BY <2>1, <2>2 DEF PassTypes
<1> QED
  BY <1>1, <1>2, <1>3

\* Ports, for the death of the worker: registrations are still outstanding.
LEMMA DeathPorts ==
    ASSUME TypeInv, OrderInv, Death, Commits' = Commits
    PROVE  Ports
<1>1. /\ PortTypes /\ gen \in Nat /\ Commits \in Nat
  BY WalFacts DEF TypeInv, PortTypes
<1>2. /\ inbox' = <<>> /\ pass' = Fresh /\ life' = "dead"
      /\ UNCHANGED <<gen, out, outbox>>
  BY DEF Death, queues
<1>3. inbox' \in Seq(CommandSet) /\ Ordered(inbox)' /\ Len(inbox') = 0 /\ PassTypes'
  BY <1>1, <1>2, EmptyPorts
<1>4. PortTypes'
  BY <1>1, <1>2, <1>3 DEF PortTypes
<1>5. OrderInv'
  BY <1>2, <1>3 DEF OrderInv, Ordered
<1>6. Kept
  BY <1>2 DEF Kept, Waiting, Among
<1> QED
  BY <1>1, <1>2, <1>3, <1>4, <1>5, <1>6 DEF Ports

\* Ports of a process that is gone.
LEMMA GonePorts ==
    ASSUME ProcessGone, Commits' \in Nat
    PROVE  PortTypes' /\ OrderInv' /\ PassTypes'
<1>1. /\ gen' = 0 /\ out' = <<>> /\ inbox' = <<>> /\ outbox' = <<>> /\ pass' = Fresh
  BY DEF ProcessGone
<1>2. inbox' \in Seq(CommandSet) /\ Ordered(inbox)' /\ Len(inbox') = 0 /\ PassTypes'
  BY <1>1, EmptyPorts
<1>3. out' \in Seq(CommandSet) /\ Len(out') = 0 /\ outbox' \in Seq(Nat) /\ Len(outbox') = 0
  BY <1>1, EmptySeq
<1>4. PortTypes'
  BY <1>1, <1>2, <1>3, BoundAssumption DEF PortTypes
<1>5. OrderInv'
  BY <1>2, <1>3 DEF OrderInv, Ordered
<1> QED
  BY <1>2, <1>4, <1>5

\* Ports, for a start.
LEMMA BootPorts ==
    ASSUME TypeInv, ProcessInv, OrderInv, Boot, Commits' >= Commits, Commits' \in Nat
    PROVE  Ports
<1>1. /\ PortTypes /\ gen \in Nat /\ Commits \in Nat
  BY WalFacts DEF TypeInv, PortTypes
<1>2. /\ inbox = <<>> /\ pass = Fresh /\ out = <<>> /\ outbox = <<>>
      /\ UNCHANGED <<gen, out, inbox, outbox, pass>>
  BY DEF Boot, BootWith, queues, ProcessInv
<1>3. inbox' \in Seq(CommandSet) /\ Ordered(inbox)' /\ Len(inbox') = 0 /\ PassTypes'
  BY <1>1, <1>2, EmptyPorts
<1>4. PortTypes'
  BY <1>1, <1>2, <1>3 DEF PortTypes
<1>5. OrderInv'
  BY <1>2, <1>3 DEF OrderInv, Ordered
<1>6. Kept
  <2>1. Len(out) = 0
    BY <1>2, EmptySeq
  <2> QED
    BY <2>1 DEF Kept, Waiting, Among
<1> QED
  BY <1>1, <1>2, <1>3, <1>4, <1>5, <1>6 DEF Ports

\* What is picked from the outstanding commands keeps its order and its bounds.
LEMMA PickedOut ==
    ASSUME PortTypes, OrderInv, NEW kept \in SUBSET (1..Len(out)), out' = Picked(out, kept)
    PROVE  /\ out' \in Seq(CommandSet) /\ Ordered(out)'
           /\ \A i \in 1..Len(out') : out'[i].g <= gen
           /\ \A j \in 1..Len(out') : out'[j].type = "register" => 0 < out'[j].g
           /\ \A i \in kept : Among(out[i], out')
<1>1. out \in Seq(CommandSet) /\ Ordered(out)
  BY DEF PortTypes, OrderInv
<1>2. /\ out' \in Seq(CommandSet) /\ Ordered(out')
      /\ \A m \in 1..Len(out') : \E i \in kept : out'[m] = out[i]
      /\ \A i \in kept : Among(out[i], out')
  BY <1>1, PickedIsOrdered
<1>3. \A m \in 1..Len(out') : out'[m].g <= gen
  BY <1>2 DEF PortTypes
<1>4. \A j \in 1..Len(out') : out'[j].type = "register" => 0 < out'[j].g
  BY <1>2 DEF OrderInv
<1> QED
  BY <1>2, <1>3, <1>4 DEF Ordered

\* Ports, for a report that is read: what waits is beyond its generation.
LEMMA OnSyncedPorts ==
    ASSUME TypeInv, OrderInv, OnSynced, Commits' >= Commits, Commits' \in Nat
    PROVE  Ports
<1>1. /\ PortTypes /\ gen \in Nat /\ Commits \in Nat /\ outbox \in Seq(Nat) /\ outbox # <<>>
      /\ pass \in PassSet /\ out \in Seq(CommandSet)
  BY WalFacts DEF TypeInv, PortTypes, PassTypes, OnSynced
<1>2. UNCHANGED <<gen, inbox, life, pass>> /\ outbox' = Tail(outbox)
  BY DEF OnSynced
<1>3. /\ outbox' \in Seq(Nat) /\ Len(outbox') = Len(outbox) - 1 /\ Len(outbox) \in Nat \ {0}
      /\ \A i \in 1..Len(outbox') : i + 1 \in 1..Len(outbox) /\ outbox'[i] = outbox[i + 1]
      /\ Head(outbox) = outbox[1] /\ 1 \in 1..Len(outbox)
  <2>1. /\ Tail(outbox) \in Seq(Nat) /\ Len(Tail(outbox)) = Len(outbox) - 1
        /\ \A i \in 1..Len(Tail(outbox)) : Tail(outbox)[i] = outbox[i + 1]
    BY <1>1, HeadTailProperties
  <2>2. Len(outbox) \in Nat \ {0}
    BY <1>1, EmptySeq
  <2>3. Head(outbox) = outbox[1]
    BY <1>1
  <2> QED
    BY <1>2, <2>1, <2>2, <2>3
<1> DEFINE kept == {i \in DOMAIN out : out[i].g > Head(outbox)}
<1>4. DOMAIN out = 1..Len(out)
  BY <1>1, LenProperties
<1>5. kept \in SUBSET (1..Len(out)) /\ out' = Picked(out, kept)
  BY <1>4 DEF OnSynced, Unacknowledged
<1>6. /\ out' \in Seq(CommandSet) /\ Ordered(out)'
      /\ \A i \in 1..Len(out') : out'[i].g <= gen
      /\ \A j \in 1..Len(out') : out'[j].type = "register" => 0 < out'[j].g
      /\ \A i \in kept : Among(out[i], out')
  <2> HIDE DEF kept
  <2> QED
    BY <1>1, <1>5, PickedOut
<1>7. PortTypes'
  <2>1. \A i \in 1..Len(outbox') : outbox'[i] <= gen
    BY <1>3 DEF TypeInv, PortTypes
  <2>2. MaxPosted \in Nat /\ Len(outbox) <= MaxPosted
    BY <1>1, BoundAssumption DEF PortTypes
  <2>3. Len(outbox') <= MaxPosted
    BY <1>3, <2>2
  <2> QED
    BY <1>1, <1>2, <1>3, <1>6, <2>1, <2>3 DEF PortTypes
<1>8. OrderInv'
  BY <1>2, <1>6 DEF OrderInv, Ordered
<1>9. PassTypes'
  <2>1. pass.at # "idle" => Len(outbox') < MaxPosted
    BY <1>3, BoundAssumption DEF TypeInv, PassTypes
  <2>2. pass.proven # None => pass.proven \in Nat /\ pass.proven <= Commits'
    BY <1>1 DEF TypeInv, PassTypes, PassSet
  <2>3. pass.observed <= Commits'
    BY <1>1 DEF TypeInv, PassTypes, PassSet
  <2> QED
    BY <1>2, <2>1, <2>2, <2>3 DEF TypeInv, PassTypes
<1>10. Kept
  <2> SUFFICES ASSUME NEW r \in Nat, NEW d \in Dir, Waiting(Command("register", r, d))
               PROVE  Waiting(Command("register", r, d))'
    BY DEF Kept
  <2> DEFINE e == Command("register", r, d)
  <2>0. e.g = r
    BY DEF Command
  <2>1. Among(e, out) /\ (\A i \in 1..Len(outbox) : outbox[i] < e.g)
        /\ (life = "live" => Among(e, inbox))
    BY DEF Waiting
  <2> HIDE DEF e
  <2>2. PICK i \in 1..Len(out) : out[i] = e
    BY <2>1 DEF Among
  <2>3. Head(outbox) < e.g /\ Head(outbox) \in Nat
    BY <1>1, <1>3, <2>1, ElementOfSeq
  <2>4. i \in kept
    BY <1>4, <2>0, <2>2, <2>3
  <2>5. Among(e, out')
    <3> HIDE DEF kept
    <3> QED
      BY <1>6, <2>2, <2>4
  <2>6. \A m \in 1..Len(outbox') : outbox'[m] < e.g
    BY <1>3, <2>1
  <2> QED
    BY <1>2, <2>1, <2>5, <2>6 DEF Waiting, Among, e
<1> QED
  BY <1>1, <1>2, <1>7, <1>8, <1>9, <1>10 DEF Ports

\* Ports, for the exit of the worker: onDeath keeps the registrations.
LEMMA ExitPorts ==
    ASSUME TypeInv, ProcessInv, OrderInv, Exit, Commits' = Commits
    PROVE  Ports
<1>1. /\ PortTypes /\ gen \in Nat /\ Commits \in Nat /\ out \in Seq(CommandSet)
      /\ life = "dead" /\ inbox = <<>> /\ pass = Fresh
  BY WalFacts DEF TypeInv, PortTypes, Exit, ExitWith, ProcessInv
<1>2. /\ UNCHANGED <<gen, inbox, pass>> /\ outbox' = <<>> /\ life' = "none"
      /\ out' = Registrations
  BY DEF Exit, ExitWith
<1> DEFINE kept == {i \in DOMAIN out : out[i].type = "register"}
<1>3. DOMAIN out = 1..Len(out)
  BY <1>1, LenProperties
<1>4. kept \in SUBSET (1..Len(out)) /\ out' = Picked(out, kept)
  BY <1>2, <1>3 DEF Registrations
<1>5. /\ out' \in Seq(CommandSet) /\ Ordered(out)'
      /\ \A i \in 1..Len(out') : out'[i].g <= gen
      /\ \A j \in 1..Len(out') : out'[j].type = "register" => 0 < out'[j].g
      /\ \A i \in kept : Among(out[i], out')
  <2> HIDE DEF kept
  <2> QED
    BY <1>1, <1>4, PickedOut
<1>6. inbox' \in Seq(CommandSet) /\ Ordered(inbox)' /\ Len(inbox') = 0 /\ PassTypes'
  BY <1>1, <1>2, EmptyPorts
<1>7. PortTypes'
  <2>1. outbox' \in Seq(Nat) /\ Len(outbox') = 0
    BY <1>2, EmptySeq
  <2> QED
    BY <1>1, <1>2, <1>5, <1>6, <2>1, BoundAssumption DEF PortTypes
<1>8. OrderInv'
  BY <1>2, <1>5, <1>6 DEF OrderInv, Ordered
<1>9. Kept
  <2> SUFFICES ASSUME NEW r \in Nat, NEW d \in Dir, Waiting(Command("register", r, d))
               PROVE  Waiting(Command("register", r, d))'
    BY DEF Kept
  <2> DEFINE e == Command("register", r, d)
  <2>0. e.type = "register"
    BY DEF Command
  <2>1. Among(e, out)
    BY DEF Waiting
  <2> HIDE DEF e
  <2>2. PICK i \in 1..Len(out) : out[i] = e
    BY <2>1 DEF Among
  <2>3. i \in kept
    BY <1>3, <2>0, <2>2
  <2>4. Among(e, out')
    <3> HIDE DEF kept
    <3> QED
      BY <1>5, <2>2, <2>3
  <2>5. Len(outbox') = 0
    BY <1>2, EmptySeq
  <2> QED
    BY <1>2, <2>4, <2>5 DEF Waiting, Among, e
<1> QED
  BY <1>1, <1>2, <1>6, <1>7, <1>8, <1>9 DEF Ports

\* Ports, for a new worker: it is sent what is outstanding.
LEMMA SpawnPorts ==
    ASSUME TypeInv, ProcessInv, OrderInv, Spawn, Commits' = Commits
    PROVE  Ports
<1>1. /\ PortTypes /\ gen \in Nat /\ Commits \in Nat /\ out \in Seq(CommandSet)
      /\ life = "none" /\ pass = Fresh /\ Len(out) \in Nat
  BY WalFacts, LenProperties DEF TypeInv, PortTypes, Spawn, ProcessInv
<1> DEFINE e == Command("flush", gen, None)
<1>2. e \in CommandSet /\ e.g = gen /\ e.type = "flush"
  BY <1>1 DEF Command, CommandSet
<1>3. /\ UNCHANGED <<gen, outbox, pass>> /\ life' = "live"
      /\ out' = Append(out, e) /\ inbox' = out'
  BY DEF Spawn
<1> HIDE DEF e
<1>4. /\ out' \in Seq(CommandSet) /\ Len(out') = Len(out) + 1
      /\ \A i \in 1..Len(out) : out'[i] = out[i]
      /\ out'[Len(out) + 1] = e
  BY <1>1, <1>2, <1>3, AppendProperties
<1>5. \A i \in 1..Len(out') : \/ i \in 1..Len(out) /\ out'[i] = out[i]
                              \/ i = Len(out) + 1 /\ out'[i] = e
  BY <1>1, <1>4
<1>6. \A i \in 1..Len(out') : out'[i].g <= gen
  BY <1>1, <1>2, <1>5 DEF PortTypes
<1>7. \A i \in 1..Len(out') : out'[i].type = "register" => 0 < out'[i].g
  BY <1>2, <1>5 DEF OrderInv
<1>8. Ordered(out')
  <2> SUFFICES ASSUME NEW i \in 1..Len(out'), NEW j \in 1..Len(out'), i < j,
                      out'[j].type = "register"
               PROVE  out'[i].g < out'[j].g
    BY DEF Ordered
  <2>1. j \in 1..Len(out) /\ out'[j] = out[j]
    BY <1>2, <1>5
  <2>2. i \in 1..Len(out) /\ out'[i] = out[i]
    BY <1>1, <1>4, <2>1
  <2> QED
    BY <2>1, <2>2 DEF OrderInv, Ordered
<1>9. PortTypes'
  BY <1>1, <1>3, <1>4, <1>6 DEF PortTypes
<1>10. pass.target = 0
  BY <1>1 DEF Fresh
<1>11. OrderInv'
  BY <1>3, <1>7, <1>8, <1>10 DEF OrderInv, Ordered
<1>12. PassTypes'
  <2>1. Fresh.at = "idle" /\ Fresh.target = 0 /\ Fresh.proven = None /\ Fresh.observed = 0
    BY DEF Fresh
  <2> QED
    BY <1>1, <1>3, <2>1 DEF TypeInv, PassTypes
<1>13. Kept
  <2> SUFFICES ASSUME NEW r \in Nat, NEW d \in Dir, Waiting(Command("register", r, d))
               PROVE  Waiting(Command("register", r, d))'
    BY DEF Kept
  <2> DEFINE c == Command("register", r, d)
  <2>1. Among(c, out) /\ (\A i \in 1..Len(outbox) : outbox[i] < c.g)
    BY DEF Waiting
  <2> HIDE DEF c
  <2>2. Among(c, out')
    BY <1>1, <1>4, <2>1 DEF Among
  <2> QED
    BY <1>3, <2>1, <2>2 DEF Waiting, Among, c
<1> QED
  BY <1>1, <1>3, <1>9, <1>11, <1>12, <1>13 DEF Ports

\* Every step keeps the order of the ports, and registrations in them until a pass
\* has them or the process is gone.
LEMMA StepPorts ==
    ASSUME TypeInv, ProcessInv, WalInv, OrderInv, EffectInv, [Next]_vars
    PROVE  /\ PortTypes' /\ OrderInv' /\ PassTypes'
           /\ Ports \/ ProcessGone
<1>1. /\ DbTypes /\ pass \in PassSet /\ Commits \in Nat /\ gen \in Nat
      /\ pass.proven # None => pass.proven \in Nat /\ pass.proven <= Commits
      /\ pass.observed \in Nat /\ pass.observed <= Commits
      /\ pass.at # "idle" => Len(outbox) < MaxPosted
  BY WalFacts DEF TypeInv, PassTypes, PassSet, PortTypes
<1>2. Grown \/ (Lost /\ PowerLoss) \/ (Hardened /\ Barrier)
  BY StepStore
<1>3. DbTypes' => Commits' \in Nat
  <2>1. DbTypes' => Len(wal') \in Nat \ {0} /\ base' \in Nat
    BY EmptySeq DEF DbTypes
  <2>2. Commits' = base' + Len(wal') - 1
    BY DEF Commits
  <2> QED
    BY <2>1, <2>2
<1>4. /\ Commits' \in Nat
      /\ Grown \/ Hardened => Commits' >= Commits
  <2>1. wal' \in Seq(States) /\ wal' # <<>> /\ base' \in Nat
    BY <1>1, <1>2, StoreFacts
  <2>2. Len(wal') \in Nat \ {0}
    BY <2>1, EmptySeq
  <2>3. Commits' = base' + Len(wal') - 1
    BY DEF Commits
  <2>4. Commits' \in Nat
    BY <2>1, <2>2, <2>3
  <2>5. CASE Grown
    BY <1>1, <2>4, <2>5, GrownFacts
  <2>6. CASE Hardened
    <3>1. Len(wal') = 1 /\ base' = Commits
      BY <2>6 DEF Hardened
    <3> QED
      BY <1>1, <2>3, <2>4, <3>1
  <2> QED
    BY <2>4, <2>5, <2>6
<1>5. CASE ProcessGone
  BY <1>4, <1>5, GonePorts
<1>6. CASE ~ProcessGone /\ Commits' >= Commits
  <2>1. CASE \/ UNCHANGED vars \/ Sample \/ Barrier
             \/ \E c \in Client : Write(c)
             \/ \E o \in Ob : \/ Decide(o) \/ Retry(o) \/ HandlerFails(o) \/ Redo(o)
                              \/ Materialize(o) \/ \E d \in Dir : Touch(o, d)
    <3>1. Sends
      BY <2>1, StepSends
    <3>2. /\ pass' \in PassSet
          /\ pass'.proven # None => pass'.proven <= Commits'
          /\ pass'.observed <= Commits'
          /\ pass'.at # "idle" => Len(outbox) < MaxPosted
      <4>1. CASE pass' = pass
        BY <1>1, <1>4, <1>6, <4>1
      <4>2. CASE Sample
        <5>1. pass' \in PassSet /\ pass'.proven = pass.proven /\ pass'.observed = Commits
          BY <1>1, <4>2 DEF Sample, PassSet
        <5>2. pass.at # "idle"
          BY <4>2 DEF Sample
        <5> QED
          BY <1>1, <1>4, <1>6, <5>1, <5>2
      <4>3. CASE Barrier
        <5>1. /\ pass' \in PassSet /\ pass'.proven = pass.proven
              /\ pass'.observed = pass.observed /\ pass.at # "idle"
          BY <1>1, <4>3 DEF Barrier, PassSet
        <5> QED
          BY <1>1, <1>4, <1>6, <5>1
      <4> QED
        BY <2>1, <4>1, <4>2, <4>3 DEF vars, worker, Write, Decide, Retry, HandlerFails,
           Redo, Materialize, MaterializeUnder, Touch
    <3>3. Ports
      BY <1>4, <3>1, <3>2, SendsPorts
    <3> QED
      BY <3>3 DEF Ports
  <2>2. CASE \E k \in 0..Len(inbox) : StartPass(k)
    <3>1. Commits' = Commits
      BY <2>2 DEF StartPass, Commits
    <3>2. Ports
      BY <2>2, <3>1, StartPassPorts
    <3> QED
      BY <3>2 DEF Ports
  <2>3. CASE Post
    <3>1. Commits' = Commits
      BY <2>3 DEF Post, PostAs, disk, Commits
    <3> QED
      BY <2>3, <3>1, PostPorts DEF Ports
  <2>4. CASE Death
    <3>1. Commits' = Commits
      BY <2>4 DEF Death, disk, Commits
    <3> QED
      BY <2>4, <3>1, DeathPorts DEF Ports
  <2>5. CASE OnSynced
    BY <1>4, <1>6, <2>5, OnSyncedPorts DEF Ports
  <2>6. CASE Exit
    <3>1. Commits' = Commits
      BY <2>6 DEF Exit, ExitWith, disk, Commits
    <3> QED
      BY <2>6, <3>1, ExitPorts DEF Ports
  <2>7. CASE Spawn
    <3>1. Commits' = Commits
      BY <2>7 DEF Spawn, disk, Commits
    <3> QED
      BY <2>7, <3>1, SpawnPorts DEF Ports
  <2>8. CASE Boot
    BY <1>4, <1>6, <2>8, BootPorts DEF Ports
  <2>9. ~Crash /\ ~PowerLoss
    BY <1>6 DEF Crash, PowerLoss
  <2> QED
    BY <2>1, <2>2, <2>3, <2>4, <2>5, <2>6, <2>7, <2>8, <2>9
       DEF Next, MainStep, HandlerStep, PassStep
<1>7. PowerLoss => ProcessGone
  BY DEF PowerLoss
<1> QED
  BY <1>2, <1>4, <1>5, <1>6, <1>7

-----------------------------------------------------------------------------
\* The directory entries.
Entries ==
    /\ entry' = [o \in Ob |-> entry'[o]]
    /\ \A o \in Ob : entry'[o] \in [DirsOf[o] -> {"old", "cached", "durable"}]
    /\ \A o \in Ob : \A d \in DirsOf[o] :
          /\ entry[o][d] = "durable" => entry'[o][d] = "durable"
          /\ entry'[o][d] # "old" => entry[o][d] # "old" \/ Touch(o, d)
          /\ entry[o][d] # "old" => entry'[o][d] # "old" \/ PowerLoss

\* Every step keeps the entries that are durable; only an effect changes an old one.
LEMMA StepEntry ==
    ASSUME TypeInv, [Next]_vars
    PROVE  Entries
<1>1. /\ entry = [o \in Ob |-> entry[o]]
      /\ \A o \in Ob : entry[o] \in [DirsOf[o] -> {"old", "cached", "durable"}]
  BY DEF TypeInv, DbTypes
<1>2. CASE entry' = entry
  BY <1>1, <1>2 DEF Entries
<1>3. ASSUME NEW o \in Ob, NEW d \in Dir, Touch(o, d)
      PROVE  /\ entry' = [x \in Ob |-> entry'[x]]
             /\ \A x \in Ob : entry'[x] \in [DirsOf[x] -> {"old", "cached", "durable"}]
             /\ \A x \in Ob : \A c \in DirsOf[x] :
                   /\ entry[x][c] = "durable" => entry'[x][c] = "durable"
                   /\ entry'[x][c] # "old" => entry[x][c] # "old" \/ Touch(x, c)
                   /\ entry[x][c] # "old" => entry'[x][c] # "old"
  <2>1. entry' = [entry EXCEPT ![o][d] = IF @ = "old" THEN "cached" ELSE @]
    BY <1>3 DEF Touch
  <2>2. \A x \in Ob : x # o => entry'[x] = entry[x]
    BY <1>1, <2>1
  <2>3. entry'[o] = [entry[o] EXCEPT ![d] = IF @ = "old" THEN "cached" ELSE @]
    BY <1>1, <2>1
  <2>4. entry' = [x \in Ob |-> entry'[x]]
    BY <1>1, <2>1
  <2>5. entry'[o] \in [DirsOf[o] -> {"old", "cached", "durable"}]
    BY <1>1, <2>3
  <2>6. \A c \in DirsOf[o] : /\ c # d => entry'[o][c] = entry[o][c]
                             /\ c = d => entry'[o][c] = IF entry[o][c] = "old" THEN "cached"
                                                        ELSE entry[o][c]
    BY <1>1, <2>3
  <2> QED
    BY <1>1, <1>3, <2>2, <2>4, <2>5, <2>6
<1>4. ASSUME NEW dirs,
             entry' = [o \in Ob |-> [d \in DirsOf[o] |->
                 IF d \in dirs /\ entry[o][d] = "cached" THEN "durable" ELSE entry[o][d]]]
      PROVE  /\ entry' = [x \in Ob |-> entry'[x]]
             /\ \A x \in Ob : entry'[x] \in [DirsOf[x] -> {"old", "cached", "durable"}]
             /\ \A x \in Ob : \A c \in DirsOf[x] :
                   /\ entry[x][c] = "durable" => entry'[x][c] = "durable"
                   /\ entry'[x][c] # "old" => entry[x][c] # "old"
                   /\ entry[x][c] # "old" => entry'[x][c] # "old"
  <2>1. \A x \in Ob : entry'[x] = [d \in DirsOf[x] |->
                 IF d \in dirs /\ entry[x][d] = "cached" THEN "durable" ELSE entry[x][d]]
    BY <1>4
  <2>2. \A x \in Ob : \A c \in DirsOf[x] : entry'[x][c] =
                 IF c \in dirs /\ entry[x][c] = "cached" THEN "durable" ELSE entry[x][c]
    BY <2>1
  <2>3. entry' = [x \in Ob |-> entry'[x]]
    BY <1>4
  <2>4. \A x \in Ob : entry'[x] \in [DirsOf[x] -> {"old", "cached", "durable"}]
    <3> TAKE x \in Ob
    <3>1. \A c \in DirsOf[x] : entry[x][c] \in {"old", "cached", "durable"}
      BY <1>1
    <3> QED
      BY <2>1, <3>1
  <2> QED
    BY <2>2, <2>3, <2>4
<1>5. ASSUME NEW kept, entry' = [o \in Ob |-> [d \in DirsOf[o] |->
                     IF entry[o][d] # "cached" THEN entry[o][d]
                     ELSE IF <<o, d>> \in kept THEN "durable" ELSE "old"]]
      PROVE  /\ entry' = [x \in Ob |-> entry'[x]]
             /\ \A x \in Ob : entry'[x] \in [DirsOf[x] -> {"old", "cached", "durable"}]
             /\ \A x \in Ob : \A c \in DirsOf[x] :
                   /\ entry[x][c] = "durable" => entry'[x][c] = "durable"
                   /\ entry'[x][c] # "old" => entry[x][c] # "old"
  <2>1. \A x \in Ob : entry'[x] = [d \in DirsOf[x] |->
                 IF entry[x][d] # "cached" THEN entry[x][d]
                 ELSE IF <<x, d>> \in kept THEN "durable" ELSE "old"]
    BY <1>5
  <2>2. \A x \in Ob : \A c \in DirsOf[x] : entry'[x][c] =
                 IF entry[x][c] # "cached" THEN entry[x][c]
                 ELSE IF <<x, c>> \in kept THEN "durable" ELSE "old"
    BY <2>1
  <2>3. entry' = [x \in Ob |-> entry'[x]]
    BY <1>5
  <2>4. \A x \in Ob : entry'[x] \in [DirsOf[x] -> {"old", "cached", "durable"}]
    <3> TAKE x \in Ob
    <3>1. \A c \in DirsOf[x] : entry[x][c] \in {"old", "cached", "durable"}
      BY <1>1
    <3> QED
      BY <2>1, <3>1
  <2> QED
    BY <2>2, <2>3, <2>4
<1>6. ASSUME NEW k \in 0..Len(inbox), StartPass(k)
      PROVE  \E dirs : entry' = [o \in Ob |-> [d \in DirsOf[o] |->
                 IF d \in dirs /\ entry[o][d] = "cached" THEN "durable" ELSE entry[o][d]]]
  BY <1>6 DEF StartPass
<1>7. PowerLoss => \E kept : entry' = [o \in Ob |-> [d \in DirsOf[o] |->
                     IF entry[o][d] # "cached" THEN entry[o][d]
                     ELSE IF <<o, d>> \in kept THEN "durable" ELSE "old"]]
  BY DEF PowerLoss
<1>8. \/ entry' = entry \/ PowerLoss
      \/ \E o \in Ob : \E d \in Dir : Touch(o, d)
      \/ \E k \in 0..Len(inbox) : StartPass(k)
  BY DEF vars, disk, Next, MainStep, HandlerStep, PassStep, Write, Decide, Retry, Redo,
     HandlerFails, Materialize, MaterializeUnder, Sample, Barrier, Post, PostAs, Death,
     OnSynced, Exit, ExitWith, Spawn, Crash, Boot, BootWith
<1>9. ASSUME NEW o \in Ob, NEW d \in Dir, Touch(o, d)
      PROVE  Entries
  BY <1>3, <1>9 DEF Entries
<1>10. ASSUME NEW k \in 0..Len(inbox), StartPass(k)
       PROVE  Entries
  BY <1>4, <1>6, <1>10 DEF Entries
<1>11. CASE PowerLoss
  BY <1>5, <1>7, <1>11 DEF Entries
<1> QED
  BY <1>2, <1>8, <1>9, <1>10, <1>11

-----------------------------------------------------------------------------
\* The fields of the main thread.
WorkSet == [at : {"idle", "await", "act"}, left : SUBSET Dir]

\* What a handler does up to its first await.
LEMMA HandleFacts ==
    ASSUME TypeInv, NEW o \in Ob, Handle(o)
    PROVE  /\ work' \in [Ob -> WorkSet] /\ turn' \in Ob \cup {None}
           /\ \A x \in Ob : x # o => work'[x] = work[x]
           /\ o \in Purge => /\ work'[o].at = "await"
                             /\ gen' = gen + 1
                             /\ waiters' = waiters \cup {[g |-> gen + 1, who |-> o]}
           /\ o \notin Purge => /\ work'[o] = Acting(o)
                                /\ gen' = gen /\ waiters' = waiters
<1>1. work \in [Ob -> WorkSet] /\ turn \in Ob \cup {None}
  BY DEF TypeInv, MainTypes, WorkSet
<1>2. CASE o \in Purge
  <2>1. [Resting EXCEPT !.at = "await"] \in WorkSet /\ [Resting EXCEPT !.at = "await"].at = "await"
    BY DEF Resting, WorkSet
  <2> QED
    BY <1>1, <1>2, <2>1 DEF Handle, AwaitDecision, SendNext
<1>3. CASE o \notin Purge
  <2>1. Acting(o) \in WorkSet
    BY ObAssumption DEF Acting, WorkSet
  <2> QED
    BY <1>1, <1>3, <2>1 DEF Handle, Act, queues
<1> QED
  BY <1>2, <1>3

\* GenTypes: a new waiter or a tracked row has a generation just taken.
LEMMA StepGen ==
    ASSUME TypeInv, [Next]_vars, PortTypes', gen' >= gen \/ ProcessGone
    PROVE  GenTypes'
<1>1. /\ gen \in Nat /\ gen' \in Nat /\ tracked \in [Ob -> Nat]
      /\ \A o \in Ob : tracked[o] <= gen
      /\ waiters \subseteq [g : Nat \ {0}, who : Client \cup Ob]
      /\ \A w \in waiters : w.g \in Nat /\ w.g <= gen
  BY DEF TypeInv, PortTypes, GenTypes
<1>2. CASE ProcessGone
  BY <1>1, <1>2 DEF ProcessGone, GenTypes
<1>3. CASE gen' >= gen
  <2>1. ASSUME waiters' \subseteq waiters
               \/ \E x \in Client \cup Ob : /\ waiters' = waiters \cup {[g |-> gen + 1, who |-> x]}
                                            /\ gen' = gen + 1
        PROVE  /\ waiters' \subseteq [g : Nat \ {0}, who : Client \cup Ob]
               /\ \A w \in waiters' : w.g <= gen'
    <3>1. CASE waiters' \subseteq waiters
      BY <1>1, <1>3, <3>1
    <3>2. ASSUME NEW x \in Client \cup Ob, gen' = gen + 1,
                 waiters' = waiters \cup {[g |-> gen + 1, who |-> x]}
          PROVE  /\ waiters' \subseteq [g : Nat \ {0}, who : Client \cup Ob]
                 /\ \A w \in waiters' : w.g <= gen'
      <4>1. gen + 1 \in Nat \ {0}
        BY <1>1
      <4> QED
        BY <1>1, <3>2, <4>1
    <3> QED
      BY <2>1, <3>1, <3>2
  <2>2. ASSUME \A o \in Ob : tracked'[o] \in {tracked[o], 0, gen'},
               tracked' = [o \in Ob |-> tracked'[o]]
        PROVE  tracked' \in [Ob -> Nat] /\ \A o \in Ob : tracked'[o] <= gen'
    <3>1. \A o \in Ob : tracked'[o] \in Nat /\ tracked'[o] <= gen'
      BY <1>1, <1>3, <2>2
    <3> QED
      BY <2>2, <3>1
  <2>3. waiters' \subseteq waiters
        \/ \E x \in Client \cup Ob : /\ waiters' = waiters \cup {[g |-> gen + 1, who |-> x]}
                                     /\ gen' = gen + 1
    <3>1. ASSUME NEW o \in Ob, Handle(o)
          PROVE  \/ waiters' \subseteq waiters
                 \/ \E x \in Client \cup Ob : /\ waiters' = waiters \cup {[g |-> gen + 1, who |-> x]}
                                              /\ gen' = gen + 1
      BY <3>1, HandleFacts
    <3>2. ASSUME NEW c \in Client, Write(c)
          PROVE  waiters' = waiters \cup {[g |-> gen + 1, who |-> c]} /\ gen' = gen + 1
      BY <3>2 DEF Write, SendNext
    <3>3. \/ waiters' \subseteq waiters
          \/ \E o \in Ob : Handle(o)
          \/ \E c \in Client : Write(c)
      BY DEF vars, queues, Next, MainStep, HandlerStep, PassStep, Decide, Retry, Redo,
         Touch, HandlerFails, Materialize, MaterializeUnder, StartPass, Sample, Barrier,
         Post, PostAs, Death, OnSynced, Exit, ExitWith, Spawn, Crash, PowerLoss,
         ProcessGone, Boot, BootWith
    <3> QED
      BY <3>1, <3>2, <3>3
  <2>4. tracked' = [o \in Ob |-> tracked'[o]]
        /\ \A o \in Ob : tracked'[o] \in {tracked[o], 0, gen'}
    <3>1. ASSUME NEW o \in Ob, Materialize(o)
          PROVE  tracked' = [x \in Ob |-> tracked'[x]]
                 /\ \A x \in Ob : tracked'[x] \in {tracked[x], 0, gen'}
      BY <1>1, <3>1 DEF Materialize, MaterializeUnder
    <3>2. ASSUME OnSynced
          PROVE  tracked' = [x \in Ob |-> tracked'[x]]
                 /\ \A x \in Ob : tracked'[x] \in {tracked[x], 0, gen'}
      BY <1>1, <3>2 DEF OnSynced, Clear
    <3>3. CASE Crash \/ PowerLoss
      BY <1>1, <3>3 DEF Crash, PowerLoss, ProcessGone
    <3>4. \/ tracked' = tracked
          \/ \E o \in Ob : Materialize(o)
          \/ OnSynced \/ Crash \/ PowerLoss
      BY DEF vars, owner, Next, MainStep, HandlerStep, PassStep, Decide, Retry, Redo, Touch,
         HandlerFails, Write, StartPass, Sample, Barrier, Post, PostAs,
         Death, Exit, ExitWith, Spawn, Boot, BootWith
    <3> QED
      BY <1>1, <3>1, <3>2, <3>3, <3>4
  <2> QED
    BY <2>1, <2>2, <2>3, <2>4 DEF GenTypes
<1> QED
  BY <1>2, <1>3

\* MainTypes, field by field.
LEMMA StepMain ==
    ASSUME TypeInv, [Next]_vars
    PROVE  MainTypes'
<1>1. /\ up \in BOOLEAN /\ turn \in Ob \cup {None} /\ mishaps \in 0..MaxMishaps
      /\ work \in [Ob -> WorkSet] /\ redo \subseteq Ob
      /\ told \in [Client -> {"idle", "waiting", "answered", "unavailable", "lost"}]
      /\ life \in {"none", "live", "dead"} /\ MaxMishaps \in Nat
  BY BoundAssumption DEF TypeInv, MainTypes, WorkSet
<1>2. Mishap => mishaps' \in 0..MaxMishaps
  BY <1>1 DEF Mishap
<1>3. Resting \in WorkSet /\ \A o \in Ob : Acting(o) \in WorkSet
  BY ObAssumption DEF Resting, Acting, WorkSet
<1>4. up' \in BOOLEAN /\ life' \in {"none", "live", "dead"}
  BY <1>1 DEF vars, worker, owner, Next, MainStep, HandlerStep, PassStep, Decide, Retry,
     Redo, Touch, HandlerFails, Materialize, MaterializeUnder, Write, StartPass, Sample,
     Barrier, Post, PostAs, Death, OnSynced, Exit, ExitWith, Spawn, Crash, PowerLoss,
     ProcessGone, Boot, BootWith
<1>5. mishaps' \in 0..MaxMishaps
  BY <1>1, <1>2 DEF vars, Next, MainStep, HandlerStep, PassStep, Decide, Retry, Redo, Touch,
     HandlerFails, Materialize, MaterializeUnder, Write, StartPass, Sample, Barrier, Post,
     PostAs, Death, OnSynced, Clear, Exit, ExitWith, Spawn, Crash, PowerLoss, ProcessGone,
     Boot, BootWith
<1>6. told' \in [Client -> {"idle", "waiting", "answered", "unavailable", "lost"}]
  BY <1>1 DEF vars, Next, MainStep, HandlerStep, PassStep, Decide, Retry, Redo, Touch,
     HandlerFails, Materialize, MaterializeUnder, Write, StartPass, Sample, Barrier, Post,
     PostAs, Death, OnSynced, Exit, ExitWith, Spawn, Crash, PowerLoss, ProcessGone, Boot,
     BootWith
<1>7. redo' \subseteq Ob
  BY <1>1 DEF vars, owner, Next, MainStep, HandlerStep, PassStep, Decide, Retry, Redo, Done,
     Touch, HandlerFails, Materialize, MaterializeUnder, Write, StartPass, Sample, Barrier,
     Post, PostAs, Death, OnSynced, Exit, ExitWith, Spawn, Crash, PowerLoss, ProcessGone,
     Boot, BootWith, Open
<1>8. turn' \in Ob \cup {None} /\ work' \in [Ob -> WorkSet]
  <2>1. ASSUME NEW o \in Ob, Handle(o)
        PROVE  turn' \in Ob \cup {None} /\ work' \in [Ob -> WorkSet]
    BY <2>1, HandleFacts
  <2>2. ASSUME NEW o \in Ob, Done(o)
        PROVE  turn' \in Ob \cup {None} /\ work' \in [Ob -> WorkSet]
    BY <1>1, <1>3, <2>2 DEF Done
  <2>3. ASSUME NEW o \in Ob, NEW d \in Dir, Touch(o, d)
        PROVE  turn' \in Ob \cup {None} /\ work' \in [Ob -> WorkSet]
    BY <1>1, <2>3 DEF Touch, WorkSet
  <2>4. CASE UNCHANGED <<turn, work>>
    BY <1>1, <2>4
  <2>5. CASE OnSynced \/ Exit
    BY <1>1, <1>3, <2>5 DEF OnSynced, Exit, ExitWith
  <2>6. CASE ProcessGone
    BY <1>3, <2>6 DEF ProcessGone
  <2>7. \/ UNCHANGED <<turn, work>>
        \/ \E o \in Ob : Handle(o) \/ Done(o) \/ \E d \in Dir : Touch(o, d)
        \/ OnSynced \/ Exit \/ ProcessGone
    BY DEF vars, owner, Next, MainStep, HandlerStep, PassStep, Decide, Retry, Redo,
       HandlerFails, Materialize, MaterializeUnder, Write, StartPass, Sample, Barrier, Post,
       PostAs, Death, Spawn, Crash, PowerLoss, Boot, BootWith
  <2> QED
    BY <2>1, <2>2, <2>3, <2>4, <2>5, <2>6, <2>7
<1> QED
  BY <1>4, <1>5, <1>6, <1>7, <1>8 DEF MainTypes, WorkSet

\* ProcessInv: only a start acts when the process is gone.
LEMMA StepProcess ==
    ASSUME TypeInv, ProcessInv, [Next]_vars
    PROVE  ProcessInv'
<1>1. CASE ~up /\ ~ProcessGone
  <2>1. UNCHANGED vars \/ Boot
    BY <1>1 DEF Next, MainStep, HandlerStep, PassStep, Decide, Retry, Redo, Serving, Touch,
       HandlerFails, Materialize, MaterializeUnder, Write, StartPass, Sample, Barrier, Post,
       PostAs, Death, OnSynced, Exit, ExitWith, Spawn, Crash, PowerLoss, ProcessInv
  <2> QED
    BY <1>1, <2>1 DEF vars, queues, owner, worker, Boot, BootWith, ProcessInv
<1>2. CASE ProcessGone
  BY <1>2 DEF ProcessGone, ProcessInv
<1>3. CASE up /\ ~ProcessGone
  <2>1. up' = up
    BY <1>3 DEF vars, Next, MainStep, HandlerStep, PassStep, Decide, Retry, Redo, Touch,
       HandlerFails, Materialize, MaterializeUnder, Write, StartPass, Sample, Barrier, Post,
       PostAs, Death, OnSynced, Exit, ExitWith, Spawn, Crash, PowerLoss, Boot, BootWith
  <2>2. CASE life # "live"
    BY <1>3, <2>2 DEF vars, worker, queues, ProcessInv, Next, MainStep, HandlerStep,
       PassStep, Decide, Retry, Redo, Handle, AwaitDecision, Act, SendNext, SendAll,
       RegisterEach, Touch, HandlerFails, Materialize, MaterializeUnder, Write, StartPass,
       Sample, Barrier, Post, PostAs, Death, OnSynced, Exit, ExitWith, Spawn, Crash,
       PowerLoss, Boot, BootWith
  <2>3. CASE life = "live"
    BY <1>3, <2>1, <2>3 DEF vars, worker, ProcessInv, Next, MainStep, HandlerStep, PassStep,
       Decide, Retry, Redo, Touch, HandlerFails, Materialize, MaterializeUnder, Write,
       StartPass, Sample, Barrier, Post, PostAs, Death, OnSynced, Exit, ExitWith, Spawn,
       Crash, PowerLoss, Boot, BootWith
  <2> QED
    BY <2>2, <2>3
<1> QED
  BY <1>1, <1>2, <1>3

-----------------------------------------------------------------------------
\* What is on the disk.
LEMMA StepDisk ==
    ASSUME TypeInv, WalInv, EffectInv, [Next]_vars
    PROVE  /\ DbTypes' /\ WalInv'
           /\ \A x \in Client \cup Ob : Holds(wal[1], x) => Holds(wal[1], x)'
           /\ ~PowerLoss => /\ base' >= base
                            /\ \A x \in Client \cup Ob : Holds(Head0, x) => Holds(Head0, x)'
<1>1. DbTypes
  BY DEF TypeInv
<1>2. Grown \/ (Lost /\ PowerLoss) \/ (Hardened /\ Barrier)
  BY StepStore
<1>3. Entries
  BY StepEntry
<1>4. /\ wal' \in Seq(States) /\ wal' # <<>> /\ base' \in Nat /\ WalInv'
      /\ \A x \in Client \cup Ob : Holds(wal[1], x) => Holds(wal[1], x)'
  BY <1>1, <1>2, StoreFacts
<1>5. ~PowerLoss => /\ base' >= base
                    /\ \A x \in Client \cup Ob : Holds(Head0, x) => Holds(Head0, x)'
  <2>1. CASE Grown
    BY <1>1, <2>1, GrownFacts DEF DbTypes
  <2>2. CASE Hardened
    <3>1. /\ Len(wal) \in Nat \ {0} /\ Commits = base + Len(wal) - 1 /\ base \in Nat
          /\ Head0 \in States
      BY <1>1, WalFacts DEF DbTypes
    <3>2. wal' = <<Head0>> /\ base' = Commits
      BY <2>2 DEF Hardened
    <3>3. Head0' = Head0
      BY <1>1, <2>2, <3>1, <3>2, StoreFacts
    <3>4. \A x \in Client \cup Ob : Holds(Head0, x) => Holds(Head0, x)'
      BY <3>3 DEF Holds
    <3> QED
      BY <3>1, <3>2, <3>4
  <2> QED
    BY <1>2, <2>1, <2>2
<1> QED
  BY <1>3, <1>4, <1>5 DEF DbTypes, Entries

\* ForgottenIsDurable: only clearSynced forgets a row, and of those it clears every
\* entry is durable.
LEMMA StepForgotten ==
    ASSUME TypeInv, EffectInv, ForgottenIsDurable, [Next]_vars
    PROVE  ForgottenIsDurable'
<1>1. DbTypes /\ Len(wal) \in Nat \ {0} /\ Head0 = wal[Len(wal)]
  BY WalFacts DEF TypeInv, Head0
<1>2. Grown \/ Lost \/ Hardened
  BY StepStore
<1>3. \A o \in Ob : \A d \in DirsOf[o] : entry[o][d] = "durable" => entry'[o][d] = "durable"
  BY StepEntry DEF Entries
<1>4. SUFFICES ASSUME NEW i \in 1..Len(wal'), NEW o \in Ob, wal'[i].ob[o].state = "cleared"
               PROVE  \A d \in DirsOf[o] : entry'[o][d] = "durable"
  BY DEF ForgottenIsDurable
<1>5. ASSUME NEW j \in 1..Len(wal), wal'[i] = wal[j]
      PROVE  \A d \in DirsOf[o] : entry'[o][d] = "durable"
  BY <1>3, <1>4, <1>5 DEF ForgottenIsDurable
<1>6. CASE wal' = wal
  BY <1>5, <1>6
<1>7. CASE \E j \in 1..Len(wal) : wal' = <<wal[j]>>
  <2>1. PICK j \in 1..Len(wal) : wal' = <<wal[j]>>
    BY <1>7
  <2>2. i = 1 /\ wal'[i] = wal[j]
    BY <1>4, <2>1
  <2> QED
    BY <1>5, <2>2
<1>8. CASE Hardened
  <2>1. wal' = <<wal[Len(wal)]>> /\ Len(wal) \in 1..Len(wal)
    BY <1>1, <1>8 DEF Hardened
  <2> QED
    BY <1>7, <2>1
<1>9. ASSUME NEW s \in States, Added(s)
      PROVE  \A d \in DirsOf[o] : entry'[o][d] = "durable"
  <2>1. /\ Len(wal') = Len(wal) + 1 /\ \A j \in 1..Len(wal) : wal'[j] = wal[j]
        /\ wal'[Len(wal')] = s
    BY <1>1, <1>9, AddedFacts DEF Added
  <2>2. CASE i \in 1..Len(wal)
    BY <1>5, <2>1, <2>2
  <2>3. CASE i = Len(wal')
    <3>1. CASE Head0.ob[o].state = "cleared"
      <4>1. Len(wal) \in 1..Len(wal)
        BY <1>1
      <4> QED
        BY <1>1, <1>3, <3>1, <4>1 DEF ForgottenIsDurable
    <3>2. CASE \A d \in DirsOf[o] : entry[o][d] = "durable"
      BY <1>3, <3>2
    <3>3. s.ob[o].state = "cleared"
      BY <1>4, <2>1, <2>3
    <3> QED
      BY <1>9, <3>1, <3>2, <3>3 DEF Added
  <2> QED
    BY <1>1, <2>1, <2>2, <2>3
<1> QED
  BY <1>2, <1>6, <1>7, <1>8, <1>9 DEF Grown, Lost

\* DeletedAfterDecision: a purge acts only once the barrier of its decision is
\* reported.
LEMMA StepDeleted ==
    ASSUME TypeInv, WalInv, EffectInv, DeletedAfterDecision, [Next]_vars
    PROVE  DeletedAfterDecision'
<1>1. \A x \in Client \cup Ob : Holds(wal[1], x) => Holds(wal[1], x)'
  BY StepDisk
<1>2. SUFFICES ASSUME NEW o \in Purge, NEW d \in DirsOf[o], entry'[o][d] # "old"
               PROVE  wal'[1].ob[o].state # "none"
  BY DEF DeletedAfterDecision
<1>3. o \in Ob /\ o \notin Client
  BY ObAssumption
<1>4. entry[o][d] # "old" \/ Touch(o, d)
  BY <1>2, <1>3, StepEntry DEF Entries
<1>5. Holds(wal[1], o)
  <2>1. CASE entry[o][d] # "old"
    BY <1>3, <2>1 DEF DeletedAfterDecision, Holds
  <2>2. CASE Touch(o, d)
    BY <1>3, <2>2 DEF Touch, EffectInv
  <2> QED
    BY <1>4, <2>1, <2>2
<1>6. Holds(wal[1], o)'
  BY <1>1, <1>3, <1>5
<1> QED
  BY <1>3, <1>6 DEF Holds

\* How the work on an obligation changes.
LEMMA StepWork ==
    ASSUME TypeInv, CoverInv, [Next]_vars, NEW o \in Ob
    PROVE  \/ work'[o] = work[o] /\ ~PowerLoss
           \/ work'[o].at # "act"
           \/ work'[o] = Acting(o) /\ (o \in Purge => Holds(wal[1], o))
           \/ \E d \in Dir : Touch(o, d)
<1>1. work \in [Ob -> WorkSet]
  BY DEF TypeInv, MainTypes, WorkSet
<1>2. Resting.at # "act"
  BY DEF Resting
<1>3. ASSUME NEW x \in Ob, Handle(x)
      PROVE  \/ work'[o] = work[o]
             \/ work'[o].at # "act"
             \/ work'[o] = Acting(o) /\ o \notin Purge
  BY <1>3, HandleFacts
<1>4. ASSUME NEW x \in Ob, Done(x)
      PROVE  work'[o] = work[o] \/ work'[o].at # "act"
  BY <1>1, <1>2, <1>4 DEF Done
<1>5. ASSUME NEW x \in Ob, NEW d \in Dir, Touch(x, d)
      PROVE  work'[o] = work[o] \/ Touch(o, d)
  BY <1>1, <1>5 DEF Touch
<1>6. CASE OnSynced
  <2>1. work'[o] = work[o] \/ (work'[o] = Acting(o) /\ o \in Named(Covered(Head(outbox))))
    BY <1>6 DEF OnSynced
  <2>2. ASSUME o \in Named(Covered(Head(outbox)))
        PROVE  Holds(wal[1], o)
    <3>1. PICK w \in waiters : w.g <= Head(outbox) /\ w.who = o
      BY <2>2 DEF Named, Covered
    <3>2. outbox \in Seq(Nat) /\ outbox # <<>>
      BY <1>6 DEF OnSynced, TypeInv, PortTypes
    <3>3. 1 \in 1..Len(outbox) /\ Head(outbox) = outbox[1]
      <4>1. Len(outbox) \in Nat \ {0}
        BY <3>2, EmptySeq
      <4> QED
        BY <3>2, <4>1
    <3> QED
      BY <3>1, <3>3 DEF CoverInv
  <2>3. ~PowerLoss
    BY <1>6 DEF OnSynced, PowerLoss, ProcessGone
  <2> QED
    BY <2>1, <2>2, <2>3
<1>7. CASE Exit
  <2>1. work'[o] = work[o] \/ work'[o] = Resting
    BY <1>7 DEF Exit, ExitWith
  <2>2. ~PowerLoss
    BY <1>7 DEF Exit, ExitWith, PowerLoss, ProcessGone
  <2> QED
    BY <1>2, <2>1, <2>2
<1>8. CASE ProcessGone
  BY <1>2, <1>8 DEF ProcessGone
<1>9. \/ UNCHANGED work
      \/ \E x \in Ob : Handle(x) \/ Done(x) \/ \E d \in Dir : Touch(x, d)
      \/ OnSynced \/ Exit \/ ProcessGone
  BY DEF vars, owner, Next, MainStep, HandlerStep, PassStep, Decide, Retry, Redo,
     HandlerFails, Materialize, MaterializeUnder, Write, StartPass, Sample, Barrier, Post,
     PostAs, Death, Spawn, Crash, PowerLoss, Boot, BootWith
<1>10. PowerLoss => ProcessGone
  BY DEF PowerLoss
<1> QED
  BY <1>3, <1>4, <1>5, <1>6, <1>7, <1>8, <1>9, <1>10

\* EffectInv, for the effects in progress.
LEMMA StepActing ==
    ASSUME TypeInv, WalInv, CoverInv, EffectInv, [Next]_vars,
           NEW o \in Ob, work'[o].at = "act"
    PROVE  /\ \A d \in DirsOf[o] \ work'[o].left : entry'[o][d] # "old"
           /\ o \in Purge => Holds(wal[1], o)'
<1>1. o \in Client \cup Ob /\ (Holds(wal[1], o) => Holds(wal[1], o)')
  BY StepDisk
<1>2. \A d \in DirsOf[o] : entry[o][d] # "old" => entry'[o][d] # "old" \/ PowerLoss
  BY StepEntry DEF Entries
<1>3. CASE work'[o] = work[o] /\ ~PowerLoss
  BY <1>1, <1>2, <1>3 DEF EffectInv
<1>4. CASE work'[o] = Acting(o) /\ (o \in Purge => Holds(wal[1], o))
  BY <1>1, <1>4 DEF Acting
<1>5. ASSUME NEW d \in Dir, Touch(o, d)
      PROVE  /\ \A c \in DirsOf[o] \ work'[o].left : entry'[o][c] # "old"
             /\ o \in Purge => Holds(wal[1], o)'
  <2>1. /\ work[o].at = "act" /\ work' = [work EXCEPT ![o].left = @ \ {d}]
        /\ entry' = [entry EXCEPT ![o][d] = IF @ = "old" THEN "cached" ELSE @]
    BY <1>5 DEF Touch
  <2>2. work \in [Ob -> WorkSet]
    BY DEF TypeInv, MainTypes, WorkSet
  <2>3. work'[o].left = work[o].left \ {d}
    BY <2>1, <2>2 DEF WorkSet
  <2>4. entry = [x \in Ob |-> entry[x]] /\ entry[o] \in [DirsOf[o] -> {"old", "cached", "durable"}]
    BY DEF TypeInv, DbTypes
  <2>5. \A c \in DirsOf[o] : IF c = d THEN entry'[o][c] # "old" ELSE entry'[o][c] = entry[o][c]
    BY <2>1, <2>4
  <2> QED
    BY <1>1, <2>1, <2>3, <2>5 DEF EffectInv
<1> QED
  BY <1>3, <1>4, <1>5, StepWork

\* EffectInv, for the tracked rows.
LEMMA StepOwed ==
    ASSUME TypeInv, ProcessInv, WalInv, OrderInv, EffectInv, [Next]_vars,
           NEW o \in Ob, tracked'[o] # 0, NEW d \in DirsOf[o]
    PROVE  entry'[o][d] # "old" /\ Owed(o, d)'
<1>0. d \in Dir
  BY ObAssumption
<1>1. /\ entry[o][d] = "durable" => entry'[o][d] = "durable"
      /\ entry[o][d] # "old" => entry'[o][d] # "old" \/ PowerLoss
      /\ entry[o][d] \in {"old", "cached", "durable"}
  BY StepEntry DEF Entries, TypeInv, DbTypes
<1>2. PortTypes' /\ (Ports \/ ProcessGone)
  BY StepPorts
<1>3. ~ProcessGone /\ ~PowerLoss
  BY DEF ProcessGone, PowerLoss
<1>4. /\ gen \in Nat /\ gen' \in Nat /\ tracked \in [Ob -> Nat] /\ PortTypes
      /\ pass \in PassSet /\ pass.target <= gen
  BY <1>2 DEF TypeInv, PortTypes, GenTypes, PassTypes
<1>5. CASE tracked'[o] = tracked[o]
  <2>1. entry[o][d] # "old" /\ Owed(o, d)
    BY <1>5 DEF EffectInv
  <2>2. entry'[o][d] # "old"
    BY <1>1, <1>3, <2>1
  <2>3. CASE entry[o][d] = "durable"
    BY <1>1, <2>3, <2>2 DEF Owed
  <2>4. ASSUME NEW r \in 1..tracked[o], Waiting(Command("register", r, d))
        PROVE  Owed(o, d)'
    <3>1. r \in Nat /\ r \in 1..tracked'[o]
      BY <1>4, <1>5, <2>4
    <3>2. CASE Waiting(Command("register", r, d))'
      BY <3>1, <3>2 DEF Owed
    <3>3. ASSUME NEW k \in 0..Len(inbox), StartPass(k),
                 d \in {SubSeq(inbox, 1, k)[i].dir : i \in 1..k}
          PROVE  entry'[o][d] = "durable"
      <4>1. inbox \in Seq(CommandSet)
        BY <1>4 DEF PortTypes
      <4>2. Len(SubSeq(inbox, 1, k)) = k /\ SubSeq(inbox, 1, k) \in Seq(CommandSet)
        BY <4>1, SplitSequence
      <4>3. DOMAIN SubSeq(inbox, 1, k) = 1..k
        BY <4>2, LenProperties
      <4> DEFINE dirs == {SubSeq(inbox, 1, k)[i].dir : i \in DOMAIN SubSeq(inbox, 1, k)}
      <4>4. d \in dirs
        BY <3>3, <4>3
      <4>5. entry' = [x \in Ob |-> [c \in DirsOf[x] |->
                 IF c \in dirs /\ entry[x][c] = "cached" THEN "durable" ELSE entry[x][c]]]
        BY <3>3 DEF StartPass
      <4> HIDE DEF dirs
      <4>6. entry'[o][d] = IF d \in dirs /\ entry[o][d] = "cached" THEN "durable"
                           ELSE entry[o][d]
        BY <4>5
      <4> QED
        BY <1>1, <2>1, <4>4, <4>6
    <3>4. Kept
      BY <1>2, <1>3 DEF Ports
    <3> QED
      BY <1>0, <2>4, <3>1, <3>2, <3>3, <3>4 DEF Kept, Owed
  <2> QED
    BY <2>1, <2>2, <2>3, <2>4 DEF Owed
<1>6. CASE Materialize(o)
  <2>1. /\ work[o].at = "act" /\ work[o].left = {} /\ RegisterEach(DirsOf[o])
        /\ tracked' = [tracked EXCEPT ![o] = gen'] /\ UNCHANGED <<entry, life, outbox, pass>>
    BY <1>6 DEF Materialize, MaterializeUnder
  <2>2. entry[o][d] # "old"
    BY <2>1 DEF EffectInv
  <2>3. DirsOf[o] \in SUBSET Dir
    BY ObAssumption
  <2>4. PICK cmds \in Seq(CommandSet) :
          /\ Numbered(cmds)
          /\ \A c \in DirsOf[o] : \E i \in 1..Len(cmds) :
                cmds[i] = Command("register", gen + i, c)
    BY <1>4, <2>1, <2>3, RegisterEachSends
  <2>5. PICK i \in 1..Len(cmds) : cmds[i] = Command("register", gen + i, d)
    BY <2>4
  <2>6. PICK r \in Nat : r = gen + i
    BY <1>4
  <2>7. cmds[i] = Command("register", r, d)
    BY <2>5, <2>6
  <2>8. Waiting(cmds[i])'
    BY <1>4, <2>1, <2>4, SentKeeps
  <2>9. Waiting(Command("register", r, d))'
    BY <2>7, <2>8
  <2>10. r \in 1..tracked'[o]
    <3>1. tracked'[o] = gen' /\ gen' = gen + Len(cmds) /\ Len(cmds) \in Nat
      BY <1>4, <2>1, <2>4, LenProperties DEF Numbered
    <3> QED
      BY <1>4, <2>6, <3>1
  <2>11. entry'[o][d] # "old"
    BY <2>1, <2>2
  <2> QED
    BY <2>9, <2>10, <2>11 DEF Owed
<1>7. tracked'[o] = tracked[o] \/ Materialize(o)
  <2>1. ASSUME NEW x \in Ob, Materialize(x)
        PROVE  tracked'[o] = tracked[o] \/ Materialize(o)
    BY <1>4, <2>1 DEF Materialize, MaterializeUnder
  <2>2. CASE OnSynced
    BY <2>2 DEF OnSynced, Clear
  <2> QED
    BY <1>3, <2>1, <2>2 DEF vars, owner, Next, MainStep, HandlerStep, PassStep, Decide,
       Retry, Redo, HandlerFails, Touch, Write, StartPass, Sample, Barrier, Post, PostAs,
       Death, Exit, ExitWith, Spawn, Crash, Boot, BootWith
<1> QED
  BY <1>5, <1>6, <1>7

\* EffectInv.
LEMMA StepEffect ==
    ASSUME TypeInv, ProcessInv, WalInv, CoverInv, OrderInv, EffectInv, [Next]_vars
    PROVE  EffectInv'
<1>1. \A o \in Ob : work'[o].at = "act" =>
          /\ \A d \in DirsOf[o] \ work'[o].left : entry'[o][d] # "old"
          /\ o \in Purge => Holds(wal[1], o)'
  BY StepActing
<1>2. \A o \in Ob : tracked'[o] # 0 => \A d \in DirsOf[o] : entry'[o][d] # "old" /\ Owed(o, d)'
  BY StepOwed
<1> QED
  BY <1>1, <1>2 DEF EffectInv

-----------------------------------------------------------------------------
\* The waiters: what a step adds is behind every generation in use.
Joins(x) ==
    /\ x \in Client \cup Ob
    /\ gen' = gen + 1 /\ waiters' = waiters \cup {[g |-> gen + 1, who |-> x]}
    /\ UNCHANGED <<outbox, pass>>

\* A step leaves the waiters, takes some away or adds one who has committed.
LEMMA StepWaiters ==
    ASSUME TypeInv, CoverInv, [Next]_vars
    PROVE  \/ waiters' \subseteq waiters
           \/ \E c \in Client : Joins(c) /\ Write(c)
           \/ \E o \in Ob : Joins(o) /\ Holds(Head0, o)'
<1>1. ASSUME NEW c \in Client, Write(c)
      PROVE  Joins(c)
  BY <1>1 DEF Write, SendNext, Joins
<1>2. ASSUME NEW o \in Ob, Handle(o), UNCHANGED <<outbox, pass>>
      PROVE  waiters' = waiters \/ Joins(o)
  BY <1>2, HandleFacts DEF Joins
<1>3. ASSUME NEW o \in Ob, Decide(o)
      PROVE  Holds(Head0, o)' /\ UNCHANGED <<outbox, pass>>
  <2>1. CommitRow(o, Row("pending", 0)) /\ DbTypes /\ o \notin Client
    BY <1>3, ObAssumption DEF Decide, TypeInv
  <2>2. Head0'.ob[o] = Row("pending", 0)
    BY <2>1, CommitRowAdds
  <2> QED
    BY <1>3, <2>1, <2>2 DEF Decide, Holds, Row
<1>4. ASSUME NEW o \in Ob, Retry(o) \/ Redo(o)
      PROVE  Holds(Head0, o)' /\ UNCHANGED <<outbox, pass>>
  <2>1. UNCHANGED <<outbox, pass, wal>> /\ o \notin Client
    BY <1>4, ObAssumption DEF Retry, Redo, disk
  <2>2. Holds(Head0, o)
    BY <1>4, <2>1 DEF Retry, Redo, CoverInv, Holds
  <2>3. Head0' = Head0
    BY <2>1 DEF Head0
  <2> QED
    BY <2>1, <2>2, <2>3 DEF Holds
<1>5. ASSUME NEW o \in Ob, Decide(o) \/ Retry(o) \/ Redo(o)
      PROVE  Handle(o)
  BY <1>5 DEF Decide, Retry, Redo
<1>6. \/ waiters' \subseteq waiters
      \/ \E c \in Client : Write(c)
      \/ \E o \in Ob : Decide(o) \/ Retry(o) \/ Redo(o)
  BY DEF vars, queues, Next, MainStep, HandlerStep, PassStep, Touch,
     HandlerFails, Materialize, MaterializeUnder, StartPass, Sample, Barrier, Post, PostAs,
     Death, OnSynced, Exit, ExitWith, Spawn, Crash, PowerLoss, ProcessGone, Boot, BootWith
<1> QED
  BY <1>1, <1>2, <1>3, <1>4, <1>5, <1>6

\* The reports and the pass.
LEMMA StepReports ==
    ASSUME TypeInv, CoverInv, [Next]_vars
    PROVE  /\ \A i \in 1..Len(outbox') :
                 \/ \E j \in 1..Len(outbox) : outbox'[i] = outbox[j]
                 \/ pass.at = "post" /\ outbox'[i] = pass.target
           /\ pass'.at = "post" => \/ pass.at = "post" /\ pass'.target = pass.target
                                   \/ pass'.target = pass.target /\ wal' = wal /\ Len(wal) = 1
                                   \/ pass'.target = pass.target /\ wal' = <<Head0>>
<1>1. /\ outbox \in Seq(Nat) /\ pass \in PassSet /\ DbTypes /\ base \in Nat
      /\ Len(wal) \in Nat \ {0} /\ Commits = base + Len(wal) - 1 /\ Commits # None
  BY WalFacts, ObAssumption DEF TypeInv, PortTypes, PassTypes, DbTypes
<1>2. \A i \in 1..Len(outbox') : \/ \E j \in 1..Len(outbox) : outbox'[i] = outbox[j]
                                 \/ pass.at = "post" /\ outbox'[i] = pass.target
  <2>1. CASE outbox' = outbox
    BY <2>1
  <2>2. CASE outbox' = <<>>
    <3>1. Len(outbox') = 0
      BY <2>2, EmptySeq
    <3> QED
      BY <3>1
  <2>3. CASE Post
    <3>1. outbox' = Append(outbox, pass.target) /\ pass.at = "post" /\ pass.target \in Nat
      BY <1>1, <2>3 DEF Post, PostAs, PassSet
    <3>2. /\ Len(outbox') = Len(outbox) + 1 /\ outbox'[Len(outbox) + 1] = pass.target
          /\ \A i \in 1..Len(outbox) : outbox'[i] = outbox[i]
      BY <1>1, <3>1, AppendProperties
    <3>3. Len(outbox) \in Nat
      BY <1>1, LenProperties
    <3> QED
      BY <3>1, <3>2, <3>3
  <2>4. CASE OnSynced
    <3>1. outbox' = Tail(outbox) /\ outbox # <<>>
      BY <2>4 DEF OnSynced
    <3>2. /\ Len(outbox') = Len(outbox) - 1 /\ Len(outbox) \in Nat \ {0}
          /\ \A i \in 1..Len(outbox') : outbox'[i] = outbox[i + 1]
      BY <1>1, <3>1, HeadTailProperties, EmptySeq
    <3>3. \A i \in 1..Len(outbox') : i + 1 \in 1..Len(outbox)
      BY <3>2
    <3> QED
      BY <3>2, <3>3
  <2> QED
    BY <2>1, <2>2, <2>3, <2>4 DEF vars, worker, Next, MainStep, HandlerStep, PassStep,
       Touch, Decide, Retry, Redo, Write, HandlerFails, Materialize, MaterializeUnder,
       StartPass, Sample, Barrier, Death, Exit, ExitWith, Spawn, Crash, PowerLoss,
       ProcessGone, Boot, BootWith
<1>3. ASSUME pass'.at = "post"
      PROVE  \/ pass.at = "post" /\ pass'.target = pass.target
             \/ pass'.target = pass.target /\ wal' = wal /\ Len(wal) = 1
             \/ pass'.target = pass.target /\ wal' = <<Head0>>
  <2>1. CASE pass' = pass
    BY <1>3, <2>1
  <2>2. CASE Sample
    <3>1. /\ pass' = [pass EXCEPT !.observed = Commits,
                                  !.at = IF pass.proven = Commits THEN "post" ELSE "sync"]
          /\ wal' = wal
      BY <2>2 DEF Sample, disk
    <3>2. pass'.target = pass.target /\ pass.proven = Commits
      BY <1>1, <1>3, <3>1 DEF PassSet
    <3>3. Commits <= base
      BY <1>1, <3>2 DEF CoverInv
    <3>4. Len(wal) = 1
      <4>1. PICK n \in Nat \ {0} : n = Len(wal)
        BY <1>1
      <4>2. base + n - 1 <= base
        BY <1>1, <3>3, <4>1
      <4>3. n = 1
        BY <1>1, <4>2
      <4> QED
        BY <4>1, <4>3
    <3> QED
      BY <3>1, <3>2, <3>4
  <2>3. CASE Barrier
    BY <1>1, <2>3 DEF Barrier, PassSet
  <2>4. pass' = pass \/ Sample \/ Barrier
    <3>1. Fresh.at # "post"
      BY DEF Fresh
    <3>2. CASE \E k \in 0..Len(inbox) : StartPass(k)
      BY <1>1, <1>3, <3>2 DEF StartPass, PassSet
    <3>3. CASE Post
      BY <1>1, <1>3, <3>3 DEF Post, PostAs, PassSet
    <3> QED
      BY <1>3, <3>1, <3>2, <3>3 DEF vars, worker, Next, MainStep, HandlerStep, PassStep,
         Touch, Decide, Retry, Redo, Write, HandlerFails, Materialize, MaterializeUnder,
         Death, OnSynced, Exit, ExitWith, Spawn, Crash, PowerLoss, ProcessGone, Boot,
         BootWith
  <2> QED
    BY <2>1, <2>2, <2>3, <2>4
<1> QED
  BY <1>2, <1>3

\* CoverInv.
LEMMA StepCover ==
    ASSUME TypeInv, ProcessInv, WalInv, CoverInv, EffectInv, [Next]_vars,
           PassTypes', GenTypes'
    PROVE  CoverInv'
<1>1. /\ \A x \in Client \cup Ob : Holds(wal[1], x) => Holds(wal[1], x)'
      /\ ~PowerLoss => /\ base' >= base
                       /\ \A x \in Client \cup Ob : Holds(Head0, x) => Holds(Head0, x)'
  BY StepDisk
<1>2. /\ gen \in Nat /\ outbox \in Seq(Nat) /\ pass \in PassSet /\ pass.target <= gen
      /\ waiters \subseteq [g : Nat \ {0}, who : Client \cup Ob]
      /\ \A i \in 1..Len(outbox) : outbox[i] \in Nat /\ outbox[i] <= gen
      /\ told \in [Client -> {"idle", "waiting", "answered", "unavailable", "lost"}]
      /\ base \in Nat /\ Commits \in Nat /\ Client \cap Ob = {}
      /\ \A x \in Client \cup Ob : x \in Ob => x \notin Client
  BY WalFacts, ElementOfSeq, ObAssumption DEF TypeInv, PortTypes, GenTypes, PassTypes,
     MainTypes, DbTypes
<1>3. \/ waiters' \subseteq waiters
      \/ \E c \in Client : Joins(c) /\ Write(c)
      \/ \E o \in Ob : Joins(o) /\ Holds(Head0, o)'
  BY StepWaiters
<1>4. PowerLoss => waiters' = {} /\ redo' = {} /\ pass' = Fresh
  BY DEF PowerLoss, ProcessGone
<1>5. ASSUME NEW x, Joins(x)
      PROVE  /\ \A w \in waiters' : w \in waiters \/ w = [g |-> gen + 1, who |-> x]
             /\ \A i \in 1..Len(outbox') : outbox'[i] < gen + 1
             /\ pass'.target < gen + 1
  BY <1>2, <1>5 DEF Joins, PassSet
<1>6. \A v, w \in waiters' : v.who = w.who /\ v.who \in Client => v = w
  <2>1. CASE waiters' \subseteq waiters
    BY <2>1 DEF CoverInv
  <2>2. ASSUME NEW c \in Client, Joins(c), Write(c)
        PROVE  \A v, w \in waiters' : v.who = w.who /\ v.who \in Client => v = w
    <3>1. \A w \in waiters : w.who # c
      BY <2>2 DEF Write, CoverInv
    <3> QED
      BY <1>5, <2>2, <3>1 DEF CoverInv
  <2>3. ASSUME NEW o \in Ob, Joins(o)
        PROVE  \A v, w \in waiters' : v.who = w.who /\ v.who \in Client => v = w
    <3>1. o \notin Client
      BY <1>2
    <3> QED
      BY <1>5, <2>3, <3>1 DEF CoverInv
  <2> QED
    BY <1>3, <2>1, <2>2, <2>3
<1>7. ASSUME NEW w \in waiters', w \in waiters
      PROVE  Holds(Head0, w.who)' /\ (w.who \in Client => told'[w.who] = "waiting")
  <2>1. w.who \in Client \cup Ob /\ Holds(Head0, w.who)
        /\ (w.who \in Client => told[w.who] = "waiting")
    BY <1>2, <1>7 DEF CoverInv
  <2>2. ~ProcessGone /\ ~Exit
    BY <1>7 DEF ProcessGone, Exit, ExitWith
  <2>3. Holds(Head0, w.who)'
    <3>1. PICK x : x = w.who
      OBVIOUS
    <3>2. Holds(Head0, x)'
      BY <1>1, <2>1, <2>2, <3>1 DEF PowerLoss
    <3> QED
      BY <3>1, <3>2
  <2>4. ASSUME w.who \in Client
        PROVE  told'[w.who] = "waiting"
    <3>1. CASE OnSynced
      <4>1. w \notin Covered(Head(outbox))
        BY <1>7, <3>1 DEF OnSynced
      <4>2. w.who \notin Named(Covered(Head(outbox)))
        BY <1>7, <2>4, <4>1 DEF Named, Covered, CoverInv
      <4> QED
        BY <2>1, <2>4, <3>1, <4>2 DEF OnSynced
    <3>2. CASE \E c \in Client : Write(c)
      BY <1>2, <2>1, <2>4, <3>2 DEF Write
    <3>3. CASE told' = told
      BY <2>1, <2>4, <3>3
    <3> QED
      BY <2>2, <3>1, <3>2, <3>3 DEF vars, Next, MainStep, HandlerStep, PassStep, Touch,
         Decide, Retry, Redo, HandlerFails, Materialize, MaterializeUnder, StartPass,
         Sample, Barrier, Post, PostAs, Death, Spawn, Crash, PowerLoss, Boot, BootWith
  <2> QED
    BY <2>3, <2>4
<1>8. \A w \in waiters' : Holds(Head0, w.who)' /\ (w.who \in Client => told'[w.who] = "waiting")
  <2> SUFFICES ASSUME NEW w \in waiters', w \notin waiters
               PROVE  Holds(Head0, w.who)' /\ (w.who \in Client => told'[w.who] = "waiting")
    BY <1>7
  <2>1. ASSUME NEW c \in Client, Joins(c), Write(c)
        PROVE  Holds(Head0, w.who)' /\ (w.who \in Client => told'[w.who] = "waiting")
    <3>1. w.who = c
      BY <1>5, <2>1
    <3>2. Head0'.note = Head0.note \cup {c}
      BY <2>1, NoteAdds DEF Write, TypeInv
    <3>3. c \notin Ob /\ told'[c] = "waiting"
      BY <1>2, <2>1 DEF Write
    <3> QED
      BY <3>1, <3>2, <3>3 DEF Holds
  <2>2. ASSUME NEW o \in Ob, Joins(o), Holds(Head0, o)'
        PROVE  Holds(Head0, w.who)' /\ (w.who \in Client => told'[w.who] = "waiting")
    <3>1. w.who = o /\ o \notin Client
      BY <1>2, <1>5, <2>2
    <3> QED
      BY <2>2, <3>1
  <2> QED
    BY <1>3, <2>1, <2>2
<1>9. \A o \in redo' : Holds(Head0, o)'
  <2> SUFFICES ASSUME NEW o \in redo'
               PROVE  Holds(Head0, o)'
    OBVIOUS
  <2>1. ~PowerLoss
    BY <1>4
  <2>2. o \in redo \/ o \in Open
    BY DEF vars, owner, Next, MainStep, HandlerStep, PassStep, Touch, Done, Decide, Retry,
       Redo, Write, HandlerFails, Materialize, MaterializeUnder, StartPass, Sample, Barrier,
       Post, PostAs, Death, OnSynced, Exit, ExitWith, Spawn, Crash, PowerLoss, ProcessGone,
       Boot, BootWith
  <2>3. o \in Ob /\ Holds(Head0, o)
    BY <1>2, <2>2 DEF CoverInv, Open, Holds, TypeInv, MainTypes
  <2> QED
    BY <1>1, <2>1, <2>3
<1>10. ASSUME NEW w \in waiters, Holds(wal[1], w.who)
       PROVE  Holds(wal[1], w.who)'
  <2>1. PICK x \in Client \cup Ob : x = w.who
    BY <1>2
  <2>2. Holds(wal[1], x)'
    BY <1>1, <1>10, <2>1
  <2> QED
    BY <2>1, <2>2
<1>11. ASSUME NEW w \in waiters', NEW i \in 1..Len(outbox'), w.g <= outbox'[i]
       PROVE  Holds(wal[1], w.who)'
  <2>1. CASE w \in waiters
    <3>1. \/ \E j \in 1..Len(outbox) : outbox'[i] = outbox[j]
          \/ pass.at = "post" /\ outbox'[i] = pass.target
      BY StepReports
    <3>2. Holds(wal[1], w.who)
      BY <1>11, <2>1, <3>1 DEF CoverInv
    <3> QED
      BY <1>10, <2>1, <3>2
  <2>2. CASE w \notin waiters
    <3>1. PICK x : Joins(x)
      BY <1>3, <2>2
    <3>2. w.g = gen + 1 /\ outbox'[i] < gen + 1 /\ outbox' = outbox
      BY <1>5, <2>2, <3>1 DEF Joins
    <3>3. outbox'[i] \in Nat
      BY <1>2, <3>2
    <3> QED
      BY <1>2, <1>11, <3>2, <3>3
  <2> QED
    BY <2>1, <2>2
<1>12. ASSUME pass'.at = "post", NEW w \in waiters', w.g <= pass'.target
       PROVE  Holds(wal[1], w.who)'
  <2>1. CASE w \in waiters
    <3>1. \/ pass.at = "post" /\ pass'.target = pass.target
          \/ pass'.target = pass.target /\ wal' = wal /\ Len(wal) = 1
          \/ pass'.target = pass.target /\ wal' = <<Head0>>
      BY <1>12, StepReports
    <3>2. CASE pass.at = "post" /\ pass'.target = pass.target
      BY <1>10, <1>12, <2>1, <3>2 DEF CoverInv
    <3>3. CASE wal' = wal /\ Len(wal) = 1
      <4>1. Head0 = wal[1]
        BY <3>3 DEF Head0
      <4>2. Holds(wal[1], w.who)
        BY <2>1, <4>1 DEF CoverInv
      <4> QED
        BY <1>10, <2>1, <4>2
    <3>4. CASE wal' = <<Head0>>
      <4>1. wal'[1] = Head0
        BY <3>4
      <4>2. Holds(Head0, w.who)
        BY <2>1 DEF CoverInv
      <4> QED
        BY <4>1, <4>2 DEF Holds
    <3> QED
      BY <3>1, <3>2, <3>3, <3>4
  <2>2. CASE w \notin waiters
    <3>1. PICK x : Joins(x)
      BY <1>3, <2>2
    <3>2. w.g = gen + 1 /\ pass'.target < gen + 1 /\ pass' = pass
      BY <1>5, <2>2, <3>1 DEF Joins
    <3>3. pass'.target \in Nat
      BY <1>2, <3>2 DEF PassSet
    <3> QED
      BY <1>2, <1>12, <3>2, <3>3
  <2> QED
    BY <2>1, <2>2
<1>13. /\ pass'.proven # None => pass'.proven <= base'
       /\ pass'.at = "post" => pass'.observed <= base'
  <2>1. /\ pass.proven # None => pass.proven \in Nat /\ pass.proven <= base
        /\ pass.observed \in Nat /\ pass.observed <= Commits
        /\ pass.at = "post" => pass.observed <= base
    BY <1>2 DEF CoverInv, TypeInv, PassTypes, PassSet
  <2>2. CASE pass' = Fresh
    <3>1. Fresh.proven = None /\ Fresh.at # "post"
      BY DEF Fresh
    <3> QED
      BY <2>2, <3>1
  <2>3. CASE pass' # Fresh
    <3>1. base' >= base /\ base' \in Nat
      <4>1. ~PowerLoss
        BY <1>4, <2>3
      <4>2. base' \in Nat
        BY StepDisk DEF DbTypes
      <4> QED
        BY <1>1, <4>1, <4>2
    <3>2. CASE pass' = pass
      BY <1>2, <2>1, <3>1, <3>2
    <3>3. CASE Sample
      <4>1. /\ pass'.observed = Commits /\ pass'.proven = pass.proven
            /\ pass'.at = "post" => pass.proven = Commits
        BY <1>2, <3>3 DEF Sample, PassSet
      <4>2. Commits # None
        BY <1>2, ObAssumption
      <4> QED
        BY <1>2, <2>1, <3>1, <4>1, <4>2
    <3>4. CASE Barrier
      <4>1. base' = Commits /\ pass'.proven = pass.proven /\ pass'.observed = pass.observed
        BY <1>2, <3>4 DEF Barrier, PassSet
      <4> QED
        BY <1>2, <2>1, <3>1, <4>1
    <3>5. CASE Post
      <4>1. pass'.proven = pass.observed /\ pass'.at = "idle" /\ pass.at = "post"
        BY <1>2, <3>5 DEF Post, PostAs, PassSet
      <4> QED
        BY <1>2, <2>1, <3>1, <4>1
    <3>6. CASE \E k \in 0..Len(inbox) : StartPass(k)
      <4>1. pass'.proven = pass.proven /\ pass'.at # "post"
        BY <1>2, <3>6 DEF StartPass, PassSet
      <4> QED
        BY <1>2, <2>1, <3>1, <4>1
    <3>7. pass' = pass \/ Sample \/ Barrier \/ Post \/ \E k \in 0..Len(inbox) : StartPass(k)
      BY <2>3 DEF vars, worker, Next, MainStep, HandlerStep, PassStep, Touch,
         Decide, Retry, Redo, Write, HandlerFails, Materialize, MaterializeUnder, Death,
         OnSynced, Exit, ExitWith, Spawn, Crash, PowerLoss, ProcessGone, Boot, BootWith
    <3> QED
      BY <3>2, <3>3, <3>4, <3>5, <3>6, <3>7
  <2> QED
    BY <2>2, <2>3
<1> QED
  BY <1>6, <1>8, <1>9, <1>11, <1>12, <1>13 DEF CoverInv

\* Every step preserves the invariant.
LEMMA StepIsSound == IInv /\ [Next]_vars => IInv'
<1> SUFFICES ASSUME IInv, [Next]_vars
             PROVE  IInv'
  OBVIOUS
<1>1. /\ TypeInv /\ ProcessInv /\ WalInv /\ CoverInv /\ OrderInv /\ EffectInv
      /\ ForgottenIsDurable /\ DeletedAfterDecision
  BY DEF IInv
<1>2. PortTypes' /\ OrderInv' /\ PassTypes' /\ (Ports \/ ProcessGone)
  BY <1>1, StepPorts
<1>3. GenTypes'
  BY <1>1, <1>2, StepGen DEF Ports
<1>4. DbTypes' /\ WalInv'
  BY <1>1, StepDisk
<1>5. MainTypes' /\ ProcessInv'
  BY <1>1, StepMain, StepProcess
<1>6. EffectInv' /\ ForgottenIsDurable' /\ DeletedAfterDecision'
  BY <1>1, StepEffect, StepForgotten, StepDeleted
<1>7. CoverInv'
  BY <1>1, <1>2, <1>3, StepCover
<1> QED
  BY <1>2, <1>3, <1>4, <1>5, <1>6, <1>7 DEF IInv, TypeInv

\* The initial state satisfies the invariant.
LEMMA InitIsSound == Init => IInv
<1> SUFFICES ASSUME Init
             PROVE  IInv
  OBVIOUS
<1> DEFINE s == [ob |-> [o \in Ob |-> Row("none", 0)], note |-> {}]
<1>1. s \in States
  BY DEF States, Row
<1>2. s.ob = [o \in Ob |-> Row("none", 0)] /\ s.note = {}
  OBVIOUS
<1>3. wal = <<s>> /\ base = 0
  BY DEF Init
<1> HIDE DEF s
<1>4. wal \in Seq(States) /\ wal # <<>> /\ Len(wal) = 1 /\ wal[1] = s
  BY <1>1, <1>3
<1>5. Head0 = s /\ Commits = 0
  BY <1>3, <1>4 DEF Head0, Commits
<1>6. /\ entry = [o \in Ob |-> [d \in DirsOf[o] |-> "old"]]
      /\ \A o \in Ob : entry[o] = [d \in DirsOf[o] |-> "old"]
      /\ \A o \in Ob : \A d \in DirsOf[o] : entry[o][d] = "old"
  BY DEF Init
<1>7. DbTypes
  <2>1. entry = [o \in Ob |-> entry[o]]
    BY <1>6
  <2>2. \A o \in Ob : entry[o] \in [DirsOf[o] -> {"old", "cached", "durable"}]
    BY <1>6
  <2> QED
    BY <1>3, <1>4, <2>1, <2>2 DEF DbTypes
<1>8. /\ out = <<>> /\ inbox = <<>> /\ outbox = <<>> /\ gen = 0 /\ waiters = {}
      /\ pass = Fresh /\ tracked = [o \in Ob |-> 0] /\ redo = {} /\ up = TRUE /\ turn = None
      /\ life = "live" /\ work = [o \in Ob |-> Resting] /\ mishaps = 0
      /\ told = [c \in Client |-> "idle"]
  BY DEF Init
<1>9. /\ out \in Seq(CommandSet) /\ Len(out) = 0 /\ inbox \in Seq(CommandSet)
      /\ Len(inbox) = 0 /\ outbox \in Seq(Nat) /\ Len(outbox) = 0
  BY <1>8, EmptySeq
<1>10. PortTypes /\ OrderInv
  BY <1>8, <1>9, BoundAssumption DEF PortTypes, OrderInv, Ordered
<1>11. MainTypes /\ GenTypes
  BY <1>8, BoundAssumption DEF MainTypes, GenTypes, Resting
<1>12. /\ Fresh.at = "idle" /\ Fresh.target = 0 /\ Fresh.proven = None
       /\ Fresh.observed = 0
  BY DEF Fresh
<1>13. PassTypes
  BY <1>5, <1>8, <1>12, FreshIsAPass DEF PassTypes
<1>14. ProcessInv
  BY <1>8 DEF ProcessInv
<1>15. WalInv
  BY <1>4 DEF WalInv
<1>16. CoverInv
  BY <1>8, <1>9, <1>12 DEF CoverInv
<1>17. EffectInv
  BY <1>8 DEF EffectInv, Resting
<1>18. ForgottenIsDurable
  BY <1>2, <1>4 DEF ForgottenIsDurable, Row
<1>19. DeletedAfterDecision
  BY <1>6, ObAssumption DEF DeletedAfterDecision
<1> QED
  BY <1>7, <1>10, <1>11, <1>13, <1>14, <1>15, <1>16, <1>17, <1>18, <1>19 DEF IInv, TypeInv

-----------------------------------------------------------------------------
\* The inductive invariant of the flusher and the obligations.
THEOREM DurabilityInvariant == Spec => []IInv
<1>1. QED
  BY InitIsSound, StepIsSound, PTL DEF Spec

\* Database, generations, ports and pass have their types, for any number of
\* callers, obligations, directories, deaths, crashes and power losses.
THEOREM TypesAreCorrect == Spec => []TypeOK
<1>1. IInv => TypeOK
  <2> SUFFICES ASSUME IInv
               PROVE  TypeOK
    OBVIOUS
  <2>1. DbTypes /\ PortTypes /\ MainTypes /\ GenTypes /\ PassTypes
    BY DEF IInv, TypeInv
  <2>2. /\ gen \in Nat /\ out \in Seq(CommandSet) /\ inbox \in Seq(CommandSet)
        /\ outbox \in Seq(Nat) /\ Len(outbox) <= MaxPosted
    BY <2>1 DEF PortTypes
  <2> DEFINE Bounded == [type : {"register", "flush"}, g : 0..gen, dir : Dir \cup {None}]
  <2>3. out \in Seq(Bounded)
    <3>1. \A i \in 1..Len(out) : out[i] \in CommandSet /\ out[i].g <= gen
      BY <2>1, <2>2, ElementOfSeq DEF PortTypes
    <3>2. \A i \in 1..Len(out) : out[i] \in Bounded
      BY <2>2, <3>1 DEF CommandSet
    <3>3. out \in [1..Len(out) -> CommandSet] /\ Len(out) \in Nat /\ DOMAIN out = 1..Len(out)
      BY <2>2, LenProperties
    <3> HIDE DEF Bounded
    <3>4. out \in [1..Len(out) -> Bounded]
      BY <3>2, <3>3
    <3> QED
      BY <3>3, <3>4
  <2>4. inbox \in Seq(Bounded)
    <3>1. \A i \in 1..Len(inbox) : inbox[i] \in CommandSet /\ inbox[i].g <= gen
      BY <2>1, <2>2, ElementOfSeq DEF PortTypes
    <3>2. \A i \in 1..Len(inbox) : inbox[i] \in Bounded
      BY <2>2, <3>1 DEF CommandSet
    <3>3. inbox \in [1..Len(inbox) -> CommandSet] /\ Len(inbox) \in Nat
      BY <2>2, LenProperties
    <3> HIDE DEF Bounded
    <3>4. inbox \in [1..Len(inbox) -> Bounded]
      BY <3>2, <3>3
    <3> QED
      BY <3>3, <3>4
  <2>5. outbox \in Seq(0..gen)
    <3>1. \A i \in 1..Len(outbox) : outbox[i] \in Nat /\ outbox[i] <= gen
      BY <2>1, <2>2, ElementOfSeq DEF PortTypes
    <3>2. \A i \in 1..Len(outbox) : outbox[i] \in 0..gen
      BY <2>2, <3>1
    <3>3. outbox \in [1..Len(outbox) -> Nat] /\ Len(outbox) \in Nat
      BY <2>2, LenProperties
    <3> DEFINE G == 0..gen
    <3>4. \A i \in 1..Len(outbox) : outbox[i] \in G
      BY <3>2
    <3> HIDE DEF G
    <3>5. outbox \in [1..Len(outbox) -> G]
      BY <3>3, <3>4
    <3>6. outbox \in Seq(G)
      BY <3>3, <3>5
    <3> QED
      BY <3>6 DEF G
  <2>6. waiters \subseteq [g : 1..gen, who : Client \cup Ob]
    BY <2>1, <2>2 DEF GenTypes
  <2>7. tracked \in [Ob -> 0..gen]
    <3>1. tracked \in [Ob -> Nat] /\ \A o \in Ob : tracked[o] \in 0..gen
      BY <2>1, <2>2 DEF GenTypes
    <3> QED
      BY <3>1
  <2>8. /\ wal \in Seq([ob : [Ob -> [state : {"none", "pending", "materialized", "cleared"},
                                     g : Nat]], note : SUBSET Client])
        /\ wal # <<>> /\ base \in Nat /\ Commits \in Nat
        /\ \A o \in Ob : entry[o] \in [DirsOf[o] -> {"old", "cached", "durable"}]
    BY <2>1, WalFacts DEF DbTypes, States
  <2>9. /\ pass.at \in {"idle", "sample", "sync", "post"} /\ pass.target \in 0..gen
        /\ pass.proven \in {None} \cup 0..Commits /\ pass.observed \in 0..Commits
    BY <2>1, <2>2, <2>8 DEF PassTypes, PassSet
  <2>10. /\ up \in BOOLEAN /\ turn \in Ob \cup {None} /\ mishaps \in 0..MaxMishaps
         /\ work \in [Ob -> [at : {"idle", "await", "act"}, left : SUBSET Dir]]
         /\ redo \subseteq Ob
         /\ told \in [Client -> {"idle", "waiting", "answered", "unavailable", "lost"}]
         /\ life \in {"none", "live", "dead"}
    BY <2>1 DEF MainTypes
  <2> QED
    BY <2>2, <2>3, <2>4, <2>5, <2>6, <2>7, <2>8, <2>9, <2>10 DEF TypeOK
<1> QED
  BY <1>1, DurabilityInvariant, PTL

\* An obligation is forgotten, in any state of the database a power loss can
\* leave, only when every directory entry of its effect is durable
\* (Obligations.clearSynced, restart of the flusher).
THEOREM ForgottenObligationsAreDurable == Spec => []ForgottenIsDurable
<1>1. IInv => ForgottenIsDurable
  BY DEF IInv
<1> QED
  BY <1>1, DurabilityInvariant, PTL

\* No purge deletes a file before no power loss can undo its decision.
THEOREM DeletionsFollowDecisions == Spec => []DeletedAfterDecision
<1>1. IInv => DeletedAfterDecision
  BY DEF IInv
<1> QED
  BY <1>1, DurabilityInvariant, PTL

-----------------------------------------------------------------------------
\* The steps of FlushedWrites that the steps of the store are.
LEMMA StepKeepsPromise ==
    ASSUME IInv, [Next]_vars
    PROVE  [Promise!Next]_(Promise!vars)
<1> DEFINE latest == Head0.note
           durable == wal[1].note
<1>1. /\ TypeInv /\ DbTypes /\ EffectInv /\ WalInv /\ CoverInv
      /\ told \in [Client -> {"idle", "waiting", "answered", "unavailable", "lost"}]
      /\ Len(wal) \in Nat \ {0} /\ Head0 \in States
      /\ \A i \in 1..Len(wal) : wal[i] \in States
  BY WalFacts DEF IInv, TypeInv, MainTypes
<1>2. CASE UNCHANGED <<latest, durable, told>>
  BY <1>2 DEF Promise!vars
<1>3. ASSUME NEW c \in Client, Write(c)
      PROVE  Promise!Next
  <2>1. /\ told[c] = "idle" /\ told' = [told EXCEPT ![c] = "waiting"]
        /\ latest' = latest \cup {c} /\ durable' = durable
    BY <1>1, <1>3, NoteAdds DEF Write
  <2>2. Promise!Write(c)
    BY <2>1 DEF Promise!Write
  <2> QED
    BY <2>2 DEF Promise!Next
<1>4. CASE Barrier
  <2>1. wal' = <<Head0>> /\ told' = told
    BY <1>4 DEF Barrier
  <2>2. Head0' = Head0 /\ wal'[1] = Head0
    BY <2>1 DEF Head0
  <2>3. Promise!Harden
    BY <2>1, <2>2 DEF Promise!Harden
  <2> QED
    BY <2>3 DEF Promise!Next
<1>5. CASE OnSynced
  <2> DEFINE cs == Named(Covered(Head(outbox))) \cap Client
  <2>1. /\ told' = [c \in Client |-> IF c \in cs THEN "answered" ELSE told[c]]
        /\ latest' = latest /\ durable' = durable
    BY <1>1, <1>5, ClearAdds DEF OnSynced
  <2>2. 1 \in 1..Len(outbox) /\ Head(outbox) = outbox[1]
    <3>1. outbox \in Seq(Nat) /\ outbox # <<>>
      BY <1>1, <1>5 DEF OnSynced, TypeInv, PortTypes
    <3>2. Len(outbox) \in Nat \ {0}
      BY <3>1, EmptySeq
    <3> QED
      BY <3>1, <3>2
  <2>3. cs \in SUBSET Client /\ cs \subseteq durable /\ \A c \in cs : told[c] = "waiting"
    BY <1>1, <2>2 DEF Named, Covered, CoverInv, Holds
  <2> HIDE DEF cs
  <2>4. Promise!Tell(cs, "answered")
    BY <2>1, <2>3 DEF Promise!Tell
  <2> QED
    BY <2>3, <2>4 DEF Promise!Next
<1>6. CASE Exit
  <2> DEFINE cs == Named(waiters) \cap Client
  <2>1. /\ told' = [c \in Client |-> IF c \in cs THEN "unavailable" ELSE told[c]]
        /\ wal' = wal
    BY <1>6 DEF Exit, ExitWith, disk
  <2>2. latest' = latest /\ durable' = durable
    BY <2>1 DEF Head0
  <2>3. cs \in SUBSET Client /\ \A c \in cs : told[c] = "waiting"
    BY <1>1 DEF Named, CoverInv
  <2> HIDE DEF cs
  <2>4. Promise!Tell(cs, "unavailable")
    BY <2>1, <2>2, <2>3 DEF Promise!Tell
  <2> QED
    BY <2>3, <2>4 DEF Promise!Next
<1>7. CASE Crash
  <2>1. /\ told' = [c \in Client |-> IF told[c] = "waiting" THEN "lost" ELSE told[c]]
        /\ wal' = wal
    BY <1>7 DEF Crash, ProcessGone, disk
  <2>2. latest' = latest /\ durable' = durable
    BY <2>1 DEF Head0
  <2>3. Promise!Lose
    BY <2>1, <2>2 DEF Promise!Lose
  <2> QED
    BY <2>3 DEF Promise!Next
<1>8. CASE PowerLoss
  <2>1. PICK i \in 1..Len(wal) : wal' = <<wal[i]>>
    BY <1>8 DEF PowerLoss
  <2>2. told' = [c \in Client |-> IF told[c] = "waiting" THEN "lost" ELSE told[c]]
    BY <1>8 DEF PowerLoss, ProcessGone
  <2>3. Head0' = wal[i] /\ wal'[1] = wal[i]
    BY <2>1 DEF Head0
  <2>4. /\ 1 \in 1..Len(wal) /\ Len(wal) \in 1..Len(wal) /\ 1 <= i /\ i <= Len(wal)
        /\ Head0 = wal[Len(wal)]
    BY <1>1 DEF Head0
  <2>5. \A c \in Client : /\ c \in wal[1].note => c \in wal[i].note
                          /\ c \in wal[i].note => c \in Head0.note
    <3> TAKE c \in Client
    <3>1. /\ Holds(wal[1], c) => Holds(wal[i], c)
          /\ Holds(wal[i], c) => Holds(Head0, c)
      BY <1>1, <2>4 DEF WalInv
    <3>2. c \notin Ob
      BY ObAssumption
    <3> QED
      BY <3>1, <3>2 DEF Holds
  <2>6. wal[1].note \subseteq Client /\ wal[i].note \subseteq Client
    BY <1>1, <2>4 DEF States
  <2>7. wal[i].note \in SUBSET latest /\ durable \subseteq wal[i].note
    BY <2>5, <2>6
  <2>8. latest' = wal[i].note /\ durable' = wal[i].note
    BY <2>3
  <2>9. Promise!Lose
    BY <2>2, <2>7, <2>8 DEF Promise!Lose
  <2> QED
    BY <2>9 DEF Promise!Next
<1>9. CASE wal' = wal /\ told' = told
  <2>1. Head0' = Head0
    BY <1>9 DEF Head0
  <2> QED
    BY <1>2, <1>9, <2>1
<1>10. ASSUME NEW o \in Ob, Decide(o)
       PROVE  UNCHANGED <<latest, durable, told>>
  BY <1>1, <1>10, CommitRowAdds DEF Decide
<1>11. ASSUME NEW o \in Ob, Materialize(o)
       PROVE  UNCHANGED <<latest, durable, told>>
  <2>1. PortTypes'
    BY StepPorts DEF IInv
  <2>2. gen' \in Nat
    BY <2>1 DEF PortTypes
  <2> QED
    BY <1>1, <1>11, <2>2, CommitRowAdds DEF Materialize, MaterializeUnder
<1>12. CASE Boot
  <2>1. told' = told
    BY <1>12 DEF Boot, BootWith
  <2>2. UNCHANGED <<latest, durable>>
    BY <1>1, <1>12, BootAdds
  <2> QED
    BY <1>2, <2>1, <2>2
<1>13. \/ wal' = wal /\ told' = told
       \/ \E c \in Client : Write(c)
       \/ \E o \in Ob : Decide(o) \/ Materialize(o)
       \/ Barrier \/ OnSynced \/ Exit \/ Crash \/ PowerLoss \/ Boot
  BY DEF vars, disk, Next, MainStep, HandlerStep, PassStep, Touch, Retry, Redo,
     HandlerFails, StartPass, Sample, Post, PostAs, Death, Spawn
<1> QED
  BY <1>2, <1>3, <1>4, <1>5, <1>6, <1>7, <1>8, <1>9, <1>10, <1>11, <1>12, <1>13

\* An answered flushed() was true, whatever the worker did and however often it,
\* the process or the power failed: the store implements FlushedWrites.
THEOREM FlushedKeepsItsPromise == Spec => ImplementsFlushedWrites
<1>1. Init => Promise!Init
  <2> SUFFICES ASSUME Init
               PROVE  Promise!Init
    OBVIOUS
  <2>1. Len(wal) = 1 /\ wal[1].note = {} /\ told = [c \in Client |-> "idle"]
    BY DEF Init
  <2>2. Head0.note = {}
    BY <2>1 DEF Head0
  <2> QED
    BY <2>1, <2>2 DEF Promise!Init
<1>2. IInv /\ [Next]_vars => [Promise!Next]_(Promise!vars)
  BY StepKeepsPromise
<1> QED
  BY <1>1, <1>2, DurabilityInvariant, PTL DEF Spec, ImplementsFlushedWrites, Promise!Spec

\* What FlushedWrites proves of its answers, said of the store.
Answers == INSTANCE FlushedWritesProofs WITH latest <- Head0.note, durable <- wal[1].note

AnsweredIsDurable == \A c \in Client : told[c] = "answered" => c \in wal[1].note

\* A write whose flushed() was answered is in the state that every power loss leaves,
\* and stays there: the promise of FlusherController, from the refinement.
THEOREM AnsweredWritesSurvive == Spec => []AnsweredIsDurable
<1>1. Promise!Init => Answers!Init
  BY DEF Promise!Init, Answers!Init
<1>2. [Promise!Next]_(Promise!vars) => [Answers!Next]_(Answers!vars)
  BY DEF Promise!Next, Answers!Next, Promise!vars, Answers!vars,
         Promise!Write, Answers!Write, Promise!Tell, Answers!Tell,
         Promise!Harden, Answers!Harden, Promise!Lose, Answers!Lose
<1>3. Answers!AnsweredSurvives => AnsweredIsDurable
  BY DEF AnsweredIsDurable, Answers!AnsweredSurvives
<1>4. Answers!Spec => []Answers!AnsweredSurvives
  BY Answers!AnswersSurvive
<1>5. QED
  BY <1>1, <1>2, <1>3, <1>4, FlushedKeepsItsPromise, PTL
     DEF ImplementsFlushedWrites, Promise!Spec, Answers!Spec
=============================================================================
