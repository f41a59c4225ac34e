----------------------- MODULE DeferredMessagesProofs ------------------------
(***************************************************************************)
(* Proofs about DeferredMessages, for every number of calls and keys and   *)
(* any number of failed writes and restarts: types, the single             *)
(* continuation, and what a promotion, a refusal and a hold may never do.  *)
(*                                                                         *)
(* An evaluation is a loop over awaits.  Landed says in one formula what a *)
(* turn of it does to its draft, and a lemma per caller shows that the     *)
(* caller does that; the invariants and the action properties then follow  *)
(* from Landed alone.                                                      *)
(***************************************************************************)
EXTENDS DeferredMessages, FiniteSetTheorems, TLAPS

\* The rows of drafts and the places of flights.
Row == [state : {"none", "waiting", "held", "dispatched", "cleared"},
        rev : Nat, hold : Holds, heldRev : Nat]
Place == [at : {"idle", "validate", "stage"}, rev : Nat]

\* A draft is named after the create call that was applied, which its key binds;
\* an edit under way names a draft.
DraftInv ==
    \A c \in Call :
        /\ row[c].state # "none" =>
             ActionOf[c] = "create" /\ calls[c] = "applied" /\ bound[KeyOf[c]] = c
        /\ calls[c] = "staging" /\ ActionOf[c] # "create" =>
             request[KeyOf[c]].draft \in Call
        /\ row[c].heldRev <= row[c].rev

\* A flight past its first await has seen the end and the custody of its
\* predecessor, and its draft is neither sent nor held for custody.
FlightInv ==
    \A d \in Call : flight[d] # Idle =>
        /\ up /\ job # "live" /\ custody = "clean" /\ ~active
        /\ row[d].state \in {"waiting", "held", "cleared"}
        /\ row[d].state = "held" => row[d].hold # "settlement_unknown"

\* What keeps a fenced draft from being sent: its hold, the fence in memory, or
\* the restart after which no scope is reported as settled.
FenceInv ==
    /\ owed => up /\ job # "live" /\ custody = "clean" /\ restarts = 0
    /\ ~up => restarts < MaxRestarts
    /\ \A d \in fenced :
         /\ row[d].state # "none"
         /\ up /\ row[d].state = "waiting" => d \in stopped
         /\ up /\ CustodyHold(row[d]) => d \in stopped \/ restarts > 0

\* One reservation or one claim.
SoleInv ==
    /\ \A c, d \in Call : Reserved(c) /\ Reserved(d) => c = d
    /\ claims # {} => \A d \in Call : ~Reserved(d)
    /\ claims = {} \/ \E x \in Call \cup {"explicit"} : claims = {x}

\* The inductive invariant of the next messages.
IInv == TypeOK /\ DraftInv /\ FlightInv /\ FenceInv /\ SoleInv

-----------------------------------------------------------------------------
\* What a flight may make of a draft whose row is r0.
Outcome(d, r0, r) ==
    \/ r = r0
    \/ /\ r0.state = "waiting"
       /\ \E why \in Reasons :
            /\ r = Held(r0, why)
            /\ why = "settlement_unknown" => d \notin stopped
            /\ why = "admission_refused" => r0 = row[d] /\ flight[d].rev = r0.rev
    \/ /\ r0.state = "waiting" /\ r = Sent(r0) /\ r0 = row[d] /\ flight[d].rev = r0.rev
       /\ claims = {} /\ ~closing /\ ~marked /\ d \notin stopped

\* A flight that goes on does so for a waiting draft whose predecessor ended and
\* whose scope is proved empty.
Onward(r, f, busy) ==
    f # Idle => r.state = "waiting" /\ job # "live" /\ custody = "clean" /\ ~busy

\* The turn of a flight, as the rest of the daemon sees it.
Landed(d, r0, busy) ==
    \E r \in Row, f \in Place :
        /\ row' = [row EXCEPT ![d] = r]
        /\ flight' = [flight EXCEPT ![d] = f]
        /\ stopped' = stopped \/ (r.state # "waiting" /\ stopped' = stopped \ {d})
        /\ waiting' \subseteq Call /\ changed' \subseteq Call /\ faults' \in 0..MaxFaults
        /\ Outcome(d, r0, r) /\ Onward(r, f, busy)

\* Held keeps a row a row, and says of which revision the hold is.
LEMMA HeldType ==
    ASSUME NEW r \in Row, NEW why \in Reasons
    PROVE  Held(r, why) \in Row /\ Held(r, why).state = "held"
           /\ Held(r, why).hold = why /\ Held(r, why).heldRev = r.rev /\ Held(r, why).rev = r.rev
BY DEF Held, Row, Holds

\* Fence yields nothing only when no fence stands; it puts a Stop before custody.
LEMMA FenceType ==
    ASSUME NEW d \in Call, NEW busy \in BOOLEAN
    PROVE  /\ Fence(d, busy) \in Reasons \cup {None}
           /\ Fence(d, busy) # "admission_refused" \/ Fence(d, busy) = None
           /\ Fence(d, busy) = "settlement_unknown" => d \notin stopped
           /\ Fence(d, busy) = None =>
                ~closing /\ ~marked /\ d \notin stopped /\ ~busy /\ custody # "unknown"
BY NoReasonAssumption DEF Fence, Reasons

\* The first step of an evaluation lands.
LEMMA BeginLands ==
    ASSUME TypeOK, NEW d \in Call, NEW r \in Row, NEW busy \in BOOLEAN,
           NEW s \in Begin(d, r, busy)
    PROVE  /\ s.row \in Row /\ s.flight \in Place /\ s.cost \in Nat
           /\ Outcome(d, r, s.row) /\ Onward(s.row, s.flight, busy)
<1> DEFINE why == IF job = "unclean" THEN "predecessor" ELSE Fence(d, busy)
<1>1. CASE r.state # "waiting" \/ ~Ended(busy)
  <2>1. s = Step(r, Idle, 0, FALSE)
    BY <1>1 DEF Begin
  <2> QED
    BY <2>1 DEF Step, Idle, Place, Outcome, Onward
<1>2. CASE r.state = "waiting" /\ Ended(busy) /\ why # None
  <2>1. s \in HoldSteps(r, why)
    BY <1>2 DEF Begin
  <2>2. why \in Reasons /\ why # "admission_refused"
        /\ (why = "settlement_unknown" => d \notin stopped)
    BY <1>2, FenceType DEF Reasons
  <2>3. Held(r, why) \in Row
    BY <2>2, HeldType
  <2>4. s = Step(Held(r, why), Idle, 0, FALSE) \/ s = Step(r, Idle, 1, TRUE)
    BY <2>1 DEF HoldSteps
  <2> HIDE DEF why
  <2> QED
    BY <1>2, <2>2, <2>3, <2>4 DEF Step, Idle, Place, Outcome, Onward
<1>3. CASE r.state = "waiting" /\ Ended(busy) /\ why = None
  <2>1. s = Step(r, [at |-> "validate", rev |-> r.rev], 0, FALSE)
    BY <1>3 DEF Begin
  <2>2. Fence(d, busy) = None
    BY <1>3, NoReasonAssumption DEF Reasons
  <2>3. custody = "clean" /\ ~busy /\ job # "live"
    BY <1>3, <2>2, FenceType DEF TypeOK, Ended
  <2> QED
    BY <1>3, <2>1, <2>3 DEF Step, Place, Row, Outcome, Onward
<1> QED
  BY <1>1, <1>2, <1>3

\* An evaluation lands, or is noted for the flight under way.
LEMMA EvaluateLands ==
    ASSUME IInv, NEW d \in Call, NEW r \in Row, r.state = "waiting",
           NEW busy \in BOOLEAN, busy => active, Evaluate(d, r, busy)
    PROVE  Landed(d, r, busy)
<1>1. CASE flight[d] # Idle
  <2>1. /\ row' = [row EXCEPT ![d] = r] /\ changed' = changed \cup {d}
        /\ waiting' = waiting \cup {d} /\ UNCHANGED <<flight, stopped, faults>>
    BY <1>1 DEF Evaluate, EvaluateAs
  <2>2. flight[d] \in Place /\ flight' = [flight EXCEPT ![d] = flight[d]]
    BY <2>1 DEF IInv, TypeOK, Place
  <2>3. Onward(r, flight[d], busy)
    BY <1>1 DEF IInv, FlightInv, Onward
  <2> QED
    BY <2>1, <2>2, <2>3 DEF Landed, Outcome, IInv, TypeOK
<1>2. CASE flight[d] = Idle
  <2>1. PICK s \in Begin(d, r, busy) : Land(d, s, waiting \cup {d})
    BY <1>2 DEF Evaluate, EvaluateAs
  <2>2. changed' = changed \ {d}
    BY <1>2 DEF Evaluate, EvaluateAs
  <2>3. /\ s.row \in Row /\ s.flight \in Place /\ s.cost \in Nat
        /\ Outcome(d, r, s.row) /\ Onward(s.row, s.flight, busy)
    BY BeginLands DEF IInv
  <2>4. faults' \in 0..MaxFaults
    BY <2>1, <2>3, BoundAssumption DEF Land, IInv, TypeOK
  <2>5. /\ row' = [row EXCEPT ![d] = s.row]
        /\ flight' = [flight EXCEPT ![d] = s.flight]
        /\ stopped' = stopped \/ (s.row.state # "waiting" /\ stopped' = stopped \ {d})
        /\ waiting' \subseteq Call
    BY <2>1 DEF Land, IInv, TypeOK
  <2> QED
    BY <2>2, <2>3, <2>4, <2>5 DEF Landed, IInv, TypeOK
<1> QED
  BY <1>1, <1>2

\* A step that ends a flight soundly.
Sound(d, s) ==
    s.row \in Row /\ s.flight = Idle /\ s.cost \in Nat /\ Outcome(d, row[d], s.row)

\* The loop of a flight lands, a second evaluation included.
LEMMA AdvanceLands ==
    ASSUME IInv, NEW d \in Call, NEW steps, \A s \in steps : Sound(d, s), Advance(d, steps)
    PROVE  Landed(d, row[d], active)
<1>1. PICK s \in steps :
        /\ changed' = IF s.threw THEN changed ELSE changed \ {d}
        /\ \E t \in IF s.threw \/ d \notin changed THEN {s}
                     ELSE {[b EXCEPT !.cost = @ + s.cost] : b \in Begin(d, s.row, active)} :
             Land(d, t, waiting)
  BY DEF Advance
<1>2. Sound(d, s)
  OBVIOUS
<1>3. PICK t : /\ Land(d, t, waiting)
               /\ t.row \in Row /\ t.flight \in Place /\ t.cost \in Nat
               /\ Outcome(d, row[d], t.row) /\ Onward(t.row, t.flight, active)
  <2>1. CASE s.threw \/ d \notin changed
    BY <1>1, <1>2, <2>1 DEF Sound, Onward, Idle, Place
  <2>2. CASE ~(s.threw \/ d \notin changed)
    <3>1. PICK b \in Begin(d, s.row, active) : Land(d, [b EXCEPT !.cost = @ + s.cost], waiting)
      BY <1>1, <2>2
    <3>2. active \in BOOLEAN
      BY DEF IInv, TypeOK
    <3>3. /\ b.row \in Row /\ b.flight \in Place /\ b.cost \in Nat
          /\ Outcome(d, s.row, b.row) /\ Onward(b.row, b.flight, active)
      BY <1>2, <3>2, BeginLands DEF IInv, Sound
    <3> DEFINE t == [b EXCEPT !.cost = @ + s.cost]
    <3>4. t.row = b.row /\ t.flight = b.flight /\ t.cost = b.cost + s.cost
      <4>1. b = [row |-> b.row, flight |-> b.flight, cost |-> b.cost, threw |-> b.threw]
        BY DEF Begin, HoldSteps, Step
      <4> QED
        BY <4>1
    <3>5. Outcome(d, row[d], b.row)
      <4>1. CASE s.row = row[d]
        BY <3>3, <4>1
      <4>2. CASE s.row # row[d]
        <5>1. s.row.state # "waiting"
          <6>1. row[d] \in Row
            BY DEF IInv, TypeOK, Row
          <6>2. \/ \E why \in Reasons : s.row = Held(row[d], why)
                \/ s.row = Sent(row[d])
            BY <1>2, <4>2 DEF Sound, Outcome
          <6> QED
            BY <6>1, <6>2, HeldType DEF Sent, Row
        <5>2. b.row = s.row
          BY <3>3, <5>1 DEF Outcome
        <5> QED
          BY <1>2, <5>2 DEF Sound
      <4> QED
        BY <4>1, <4>2
    <3>6. Land(d, t, waiting) /\ t.row \in Row /\ t.flight \in Place /\ t.cost \in Nat
          /\ Outcome(d, row[d], t.row) /\ Onward(t.row, t.flight, active)
      BY <1>2, <3>1, <3>3, <3>4, <3>5 DEF Sound
    <3> HIDE DEF t
    <3> QED
      BY <3>6
  <2> QED
    BY <2>1, <2>2
<1>4. faults' \in 0..MaxFaults
  BY <1>3, BoundAssumption DEF Land, IInv, TypeOK
<1>5. /\ row' = [row EXCEPT ![d] = t.row]
      /\ flight' = [flight EXCEPT ![d] = t.flight]
      /\ stopped' = stopped \/ (t.row.state # "waiting" /\ stopped' = stopped \ {d})
      /\ waiting' \subseteq Call /\ changed' \subseteq Call
  BY <1>1, <1>3 DEF Land, IInv, TypeOK
<1> QED
  BY <1>3, <1>4, <1>5 DEF Landed

\* A refused validation and a promotion land.
LEMMA FlightsLand ==
    ASSUME IInv, NEW d \in Call, ValidateFails(d) \/ Promote(d)
    PROVE  flight[d] # Idle /\ Landed(d, row[d], active)
<1>1. row[d] \in Row
  BY DEF IInv, TypeOK, Row
<1>2. Idle \in Place /\ flight[d] # Idle
  BY DEF ValidateFails, Promote, Idle, Place
<1>3. CASE ValidateFails(d)
  <2>1. ASSUME NEW s \in ValidateSteps(d)
        PROVE  Sound(d, s)
    <3>1. "admission_refused" \in Reasons
      BY DEF Reasons
    <3>2. Held(row[d], "admission_refused") \in Row
      BY <1>1, <3>1, HeldType
    <3>3. \/ s.row = row[d] /\ s.flight = Idle /\ s.cost \in Nat
          \/ /\ s.row = Held(row[d], "admission_refused") /\ s.flight = Idle /\ s.cost \in Nat
             /\ row[d].rev = flight[d].rev /\ row[d].state = "waiting"
      BY DEF ValidateSteps, HoldSteps, Step
    <3> QED
      BY <1>1, <3>1, <3>2, <3>3 DEF Sound, Outcome
  <2> QED
    BY <1>2, <1>3, <2>1, AdvanceLands DEF ValidateFails
<1>4. CASE Promote(d)
  <2>1. ASSUME NEW s \in PromoteSteps(d)
        PROVE  Sound(d, s)
    <3> DEFINE current == row[d].rev = flight[d].rev /\ row[d].state = "waiting"
    <3>1. "admission_refused" \in Reasons /\ "predecessor" \in Reasons
          /\ active \in BOOLEAN
      BY DEF Reasons, IInv, TypeOK
    <3>2. \A why \in Reasons : Held(row[d], why) \in Row
      BY <1>1, HeldType
    <3>3. Sent(row[d]) \in Row
      BY <1>1 DEF Sent, Row
    <3>4. ASSUME NEW why \in Refusals(d)
          PROVE  /\ why \in Reasons \cup {None}
                 /\ why = "settlement_unknown" => d \notin stopped
                 /\ why = None => claims = {} /\ ~closing /\ ~marked /\ d \notin stopped
      <4>1. CASE Fence(d, active) # None
        BY <3>1, <4>1, FenceType, NoReasonAssumption DEF Refusals
      <4>2. CASE Fence(d, active) = None
        BY <3>1, <4>2, FenceType, NoReasonAssumption DEF Refusals, Reasons
      <4> QED
        BY <4>1, <4>2
    <3>5. /\ s.flight = Idle /\ s.cost \in Nat
          /\ \/ s.row = row[d]
             \/ current /\ s.row = Held(row[d], "admission_refused")
             \/ current /\ \E why \in Refusals(d) :
                  s.row = IF why = None THEN Sent(row[d]) ELSE Held(row[d], why)
      BY DEF PromoteSteps, PromoteFrom, Step
    <3>6. CASE s.row = row[d] \/ (current /\ s.row = Held(row[d], "admission_refused"))
      BY <1>1, <3>1, <3>2, <3>5, <3>6 DEF Sound, Outcome
    <3>7. CASE current /\ \E why \in Refusals(d) :
                  s.row = IF why = None THEN Sent(row[d]) ELSE Held(row[d], why)
      <4>1. PICK why \in Refusals(d) :
              s.row = IF why = None THEN Sent(row[d]) ELSE Held(row[d], why)
        BY <3>7
      <4>2. CASE why = None
        BY <3>3, <3>4, <3>5, <3>7, <4>1, <4>2 DEF Sound, Outcome
      <4>3. CASE why # None
        BY <3>2, <3>4, <3>5, <3>7, <4>1, <4>3 DEF Sound, Outcome
      <4> QED
        BY <4>2, <4>3
    <3> QED
      BY <3>5, <3>6, <3>7
  <2> QED
    BY <1>2, <1>4, <2>1, AdvanceLands DEF Promote
<1> QED
  BY <1>2, <1>3, <1>4

\* What a mutation writes for its draft.
Edited(c, d, r) ==
    \/ /\ ActionOf[c] = "create" /\ d = c /\ Creatable
       /\ r = [state |-> "waiting", rev |-> 1, hold |-> None, heldRev |-> 0]
    \/ /\ ActionOf[c] = "replace" /\ Reserved(d)
       /\ r = [row[d] EXCEPT !.rev = @ + 1]
    \/ /\ ActionOf[c] = "clear" /\ Reserved(d)
       /\ r = [row[d] EXCEPT !.rev = @ + 1, !.state = "cleared"]

\* A mutation that is applied, for its draft and the row it writes.
Applies(c, d, r) ==
    /\ ~closing /\ bound[KeyOf[c]] = None /\ Edited(c, d, r)
    /\ calls' = [calls EXCEPT ![c] = "applied"]
    /\ bound' = [bound EXCEPT ![KeyOf[c]] = d]
    /\ \/ r.state = "waiting" /\ Landed(d, r, active)
       \/ /\ r.state # "waiting" /\ row' = [row EXCEPT ![d] = r]
          /\ waiting' = waiting \ {d} /\ stopped' = stopped \ {d}
          /\ UNCHANGED <<flight, changed, faults>>

\* A mutation answers, or applies one edit of one draft.
LEMMA CommitApplies ==
    ASSUME IInv, NEW c \in Call, Commit(c)
    PROVE  /\ up /\ calls[c] = "staging"
           /\ UNCHANGED <<predecessor, claims, up, request, closing, unsaved, fenced,
                          restarts>>
           /\ \/ /\ \E end \in {"replay", "refused"} : calls' = [calls EXCEPT ![c] = end]
                 /\ UNCHANGED <<row, bound, engine>>
              \/ \E d \in Call, r \in Row : Applies(c, d, r)
<1> DEFINE k == KeyOf[c]
           d == IF ActionOf[c] = "create" THEN c ELSE request[k].draft
           r == Applied(c, request[k])
<1>1. up /\ calls[c] = "staging"
      /\ UNCHANGED <<predecessor, claims, up, request, closing, unsaved, fenced, restarts>>
  BY DEF Commit, CommitAs
<1>2. CASE closing \/ bound[k] # None \/ Refused(c, request[k])
  BY <1>1, <1>2 DEF Commit, CommitAs
<1>3. CASE ~(closing \/ bound[k] # None \/ Refused(c, request[k]))
  <2>1. d \in Call /\ row[d] \in Row
    BY <1>1 DEF IInv, DraftInv, TypeOK, Row
  <2>2. ActionOf[c] \in {"create", "replace", "clear"}
    BY RequestAssumption
  <2>3. r \in Row /\ Edited(c, d, r)
    <3>1. CASE ActionOf[c] = "create"
      BY <1>3, <3>1 DEF Refused, Applied, NoRow, Row, Holds, Edited
    <3>2. CASE ActionOf[c] = "replace"
      BY <1>3, <2>1, <3>2 DEF Refused, Editable, Applied, Row, Edited
    <3>3. CASE ActionOf[c] = "clear"
      <4>1. r = [row[d] EXCEPT !.rev = @ + 1, !.state = "cleared"]
        BY <3>3 DEF Applied
      <4>2. Reserved(d)
        BY <1>3, <3>3 DEF Refused, Editable
      <4>3. r \in Row
        <5> HIDE DEF r, d
        <5>1. r = [state |-> "cleared", rev |-> row[d].rev + 1, hold |-> row[d].hold,
                   heldRev |-> row[d].heldRev]
          BY <2>1, <4>1 DEF Row
        <5> QED
          BY <2>1, <5>1 DEF Row
      <4> HIDE DEF r, d
      <4> QED
        BY <3>3, <4>1, <4>2, <4>3 DEF Edited
    <3> QED
      BY <2>2, <3>1, <3>2, <3>3
  <2>4. /\ calls' = [calls EXCEPT ![c] = "applied"]
        /\ bound' = [bound EXCEPT ![k] = d]
        /\ IF r.state = "waiting" THEN Evaluate(d, r, active)
           ELSE /\ row' = [row EXCEPT ![d] = r]
                /\ waiting' = waiting \ {d} /\ stopped' = stopped \ {d}
                /\ UNCHANGED <<flight, changed, faults>>
    BY <1>3 DEF Commit, CommitAs
  <2>5. active \in BOOLEAN
    BY DEF IInv, TypeOK
  <2> HIDE DEF d, r, k
  <2>6. r.state = "waiting" => Landed(d, r, active)
    BY <2>1, <2>3, <2>4, <2>5, EvaluateLands
  <2>7. ~closing /\ bound[k] = None
    BY <1>3
  <2>8. Applies(c, d, r)
    BY <2>3, <2>4, <2>6, <2>7 DEF Applies, k
  <2> QED
    BY <1>1, <2>1, <2>3, <2>8
<1> QED
  BY <1>2, <1>3

\* The end of the predecessor's runner evaluates the waiting draft.
LEMMA FreeSlotLands ==
    ASSUME IInv, FreeSlot
    PROVE  \/ UNCHANGED <<row, engine>>
           \/ \E d \in Call : row[d].state = "waiting" /\ Landed(d, row[d], FALSE)
<1>1. ASSUME NEW d \in Call, row[d].state = "waiting", Evaluate(d, row[d], FALSE)
      PROVE  Landed(d, row[d], FALSE)
  <2>1. row[d] \in Row
    BY DEF IInv, TypeOK, Row
  <2> QED
    BY <1>1, <2>1, EvaluateLands
<1> QED
  BY <1>1 DEF FreeSlot

\* The draft that a later settlement of its predecessor's scope makes wait again.
Resumed(r) == [r EXCEPT !.state = "waiting", !.hold = None]

\* A late settlement resumes a custody hold, or nothing.
LEMMA ReportLands ==
    ASSUME IInv, Report
    PROVE  /\ owed /\ up
           /\ \/ UNCHANGED <<row, waiting, stopped, flight, changed>> /\ owed' \in {owed, FALSE}
                 /\ faults' \in 0..MaxFaults
              \/ \E d \in Call :
                   /\ ~closing /\ d \notin stopped /\ CustodyHold(row[d]) /\ owed' = FALSE
                   /\ Resumed(row[d]) \in Row /\ Landed(d, Resumed(row[d]), active)
<1>1. ASSUME NEW d \in Call, ~closing, d \notin stopped, CustodyHold(row[d]), owed' = FALSE,
             Resume(d, [row[d] EXCEPT !.state = "waiting", !.hold = None])
      PROVE  Resumed(row[d]) \in Row /\ Landed(d, Resumed(row[d]), active)
  <2>1. Resumed(row[d]) \in Row /\ Resumed(row[d]).state = "waiting"
    <3>1. row[d] \in Row
      BY DEF IInv, TypeOK, Row
    <3> QED
      BY <3>1 DEF Row, Resumed, Holds
  <2>2. Evaluate(d, Resumed(row[d]), active) /\ active \in BOOLEAN
    BY <1>1 DEF Resume, Resumed, IInv, TypeOK
  <2> QED
    BY <2>1, <2>2, EvaluateLands
<1>2. owed /\ up
  BY DEF Report
<1>3. \/ UNCHANGED <<row, waiting, stopped, flight, changed, owed>> /\ Fault
      \/ owed' = FALSE /\ UNCHANGED <<row, engine>>
      \/ \E d \in Call :
           /\ ~closing /\ d \notin stopped /\ CustodyHold(row[d]) /\ owed' = FALSE
           /\ Resume(d, [row[d] EXCEPT !.state = "waiting", !.hold = None])
  BY DEF Report
<1>4. Fault => faults' \in 0..MaxFaults
  BY BoundAssumption DEF Fault, IInv, TypeOK
<1>5. faults \in 0..MaxFaults
  BY DEF IInv, TypeOK
<1> QED
  BY <1>1, <1>2, <1>3, <1>4, <1>5 DEF engine

-----------------------------------------------------------------------------
\* TypeOK is inductive in IInv.
LEMMA TypeOKStep ==
    ASSUME IInv, [Next]_vars
    PROVE  TypeOK'
<1> USE BoundAssumption DEF IInv, TypeOK, predecessor, requests, engine
<1>l. ASSUME NEW d \in Call, NEW r \in Row, NEW busy, Landed(d, r, busy)
      PROVE  /\ row' \in [Call -> Row] /\ flight' \in [Call -> Place]
             /\ waiting' \subseteq Call /\ stopped' \subseteq Call
             /\ changed' \subseteq Call /\ faults' \in 0..MaxFaults
  BY <1>l DEF Landed, Row, Place
<1>r. row \in [Call -> Row] /\ flight \in [Call -> Place]
  BY DEF Row, Place
<1>1. ASSUME NEW d \in Call, Validated(d)
      PROVE  TypeOK'
  BY <1>1 DEF Validated
<1>2. ASSUME NEW d \in Call, ValidateFails(d) \/ Promote(d)
      PROVE  TypeOK'
  <2>1. Landed(d, row[d], active) /\ row[d] \in Row
    BY <1>2, <1>r, FlightsLand
  <2> QED
    BY <1>2, <1>l, <2>1 DEF ValidateFails, Promote, Row, Place
<1>3. ASSUME NEW c \in Call, Mutate(c)
      PROVE  TypeOK'
  <2>1. request' \in [Key -> [draft : Call \cup {None}, rev : Nat]]
    <3>1. KeyOf[c] \in Key
      BY RequestAssumption
    <3>2. PICK d \in Call :
            request' = IF ActionOf[c] = "create" \/ request[KeyOf[c]].draft # None THEN request
                       ELSE [request EXCEPT ![KeyOf[c]] = [draft |-> d, rev |-> row[d].rev]]
      BY <1>3 DEF Mutate
    <3> QED
      BY <3>1, <3>2
  <2>2. calls' \in [Call -> {"idle", "staging", "applied", "replay", "refused", "lost"}]
    BY <1>3 DEF Mutate
  <2> QED
    BY <1>3, <2>1, <2>2 DEF Mutate
<1>4. ASSUME NEW c \in Call, Commit(c)
      PROVE  TypeOK'
  <2>1. CASE UNCHANGED <<row, bound, engine>>
    BY <1>4, <2>1, CommitApplies DEF Applies
  <2>2. ASSUME NEW d \in Call, NEW r \in Row, Applies(c, d, r)
        PROVE  TypeOK'
    <3>1. /\ row' \in [Call -> Row] /\ flight' \in [Call -> Place]
          /\ waiting' \subseteq Call /\ stopped' \subseteq Call
          /\ changed' \subseteq Call /\ faults' \in 0..MaxFaults
      BY <1>l, <1>r, <2>2 DEF Applies
    <3>2. /\ bound' \in [Key -> Call \cup {None}]
          /\ calls' \in [Call -> {"idle", "staging", "applied", "replay", "refused", "lost"}]
      BY <2>2, RequestAssumption DEF Applies
    <3>3. UNCHANGED <<predecessor, claims, up, request, closing, unsaved, fenced, restarts>>
      BY <1>4, CommitApplies
    <3> QED
      BY <3>1, <3>2, <3>3 DEF Row, Place
  <2> QED
    BY <1>4, <2>1, <2>2, CommitApplies
<1>5. ASSUME NEW c \in Call, CommitFails(c)
      PROVE  TypeOK'
  BY <1>5 DEF CommitFails, Fault
<1>6. CASE Start \/ End \/ EndCancelled \/ Continue \/ Release \/ ScopeSettles \/ StopFails
  <2>1. CASE Start \/ EndCancelled \/ Continue \/ Release \/ ScopeSettles
    BY <2>1 DEF Start, EndCancelled, Continue, Release, ScopeSettles
  <2>2. CASE End
    BY <2>2 DEF End
  <2>3. CASE StopFails
    BY <2>3 DEF StopFails, Fault
  <2> QED
    BY <1>6, <2>1, <2>2, <2>3
<1>7. CASE FreeSlot
  <2>1. /\ row' \in [Call -> Row] /\ flight' \in [Call -> Place]
        /\ waiting' \subseteq Call /\ stopped' \subseteq Call
        /\ changed' \subseteq Call /\ faults' \in 0..MaxFaults
    BY <1>7, <1>l, <1>r, FreeSlotLands
  <2> QED
    BY <1>7, <2>1 DEF FreeSlot, Row, Place
<1>8. CASE Stop
  <2>1. job' \in {"live", "clean", "unclean"} /\ marked' \in BOOLEAN
    BY <1>8 DEF Stop
  <2>2. ASSUME NEW d \in Call, StopDraft(d)
        PROVE  /\ row' \in [Call -> Row] /\ stopped' \subseteq Call
               /\ fenced' \subseteq Call /\ faults' \in 0..MaxFaults
    <3>1. StopHold(row[d]) \in Row
      BY <1>r, HeldType DEF StopHold, Row, Reasons, Holds
    <3> QED
      BY <1>r, <2>2, <3>1 DEF StopDraft, Fault
  <2>3. /\ row' \in [Call -> Row] /\ stopped' \subseteq Call
        /\ fenced' \subseteq Call /\ faults' \in 0..MaxFaults
    BY <1>8, <1>r, <2>2 DEF Stop
  <2> QED
    BY <1>8, <2>1, <2>3 DEF Stop, Row
<1>9. CASE Report
  <2>1. /\ row' \in [Call -> Row] /\ flight' \in [Call -> Place]
        /\ waiting' \subseteq Call /\ stopped' \subseteq Call /\ owed' \in BOOLEAN
        /\ changed' \subseteq Call /\ faults' \in 0..MaxFaults
    BY <1>9, <1>l, <1>r, ReportLands
  <2> QED
    BY <1>9, <2>1 DEF Report, Row, Place
<1>10. CASE Shutdown
  <2>1. row' \in [Call -> Row]
    <3>1. \A d \in Call : row[d] \in Row /\ Held(row[d], "shutdown") \in Row
      BY <1>r, HeldType DEF Reasons
    <3> QED
      BY <1>10, <3>1 DEF Shutdown
  <2>2. PICK failed \in SUBSET {d \in waiting : row[d].state = "waiting"} :
          /\ faults + Cardinality(failed) <= MaxFaults
          /\ faults' = faults + Cardinality(failed) /\ unsaved' = failed
    BY <1>10 DEF Shutdown
  <2>3. Cardinality(failed) \in Nat /\ failed \subseteq Call
    <3>1. failed \subseteq Call
      OBVIOUS
    <3> QED
      BY <3>1, CallAssumption, FS_Subset, FS_CardinalityType
  <2>4. faults' \in 0..MaxFaults /\ unsaved' \subseteq Call
    BY <2>2, <2>3
  <2> QED
    BY <1>10, <2>1, <2>4 DEF Shutdown, Row
<1>11. CASE Down
  BY <1>11 DEF Down, Idle
<1>12. CASE Restart
  <2>1. row' \in [Call -> Row]
    <3>1. \A d \in Call : RestartHold(row[d]) \in Row
      BY <1>r, HeldType DEF RestartHold, Reasons
    <3> QED
      BY <1>12, <3>1 DEF Restart
  <2> QED
    BY <1>12, <2>1 DEF Restart, FenceInv, Row
<1>13. CASE UNCHANGED vars
  BY <1>13 DEF vars
<1> QED
  BY <1>1, <1>2, <1>3, <1>4, <1>5, <1>6, <1>7, <1>8, <1>9, <1>10, <1>11, <1>12, <1>13
     DEF Next, FlightStep

\* What a landing did, without the records.
LEMMA LandedShape ==
    ASSUME TypeOK, NEW d \in Call, NEW r0 \in Row, NEW busy, Landed(d, r0, busy)
    PROVE  /\ \A x \in Call \ {d} : row'[x] = row[x] /\ flight'[x] = flight[x]
           /\ row'[d] \in Row /\ Outcome(d, r0, row'[d]) /\ Onward(row'[d], flight'[d], busy)
           /\ stopped' = stopped \/ (row'[d].state # "waiting" /\ stopped' = stopped \ {d})
           /\ \/ row'[d] = r0
              \/ /\ r0.state = "waiting" /\ row'[d].state = "held"
                 /\ row'[d].hold = "settlement_unknown" => d \notin stopped
                 /\ row'[d].hold = "admission_refused" => r0 = row[d] /\ flight[d].rev = r0.rev
              \/ /\ r0.state = "waiting" /\ row'[d].state = "dispatched"
                 /\ r0 = row[d] /\ flight[d].rev = r0.rev
                 /\ claims = {} /\ ~closing /\ ~marked /\ d \notin stopped
           /\ r0.heldRev <= r0.rev => row'[d].heldRev <= row'[d].rev
<1>1. PICK r \in Row, f \in Place :
        /\ row' = [row EXCEPT ![d] = r]
        /\ flight' = [flight EXCEPT ![d] = f]
        /\ stopped' = stopped \/ (r.state # "waiting" /\ stopped' = stopped \ {d})
        /\ Outcome(d, r0, r) /\ Onward(r, f, busy)
  BY DEF Landed
<1>2. /\ row'[d] = r /\ flight'[d] = f
      /\ \A x \in Call \ {d} : row'[x] = row[x] /\ flight'[x] = flight[x]
  BY <1>1 DEF TypeOK
<1>3. \/ r = r0
      \/ /\ r0.state = "waiting" /\ r.state = "held"
         /\ r.hold = "settlement_unknown" => d \notin stopped
         /\ r.hold = "admission_refused" => r0 = row[d] /\ flight[d].rev = r0.rev
      \/ /\ r0.state = "waiting" /\ r.state = "dispatched"
         /\ r0 = row[d] /\ flight[d].rev = r0.rev
         /\ claims = {} /\ ~closing /\ ~marked /\ d \notin stopped
  <2>1. r = Sent(r0) => r.state = "dispatched"
    BY DEF Sent, Row
  <2>2. ASSUME NEW why \in Reasons, r = Held(r0, why)
        PROVE  r.state = "held" /\ r.hold = why
    BY <2>2, HeldType
  <2> QED
    BY <1>1, <2>1, <2>2 DEF Outcome
<1>4. r0.heldRev <= r0.rev => r.heldRev <= r.rev
  BY <1>1, HeldType DEF Outcome, Sent, Row
<1> QED
  BY <1>1, <1>2, <1>3, <1>4

\* Rows are rows.
LEMMA RowsAreTyped ==
    ASSUME TypeOK, NEW d \in Call
    PROVE  row[d] \in Row
BY DEF TypeOK, Row

\* A Stop holds what waits and reholds what custody holds.
LEMMA StopHoldShape ==
    ASSUME NEW r \in Row
    PROVE  /\ StopHold(r) \in Row
           /\ r.state = "waiting" => StopHold(r).state = "held"
                                      /\ StopHold(r).hold = "stop_requested"
           /\ CustodyHold(r) => StopHold(r).state = "held" /\ StopHold(r).hold = "stop_requested"
           /\ r.state # "waiting" /\ ~CustodyHold(r) => StopHold(r) = r
           /\ r.heldRev <= r.rev => StopHold(r).heldRev <= StopHold(r).rev
<1>1. "stop_requested" \in Reasons
  BY DEF Reasons
<1>2. CASE r.state = "waiting"
  <2>1. StopHold(r) = Held(r, "stop_requested") /\ ~CustodyHold(r)
    BY <1>2 DEF StopHold, CustodyHold
  <2>2. r.rev \in Nat
    BY DEF Row
  <2> QED
    BY <1>1, <1>2, <2>1, <2>2, HeldType
<1>3. CASE CustodyHold(r)
  BY <1>1, <1>3 DEF StopHold, CustodyHold, Row, Holds
<1>4. CASE r.state # "waiting" /\ ~CustodyHold(r)
  BY <1>4 DEF StopHold
<1> QED
  BY <1>2, <1>3, <1>4

\* An edit raises the revision and keeps the hold.
LEMMA EditedShape ==
    ASSUME TypeOK, NEW c \in Call, NEW d \in Call, NEW r, Edited(c, d, r)
    PROVE  \/ /\ ActionOf[c] = "create" /\ d = c /\ Creatable
              /\ r.state = "waiting" /\ r.heldRev = 0 /\ r.rev = 1
           \/ /\ ActionOf[c] # "create" /\ Reserved(d)
              /\ r.state = row[d].state /\ r.hold = row[d].hold
              /\ r.heldRev = row[d].heldRev /\ r.rev = row[d].rev + 1
           \/ /\ ActionOf[c] # "create" /\ Reserved(d)
              /\ r.state = "cleared" /\ r.hold = row[d].hold
              /\ r.heldRev = row[d].heldRev /\ r.rev = row[d].rev + 1
<1>1. row[d] \in Row
  BY RowsAreTyped
<1>2. CASE ActionOf[c] = "create"
  BY <1>2 DEF Edited
<1>3. CASE ActionOf[c] = "replace" /\ Reserved(d) /\ r = [row[d] EXCEPT !.rev = @ + 1]
  BY <1>1, <1>3 DEF Row
<1>4. CASE ActionOf[c] = "clear" /\ Reserved(d)
           /\ r = [row[d] EXCEPT !.rev = @ + 1, !.state = "cleared"]
  <2>1. /\ r.state = "cleared" /\ r.hold = row[d].hold
        /\ r.heldRev = row[d].heldRev /\ r.rev = row[d].rev + 1
    BY <1>1, <1>4 DEF Row
  <2> QED
    BY <1>4, <2>1
<1> QED
  BY <1>2, <1>3, <1>4 DEF Edited

\* Only the create call of a draft makes its row, under a key that binds nothing.
LEMMA DraftInvStep ==
    ASSUME IInv, [Next]_vars
    PROVE  DraftInv'
<1> USE DEF predecessor, requests, engine
<1>i. TypeOK /\ DraftInv /\ \A d \in Call : row[d] \in Row
  BY RowsAreTyped DEF IInv
<1>n. \A d \in Call : row[d].heldRev \in Nat /\ row[d].rev \in Nat
                     /\ row[d].heldRev <= row[d].rev
  BY <1>i DEF DraftInv, Row
<1>k. ASSUME \A c \in Call : /\ row'[c].state # "none" => row[c].state # "none"
                             /\ row'[c].heldRev <= row'[c].rev,
             UNCHANGED <<bound, calls, request>>
      PROVE  DraftInv'
  BY <1>i, <1>k DEF DraftInv
<1>1. ASSUME NEW d \in Call, Validated(d)
      PROVE  DraftInv'
  BY <1>1, <1>k, <1>n DEF Validated
<1>2. ASSUME NEW d \in Call, ValidateFails(d) \/ Promote(d)
      PROVE  DraftInv'
  BY <1>2, <1>i, <1>k, <1>n, FlightsLand, LandedShape DEF ValidateFails, Promote
<1>3. ASSUME NEW c \in Call, Mutate(c)
      PROVE  DraftInv'
  <2>1. KeyOf[c] \in Key
    BY RequestAssumption
  <2>2. PICK d \in Call :
          request' = IF ActionOf[c] = "create" \/ request[KeyOf[c]].draft # None THEN request
                     ELSE [request EXCEPT ![KeyOf[c]] = [draft |-> d, rev |-> row[d].rev]]
    BY <1>3 DEF Mutate
  <2>3. \A k \in Key : request[k].draft \in Call => request'[k].draft \in Call
    BY <1>i, <2>1, <2>2 DEF TypeOK
  <2>4. ActionOf[c] # "create" => request'[KeyOf[c]].draft \in Call
    BY <1>i, <2>1, <2>2 DEF TypeOK
  <2>5. /\ calls[c] = "idle" /\ UNCHANGED <<row, bound>>
        /\ \E at \in {"replay", "refused", "staging"} : calls' = [calls EXCEPT ![c] = at]
    BY <1>3 DEF Mutate
  <2>6. \A x \in Call : KeyOf[x] \in Key
    BY RequestAssumption
  <2> QED
    BY <1>i, <2>3, <2>4, <2>5, <2>6 DEF DraftInv, TypeOK
<1>4. ASSUME NEW c \in Call, Commit(c)
      PROVE  DraftInv'
  <2>1. CASE /\ \E end \in {"replay", "refused"} : calls' = [calls EXCEPT ![c] = end]
             /\ UNCHANGED <<row, bound, engine>>
    <3>1. calls[c] = "staging" /\ request' = request /\ row' = row /\ bound' = bound
      BY <1>4, <2>1, CommitApplies
    <3>2. PICK end \in {"replay", "refused"} : calls' = [calls EXCEPT ![c] = end]
      BY <2>1
    <3> QED
      BY <1>i, <3>1, <3>2 DEF DraftInv, TypeOK
  <2>2. ASSUME NEW d \in Call, NEW r \in Row, Applies(c, d, r)
        PROVE  DraftInv'
    <3>1. \A x \in Call \ {d} : row'[x] = row[x]
      BY <1>i, <2>2, LandedShape DEF Applies, TypeOK
    <3>5. row'[d].heldRev <= row'[d].rev
      <4>1. r.heldRev <= r.rev
        BY <1>i, <1>n, <2>2, EditedShape DEF Applies
      <4> QED
        BY <1>i, <2>2, <4>1, LandedShape DEF Applies, TypeOK
    <3>2. /\ calls' = [calls EXCEPT ![c] = "applied"] /\ bound[KeyOf[c]] = None
          /\ bound' = [bound EXCEPT ![KeyOf[c]] = d] /\ request' = request
          /\ KeyOf \in [Call -> Key]
      BY <1>4, <2>2, CommitApplies, RequestAssumption DEF Applies
    <3>3. CASE ActionOf[c] = "create"
      <4>1. d = c
        BY <2>2, <3>3 DEF Applies, Edited
      <4> QED
        BY <1>i, <3>1, <3>2, <3>3, <3>5, <4>1, CallAssumption DEF DraftInv, TypeOK
    <3>4. CASE ActionOf[c] # "create"
      <4>1. row[d].state # "none"
        BY <2>2, <3>4 DEF Applies, Edited, Reserved
      <4>2. \A x \in Call : row[x].state # "none" => KeyOf[x] # KeyOf[c]
        BY <1>i, <3>4, RequestAssumption DEF DraftInv
      <4>3. \A x \in Call : row'[x].state # "none" => row[x].state # "none" /\ x # c
        BY <1>i, <3>1, <3>4, <4>1 DEF DraftInv
      <4>4. \A x \in Call : row[x].state # "none" => bound'[KeyOf[x]] = bound[KeyOf[x]]
        BY <1>i, <3>2, <4>2 DEF TypeOK
      <4> QED
        BY <1>i, <3>1, <3>2, <3>5, <4>3, <4>4 DEF DraftInv, TypeOK
    <3> QED
      BY <3>3, <3>4
  <2> QED
    BY <1>4, <2>1, <2>2, CommitApplies
<1>5. ASSUME NEW c \in Call, CommitFails(c)
      PROVE  DraftInv'
  BY <1>5, <1>i DEF CommitFails, DraftInv, TypeOK
<1>6. CASE Start \/ End \/ EndCancelled \/ Continue \/ Release \/ ScopeSettles \/ StopFails
  BY <1>6, <1>k, <1>n DEF Start, End, EndCancelled, Continue, Release, ScopeSettles, StopFails
<1>7. CASE FreeSlot
  <2>1. \A c \in Call : /\ row'[c].state # "none" => row[c].state # "none"
                        /\ row'[c].heldRev <= row'[c].rev
    BY <1>7, <1>i, <1>n, FreeSlotLands, LandedShape
  <2> QED
    BY <1>7, <1>k, <2>1 DEF FreeSlot
<1>8. CASE Stop
  <2>1. ASSUME NEW d \in Call, Reserved(d), StopDraft(d)
        PROVE  \A c \in Call : /\ row'[c].state # "none" => row[c].state # "none"
                               /\ row'[c].heldRev <= row'[c].rev
    <3>1. row' = row \/ row' = [row EXCEPT ![d] = StopHold(row[d])]
      BY <2>1 DEF StopDraft
    <3> QED
      BY <1>i, <1>n, <2>1, <3>1, StopHoldShape DEF Reserved, TypeOK
  <2>2. \A c \in Call : /\ row'[c].state # "none" => row[c].state # "none"
                        /\ row'[c].heldRev <= row'[c].rev
    BY <1>8, <1>n, <2>1 DEF Stop
  <2> QED
    BY <1>8, <1>k, <2>2 DEF Stop
<1>9. CASE Report
  <2>1. \A c \in Call : /\ row'[c].state # "none" => row[c].state # "none"
                        /\ row'[c].heldRev <= row'[c].rev
    <3>1. \A d \in Call : Resumed(row[d]).heldRev <= Resumed(row[d]).rev
      BY <1>i, <1>n DEF Resumed, Row
    <3>2. CASE row' = row
      BY <1>n, <3>2
    <3>3. ASSUME NEW d \in Call, CustodyHold(row[d]), Resumed(row[d]) \in Row,
                 Landed(d, Resumed(row[d]), active)
          PROVE  \A c \in Call : /\ row'[c].state # "none" => row[c].state # "none"
                                 /\ row'[c].heldRev <= row'[c].rev
      BY <1>i, <1>n, <3>1, <3>3, LandedShape DEF CustodyHold
    <3> QED
      BY <1>9, <3>2, <3>3, ReportLands
  <2> QED
    BY <1>9, <1>k, <2>1 DEF Report
<1>10. CASE Shutdown
  <2>1. \A d \in Call : row'[d] = row[d] \/ (row[d].state = "waiting"
                                              /\ row'[d] = Held(row[d], "shutdown"))
    BY <1>10 DEF Shutdown
  <2>2. "shutdown" \in Reasons
    BY DEF Reasons
  <2> QED
    BY <1>10, <1>i, <1>k, <1>n, <2>1, <2>2, HeldType DEF Shutdown
<1>11. CASE Down
  BY <1>11, <1>i DEF Down, DraftInv, TypeOK
<1>12. CASE Restart
  <2>1. \A d \in Call : row'[d] = row[d] \/ (row[d].state = "waiting"
              /\ row'[d] = Held(row[d], "restart_requires_controller"))
    BY <1>12 DEF Restart, RestartHold
  <2>2. "restart_requires_controller" \in Reasons
    BY DEF Reasons
  <2> QED
    BY <1>12, <1>i, <1>k, <1>n, <2>1, <2>2, HeldType DEF Restart
<1>13. CASE UNCHANGED vars
  BY <1>13, <1>k, <1>n DEF vars
<1> QED
  BY <1>1, <1>2, <1>3, <1>4, <1>5, <1>6, <1>7, <1>8, <1>9, <1>10, <1>11, <1>12, <1>13
     DEF Next, FlightStep

\* A flight starts after the predecessor's end; nothing takes that end back.
LEMMA FlightInvStep ==
    ASSUME IInv, [Next]_vars
    PROVE  FlightInv'
<1> USE DEF predecessor, requests, engine
<1>i. TypeOK /\ FlightInv /\ \A d \in Call : row[d] \in Row
  BY RowsAreTyped DEF IInv
<1>l. ASSUME NEW d \in Call, NEW r0 \in Row, NEW busy, Landed(d, r0, busy),
             UNCHANGED <<up, job, custody>>, up, active' => active /\ busy
      PROVE  FlightInv'
  BY <1>i, <1>l, LandedShape DEF FlightInv, Onward
<1>1. ASSUME NEW d \in Call, Validated(d)
      PROVE  FlightInv'
  <2>1. flight[d] # Idle
    BY <1>1 DEF Validated, Idle
  <2> QED
    BY <1>1, <1>i, <2>1 DEF Validated, FlightInv, TypeOK
<1>2. ASSUME NEW d \in Call, ValidateFails(d) \/ Promote(d)
      PROVE  FlightInv'
  BY <1>2, <1>i, <1>l, FlightsLand DEF ValidateFails, Promote
<1>3. ASSUME NEW c \in Call, Mutate(c)
      PROVE  FlightInv'
  BY <1>3, <1>i DEF Mutate, FlightInv
<1>4. ASSUME NEW c \in Call, Commit(c)
      PROVE  FlightInv'
  <2>1. up /\ UNCHANGED <<predecessor, up>>
    BY <1>4, CommitApplies
  <2>2. CASE UNCHANGED <<row, bound, engine>>
    BY <1>i, <2>1, <2>2 DEF FlightInv
  <2>3. ASSUME NEW d \in Call, NEW r \in Row, Applies(c, d, r)
        PROVE  FlightInv'
    <3>1. CASE Landed(d, r, active)
      BY <1>l, <2>1, <3>1
    <3>2. CASE /\ r.state # "waiting" /\ row' = [row EXCEPT ![d] = r]
               /\ UNCHANGED <<flight, changed, faults>>
      <4>1. \/ r.state = "cleared" \/ (r.state = row[d].state /\ r.hold = row[d].hold)
        BY <1>i, <2>3, <3>2, EditedShape DEF Applies
      <4> QED
        BY <1>i, <2>1, <3>2, <4>1 DEF FlightInv, TypeOK
    <3> QED
      BY <2>3, <3>1, <3>2 DEF Applies
  <2> QED
    BY <1>4, <2>2, <2>3, CommitApplies
<1>5. ASSUME NEW c \in Call, CommitFails(c)
      PROVE  FlightInv'
  BY <1>5, <1>i DEF CommitFails, FlightInv
<1>6. CASE Start \/ End \/ EndCancelled \/ Continue \/ Release \/ ScopeSettles \/ StopFails
  BY <1>6, <1>i DEF Start, End, EndCancelled, Continue, Release, ScopeSettles, StopFails,
    FlightInv
<1>7. CASE FreeSlot
  <2>1. up /\ ~active' /\ UNCHANGED <<up, job, custody>>
    BY <1>7 DEF FreeSlot
  <2> QED
    BY <1>7, <1>i, <1>l, <2>1, FreeSlotLands DEF FlightInv
<1>8. CASE Stop
  <2>1. up /\ UNCHANGED <<up, custody, active, flight>> /\ (job # "live" => job' = job)
    BY <1>8 DEF Stop
  <2>2. ASSUME NEW d \in Call, Reserved(d), StopDraft(d)
        PROVE  FlightInv'
    <3>1. row' = row \/ row' = [row EXCEPT ![d] = StopHold(row[d])]
      BY <2>2 DEF StopDraft
    <3> QED
      BY <1>i, <2>1, <3>1, StopHoldShape DEF FlightInv, TypeOK
  <2>3. row' = row => FlightInv'
    BY <1>i, <2>1 DEF FlightInv
  <2> QED
    BY <1>8, <2>2, <2>3 DEF Stop
<1>9. CASE Report
  <2>1. up /\ UNCHANGED <<up, job, custody, active>>
    BY <1>9 DEF Report
  <2> QED
    BY <1>9, <1>i, <1>l, <2>1, ReportLands DEF FlightInv
<1>10. CASE Shutdown
  <2>1. \A d \in Call : row'[d] = row[d] \/ row'[d] = Held(row[d], "shutdown")
    BY <1>10 DEF Shutdown
  <2>2. "shutdown" \in Reasons
    BY DEF Reasons
  <2> QED
    BY <1>10, <1>i, <2>1, <2>2, HeldType DEF Shutdown, FlightInv
<1>11. CASE Down
  BY <1>11 DEF Down, FlightInv
<1>12. CASE Restart
  BY <1>12, <1>i DEF Restart, FlightInv
<1>13. CASE UNCHANGED vars
  BY <1>13, <1>i DEF vars, FlightInv
<1> QED
  BY <1>1, <1>2, <1>3, <1>4, <1>5, <1>6, <1>7, <1>8, <1>9, <1>10, <1>11, <1>12, <1>13
     DEF Next, FlightStep

\* What fences a draft outlives every edit, evaluation and restart.
LEMMA FenceInvStep ==
    ASSUME IInv, [Next]_vars
    PROVE  FenceInv'
<1> USE DEF predecessor, requests, engine
<1>i. TypeOK /\ FenceInv /\ \A d \in Call : row[d] \in Row
  BY RowsAreTyped DEF IInv
<1> DEFINE Safe(d) == /\ row[d].state # "none"
                      /\ up /\ row[d].state = "waiting" => d \in stopped
                      /\ up /\ CustodyHold(row[d]) => d \in stopped \/ restarts > 0
           Owing == owed => up /\ job # "live" /\ custody = "clean" /\ restarts = 0
<1>s. FenceInv <=> Owing /\ (~up => restarts < MaxRestarts) /\ \A d \in fenced : Safe(d)
  BY DEF FenceInv
<1>t. FenceInv' <=> /\ Owing' /\ (~up' => restarts' < MaxRestarts)
                    /\ \A d \in fenced' : Safe(d)'
  BY DEF FenceInv
<1>l. ASSUME NEW d \in Call, NEW r0 \in Row, NEW busy, Landed(d, r0, busy), up,
             UNCHANGED <<up, fenced, restarts>>, Owing',
             ~CustodyHold(r0), r0.state = "none" => row[d].state = "none",
             r0.state = "waiting" => d \notin fenced \/ d \in stopped
      PROVE  FenceInv'
  <2>1. /\ \A x \in Call \ {d} : row'[x] = row[x]
        /\ row'[d] \in Row
        /\ stopped' = stopped \/ (row'[d].state # "waiting" /\ stopped' = stopped \ {d})
        /\ \/ row'[d] = r0
           \/ /\ r0.state = "waiting" /\ row'[d].state = "held"
              /\ row'[d].hold = "settlement_unknown" => d \notin stopped
           \/ r0.state = "waiting" /\ row'[d].state = "dispatched"
    BY <1>i, <1>l, LandedShape
  <2>2. ASSUME NEW x \in fenced, x # d
        PROVE  Safe(x)'
    BY <1>i, <1>l, <1>s, <1>t, <2>1, <2>2 DEF CustodyHold, TypeOK
  <2>3. ASSUME d \in fenced
        PROVE  Safe(d)'
    BY <1>i, <1>l, <1>s, <1>t, <2>1, <2>3 DEF CustodyHold
  <2> QED
    BY <1>i, <1>l, <1>s, <1>t, <2>2, <2>3
<1>q. ASSUME UNCHANGED <<row, up, stopped, fenced, restarts>>, Owing'
      PROVE  FenceInv'
  BY <1>i, <1>q, <1>s, <1>t
<1>1. ASSUME NEW d \in Call, Validated(d)
      PROVE  FenceInv'
  BY <1>1, <1>i, <1>q, <1>s, <1>t DEF Validated
<1>2. ASSUME NEW d \in Call, ValidateFails(d) \/ Promote(d)
      PROVE  FenceInv'
  <2>1. flight[d] # Idle /\ Landed(d, row[d], active)
    BY <1>2, FlightsLand
  <2>2. ~CustodyHold(row[d]) /\ (row[d].state = "waiting" => d \notin fenced \/ d \in stopped)
    BY <1>2, <1>i, <1>s, <1>t, <2>1 DEF IInv, FlightInv, CustodyHold
  <2>3. up /\ UNCHANGED <<up, fenced, restarts, owed, job, custody>>
    BY <1>2 DEF ValidateFails, Promote
  <2> QED
    BY <1>i, <1>l, <1>s, <1>t, <2>1, <2>2, <2>3
<1>3. ASSUME NEW c \in Call, Mutate(c)
      PROVE  FenceInv'
  BY <1>3, <1>i, <1>q, <1>s, <1>t DEF Mutate
<1>4. ASSUME NEW c \in Call, Commit(c)
      PROVE  FenceInv'
  <2>1. /\ up /\ UNCHANGED <<predecessor, up, fenced, restarts>> /\ Owing'
        /\ calls[c] = "staging"
    BY <1>4, <1>i, <1>s, <1>t, CommitApplies
  <2>2. CASE UNCHANGED <<row, bound, engine>>
    BY <1>q, <2>1, <2>2
  <2>3. ASSUME NEW d \in Call, NEW r \in Row, Applies(c, d, r)
        PROVE  FenceInv'
    <3>1. r.state # "none"
      BY <1>i, <2>3, EditedShape DEF Applies, Reserved
    <3>2. CASE r.state = "waiting" /\ Landed(d, r, active)
      <4>1. d \notin fenced \/ d \in stopped
        BY <1>i, <1>s, <1>t, <2>1, <2>3, <3>2, EditedShape DEF Applies, IInv, DraftInv
      <4>2. ~CustodyHold(r)
        BY <3>2 DEF CustodyHold
      <4> QED
        BY <1>l, <2>1, <3>1, <3>2, <4>1, <4>2
    <3>3. CASE /\ r.state # "waiting" /\ row' = [row EXCEPT ![d] = r]
               /\ stopped' = stopped \ {d}
      <4>1. r.state = "cleared" \/ (r.state = "held" /\ r.rev = row[d].rev + 1
                                     /\ r.heldRev = row[d].heldRev)
        BY <1>i, <2>3, <3>3, EditedShape DEF Applies, Reserved
      <4>2. ~CustodyHold(r)
        <5>1. row[d].heldRev <= row[d].rev /\ row[d].heldRev \in Nat /\ row[d].rev \in Nat
          BY <1>i DEF IInv, DraftInv, Row
        <5> QED
          BY <4>1, <5>1 DEF CustodyHold
      <4>3. r.state # "waiting" /\ row'[d] = r /\ \A x \in Call \ {d} : row'[x] = row[x]
        BY <1>i, <3>3 DEF TypeOK
      <4>4. ASSUME NEW x \in fenced
            PROVE  Safe(x)'
        BY <1>i, <1>s, <1>t, <2>1, <3>1, <3>3, <4>2, <4>3, <4>4 DEF CustodyHold, TypeOK
      <4> QED
        BY <1>i, <1>s, <1>t, <2>1, <4>4
    <3> QED
      BY <2>3, <3>2, <3>3 DEF Applies
  <2> QED
    BY <1>4, <2>2, <2>3, CommitApplies
<1>5. ASSUME NEW c \in Call, CommitFails(c)
      PROVE  FenceInv'
  BY <1>5, <1>i, <1>q, <1>s, <1>t DEF CommitFails
<1>6. CASE Start \/ End \/ EndCancelled \/ Continue \/ Release \/ ScopeSettles \/ StopFails
  <2>1. up /\ UNCHANGED <<row, up, stopped, fenced, restarts>>
    BY <1>6 DEF Start, End, EndCancelled, Continue, Release, ScopeSettles, StopFails
  <2>2. Owing'
    <3>1. CASE End
      BY <1>i, <1>s, <1>t, <3>1 DEF End, IInv
    <3>2. CASE ScopeSettles
      BY <3>2 DEF ScopeSettles
    <3>3. CASE Start \/ EndCancelled \/ Continue \/ Release \/ StopFails
      BY <1>i, <1>s, <1>t, <3>3 DEF Start, EndCancelled, Continue, Release, StopFails
    <3> QED
      BY <1>6, <3>1, <3>2, <3>3
  <2> QED
    BY <1>q, <2>1, <2>2
<1>7. CASE FreeSlot
  <2>1. up /\ UNCHANGED <<up, fenced, restarts, owed, job, custody>>
    BY <1>7 DEF FreeSlot
  <2>2. CASE UNCHANGED <<row, engine>>
    BY <1>i, <1>q, <1>s, <1>t, <2>1, <2>2
  <2>3. ASSUME NEW d \in Call, row[d].state = "waiting", Landed(d, row[d], FALSE)
        PROVE  FenceInv'
    BY <1>i, <1>l, <1>s, <1>t, <2>1, <2>3 DEF CustodyHold
  <2> QED
    BY <1>7, <2>2, <2>3, FreeSlotLands
<1>8. CASE Stop
  <2>1. up /\ UNCHANGED <<up, restarts, owed, custody>> /\ (job # "live" => job' = job)
    BY <1>8 DEF Stop
  <2>2. CASE UNCHANGED <<fenced, row, stopped, faults>>
    BY <1>i, <1>q, <1>s, <1>t, <2>1, <2>2
  <2>3. ASSUME NEW d \in Call, Reserved(d), StopDraft(d)
        PROVE  FenceInv'
    <3>1. \A x \in Call \ {d} : row'[x] = row[x] /\ (x \in stopped => x \in stopped')
      BY <1>i, <2>3 DEF StopDraft, TypeOK
    <3>2. fenced' = fenced \cup {d}
      BY <2>3 DEF StopDraft
    <3>3. row[d].state \in {"waiting", "held"}
      BY <2>3 DEF Reserved
    <3>4. Safe(d)'
      <4>1. CASE row' = [row EXCEPT ![d] = StopHold(row[d])]
        BY <1>i, <3>3, <4>1, StopHoldShape DEF CustodyHold, TypeOK
      <4>2. CASE row' = row /\ stopped' = stopped \cup {d}
        BY <3>3, <4>2
      <4> QED
        BY <2>3, <4>1, <4>2 DEF StopDraft
    <3>5. ASSUME NEW x \in fenced, x # d
          PROVE  Safe(x)'
      BY <1>i, <1>s, <1>t, <2>1, <3>1, <3>5 DEF CustodyHold, TypeOK
    <3> QED
      BY <1>i, <1>s, <1>t, <2>1, <3>2, <3>4, <3>5
  <2> QED
    BY <1>8, <2>2, <2>3 DEF Stop
<1>9. CASE Report
  <2>1. up /\ UNCHANGED <<up, fenced, restarts, job, custody>>
    BY <1>9 DEF Report
  <2>2. CASE UNCHANGED <<row, waiting, stopped, flight, changed>> /\ owed' \in {owed, FALSE}
    BY <1>i, <1>q, <1>s, <1>t, <2>1, <2>2
  <2>3. ASSUME NEW d \in Call, d \notin stopped, CustodyHold(row[d]), owed' = FALSE, owed,
               Resumed(row[d]) \in Row, Landed(d, Resumed(row[d]), active)
        PROVE  FenceInv'
    <3>1. d \notin fenced
      BY <1>i, <1>s, <1>t, <2>1, <2>3
    <3>2. Resumed(row[d]).state = "waiting"
      BY <1>i DEF Resumed, Row
    <3> QED
      BY <1>l, <2>1, <2>3, <3>1, <3>2 DEF CustodyHold
  <2> QED
    BY <1>9, <2>2, <2>3, ReportLands
<1>10. CASE Shutdown
  <2>1. \A d \in Call : row'[d] = row[d] \/ row'[d] = Held(row[d], "shutdown")
    BY <1>10 DEF Shutdown
  <2>2. "shutdown" \in Reasons
    BY DEF Reasons
  <2>3. \A d \in Call : row'[d] = row[d] \/ (row'[d].state = "held" /\ row'[d].hold = "shutdown")
    BY <1>i, <2>1, <2>2, HeldType
  <2> QED
    BY <1>10, <1>i, <1>s, <1>t, <2>3 DEF Shutdown, CustodyHold, TypeOK
<1>11. CASE Down
  BY <1>11, <1>i, <1>s, <1>t DEF Down
<1>12. CASE Restart
  <2>1. \A d \in Call :
          IF row[d].state = "waiting"
            THEN row'[d] = Held(row[d], "restart_requires_controller") ELSE row'[d] = row[d]
    BY <1>12 DEF Restart, RestartHold
  <2>2. "restart_requires_controller" \in Reasons
    BY DEF Reasons
  <2>3. \A d \in Call : /\ row'[d].state # "waiting"
                        /\ row[d].state # "none" => row'[d].state # "none"
    BY <1>i, <2>1, <2>2, HeldType
  <2>4. up' /\ restarts' = restarts + 1 /\ restarts \in Nat /\ owed' = owed /\ ~up
        /\ fenced' = fenced \cup {d \in Call : Reserved(d)}
    BY <1>12, <1>i DEF Restart, TypeOK
  <2>5. ASSUME NEW d \in fenced'
        PROVE  Safe(d)'
    <3>1. d \in Call /\ row[d].state # "none"
      BY <1>i, <1>s, <2>4 DEF Reserved, TypeOK
    <3>2. row'[d].state # "none" /\ row'[d].state # "waiting"
      BY <2>3, <3>1
    <3>3. restarts' > 0
      BY <2>4
    <3> QED
      BY <3>2, <3>3
  <2>6. ~owed
    BY <1>i, <1>s, <2>4
  <2> QED
    BY <1>t, <2>4, <2>5, <2>6
<1>13. CASE UNCHANGED vars
  BY <1>13, <1>i, <1>q, <1>s, <1>t DEF vars
<1> QED
  BY <1>1, <1>2, <1>3, <1>4, <1>5, <1>6, <1>7, <1>8, <1>9, <1>10, <1>11, <1>12, <1>13
     DEF Next, FlightStep

\* A reservation is made, and a claim taken, only where neither stands.
LEMMA SoleInvStep ==
    ASSUME IInv, [Next]_vars
    PROVE  SoleInv'
<1> USE DEF predecessor, requests, engine
<1>i. TypeOK /\ SoleInv /\ \A d \in Call : row[d] \in Row
  BY RowsAreTyped DEF IInv
<1>k. ASSUME \A d \in Call : Reserved(d)' => Reserved(d), claims' \in {claims, {}}
      PROVE  SoleInv'
  BY <1>i, <1>k DEF SoleInv
<1>l. ASSUME NEW d \in Call, NEW r0 \in Row, NEW busy, Landed(d, r0, busy)
      PROVE  \A x \in Call : Reserved(x)' =>
               Reserved(x) \/ (x = d /\ r0.state \in {"waiting", "held"})
  BY <1>i, <1>l, LandedShape DEF Reserved
<1>1. ASSUME NEW d \in Call, Validated(d)
      PROVE  SoleInv'
  BY <1>1, <1>k DEF Validated, Reserved
<1>2. ASSUME NEW d \in Call, ValidateFails(d) \/ Promote(d)
      PROVE  SoleInv'
  <2>1. flight[d] # Idle /\ Landed(d, row[d], active) /\ row[d].state # "dispatched"
    BY <1>2, <1>i, FlightsLand DEF IInv, FlightInv
  <2>2. \A x \in Call : Reserved(x)' => Reserved(x)
    BY <1>i, <1>l, <2>1 DEF Reserved
  <2>3. CASE claims' = claims
    BY <1>k, <2>2, <2>3
  <2>4. CASE claims' # claims
    <3>1. claims' = claims \cup {d} /\ row'[d].state = "dispatched"
      BY <1>2, <2>4 DEF ValidateFails, Promote
    <3>2. row[d].state = "waiting" /\ claims = {}
      BY <1>i, <2>1, <3>1, LandedShape
    <3>3. \A x \in Call : ~Reserved(x)'
      BY <1>i, <2>2, <3>1, <3>2 DEF SoleInv, Reserved
    <3> QED
      BY <3>1, <3>2, <3>3 DEF SoleInv
  <2> QED
    BY <2>3, <2>4
<1>3. ASSUME NEW c \in Call, Mutate(c) \/ CommitFails(c)
      PROVE  SoleInv'
  BY <1>3, <1>k DEF Mutate, CommitFails, Reserved
<1>4. ASSUME NEW c \in Call, Commit(c)
      PROVE  SoleInv'
  <2>1. claims' = claims
    BY <1>4, CommitApplies
  <2>2. CASE UNCHANGED <<row, bound, engine>>
    BY <1>k, <2>1, <2>2 DEF Reserved
  <2>3. ASSUME NEW d \in Call, NEW r \in Row, Applies(c, d, r)
        PROVE  SoleInv'
    <3>1. \A x \in Call : Reserved(x)' => Reserved(x) \/ x = d
      BY <1>i, <1>l, <2>3 DEF Applies, Reserved, TypeOK
    <3>2. CASE Reserved(d)
      BY <1>k, <2>1, <3>1, <3>2
    <3>3. CASE Creatable
      BY <1>i, <2>1, <3>1, <3>3 DEF Creatable, SoleInv
    <3> QED
      BY <1>i, <2>3, <3>2, <3>3, EditedShape DEF Applies
  <2> QED
    BY <1>4, <2>2, <2>3, CommitApplies
<1>6. CASE Start \/ End \/ EndCancelled \/ Release \/ ScopeSettles \/ StopFails
  BY <1>6, <1>k DEF Start, End, EndCancelled, Release, ScopeSettles, StopFails, Reserved
<1>c. CASE Continue
  BY <1>c, <1>i DEF Continue, MayContinueNow, SoleInv, Reserved
<1>7. CASE FreeSlot
  <2>1. \A x \in Call : Reserved(x)' => Reserved(x)
    BY <1>7, <1>i, <1>l, FreeSlotLands DEF Reserved
  <2> QED
    BY <1>7, <1>k, <2>1 DEF FreeSlot
<1>8. CASE Stop
  <2>1. ASSUME NEW d \in Call, Reserved(d), StopDraft(d)
        PROVE  \A x \in Call : Reserved(x)' => Reserved(x)
    BY <1>i, <2>1 DEF StopDraft, Reserved, TypeOK
  <2>2. \A x \in Call : Reserved(x)' => Reserved(x)
    BY <1>8, <2>1 DEF Stop, Reserved
  <2> QED
    BY <1>8, <1>k, <2>2 DEF Stop
<1>9. CASE Report
  <2>1. \A x \in Call : Reserved(x)' => Reserved(x)
    BY <1>9, <1>i, <1>l, ReportLands DEF Reserved, CustodyHold
  <2> QED
    BY <1>9, <1>k, <2>1 DEF Report
<1>10. CASE Shutdown
  <2>1. \A d \in Call : row'[d] = row[d] \/ row[d].state = "waiting"
    BY <1>10 DEF Shutdown
  <2> QED
    BY <1>10, <1>k, <2>1 DEF Shutdown, Reserved
<1>11. CASE Down
  BY <1>11, <1>k DEF Down, Reserved
<1>12. CASE Restart
  <2>1. \A d \in Call : row'[d] = row[d] \/ row[d].state = "waiting"
    BY <1>12 DEF Restart, RestartHold
  <2> QED
    BY <1>12, <1>k, <2>1 DEF Restart, Reserved
<1>13. CASE UNCHANGED vars
  BY <1>13, <1>k DEF vars, Reserved
<1> QED
  BY <1>1, <1>2, <1>3, <1>4, <1>6, <1>c, <1>7, <1>8, <1>9, <1>10, <1>11, <1>12, <1>13
     DEF Next, FlightStep

-----------------------------------------------------------------------------
\* The invariant holds before the first draft.
LEMMA InitIsSound == Init => IInv
<1> SUFFICES ASSUME Init
             PROVE  IInv
  OBVIOUS
<1>1. TypeOK
  <2>1. /\ NoRow \in Row /\ Idle \in Place /\ 0 \in 0..MaxFaults /\ 0 \in 0..MaxRestarts
        /\ [draft |-> None, rev |-> 0] \in [draft : Call \cup {None}, rev : Nat]
    BY BoundAssumption DEF NoRow, Idle, Row, Place, Holds
  <2>2. /\ row \in [Call -> Row] /\ flight \in [Call -> Place]
        /\ request \in [Key -> [draft : Call \cup {None}, rev : Nat]]
        /\ faults \in 0..MaxFaults /\ restarts \in 0..MaxRestarts
    BY <2>1 DEF Init
  <2> QED
    BY <2>2 DEF Init, TypeOK, Row, Place
<1>2. DraftInv
  BY DEF Init, DraftInv, NoRow
<1>3. FlightInv /\ FenceInv
  BY DEF Init, FlightInv, FenceInv
<1>4. SoleInv
  BY DEF Init, SoleInv, Reserved, NoRow
<1> QED
  BY <1>1, <1>2, <1>3, <1>4 DEF IInv

\* Every step preserves the invariant.
LEMMA StepIsSound == IInv /\ [Next]_vars => IInv'
BY TypeOKStep, DraftInvStep, FlightInvStep, FenceInvStep, SoleInvStep DEF IInv

\* The inductive invariant of the next messages.
THEOREM MessageInvariant == Spec => []IInv
BY InitIsSound, StepIsSound, PTL DEF Spec

\* Rows, flights and bindings have their types, for any number of calls and keys.
THEOREM TypesAreCorrect == Spec => []TypeOK
<1>1. IInv => TypeOK
  BY DEF IInv
<1> QED
  BY <1>1, MessageInvariant, PTL

\* The continuation of a run belongs to one draft or one successor, and the
\* retries of a create make one draft (assertTarget, assertDeferredReservation).
THEOREM OneSuccessor == Spec => []OneContinuation
<1>1. IInv => OneContinuation
  <2> SUFFICES ASSUME IInv
               PROVE  OneContinuation
    OBVIOUS
  <2>1. \A c, d \in Call :
          row[c].state # "none" /\ row[d].state # "none" /\ KeyOf[c] = KeyOf[d] => c = d
    BY DEF IInv, DraftInv
  <2>2. Cardinality({d \in Call : Reserved(d)}) + Cardinality(claims) <= 1
    <3> DEFINE reserved == {d \in Call : Reserved(d)}
    <3>1. \/ reserved = {} /\ claims = {}
          \/ reserved = {} /\ \E x : claims = {x}
          \/ claims = {} /\ \E x : reserved = {x}
      BY DEF IInv, SoleInv
    <3> HIDE DEF reserved
    <3>2. Cardinality({}) = 0 /\ \A x : Cardinality({x}) = 1
      BY FS_EmptySet, FS_Singleton
    <3>3. \/ Cardinality(reserved) = 0 /\ Cardinality(claims) = 0
          \/ Cardinality(reserved) = 0 /\ Cardinality(claims) = 1
          \/ Cardinality(reserved) = 1 /\ Cardinality(claims) = 0
      BY <3>1, <3>2
    <3>4. Cardinality(reserved) + Cardinality(claims) <= 1
      BY <3>3
    <3> QED
      BY <3>4 DEF reserved
  <2> QED
    BY <2>1, <2>2 DEF OneContinuation
<1> QED
  BY <1>1, MessageInvariant, PTL

-----------------------------------------------------------------------------
\* What a step may do to the row of a draft.
Kept(d) ==
    \/ row'[d] = row[d]
    \/ row[d].state = "none" /\ row'[d].state # "dispatched"
         /\ row'[d].hold # "admission_refused"
    \/ row[d].state \in {"waiting", "held"} /\ row'[d].state = "cleared"
         /\ row'[d].hold = row[d].hold
    \/ row[d].state = "held" /\ row'[d].state = "held"
         /\ (row'[d].hold = row[d].hold \/ row'[d].hold # "admission_refused")
    \/ /\ row[d].state = "waiting" /\ row'[d].state = "held"
       /\ row'[d].hold = "admission_refused" => flight[d].rev = row[d].rev
    \/ row[d].state = "waiting" /\ row'[d].state = "waiting" /\ row'[d].hold = row[d].hold
    \/ /\ row[d].state = "waiting" /\ row'[d].state = "dispatched"
       /\ flight[d].rev = row[d].rev /\ ~closing /\ ~marked /\ d \notin fenced
    \/ /\ CustodyHold(row[d]) /\ custody = "clean" /\ d \notin fenced
       /\ row'[d].state # "dispatched" /\ row'[d].hold # "admission_refused"

\* Every step keeps the row of a draft, or changes it as Kept says.
LEMMA RowsAreKept ==
    ASSUME IInv, [Next]_vars, NEW d \in Call
    PROVE  Kept(d)
<1> USE DEF predecessor, requests, engine
<1>i. TypeOK /\ DraftInv /\ FenceInv /\ \A x \in Call : row[x] \in Row
  BY RowsAreTyped DEF IInv
<1>f. ASSUME up, d \in fenced
      PROVE  /\ row[d].state = "waiting" => d \in stopped
             /\ CustodyHold(row[d]) => d \in stopped \/ restarts > 0
  BY <1>i, <1>f DEF FenceInv
<1>l. ASSUME up, NEW x \in Call, NEW busy, Landed(x, row[x], busy)
      PROVE  Kept(d)
  <2>1. CASE x = d
    <3>1. \/ row'[d] = row[d]
          \/ /\ row[d].state = "waiting" /\ row'[d].state = "held"
             /\ row'[d].hold = "admission_refused" => flight[d].rev = row[d].rev
          \/ /\ row[d].state = "waiting" /\ row'[d].state = "dispatched"
             /\ flight[d].rev = row[d].rev /\ ~closing /\ ~marked /\ d \notin stopped
      BY <1>i, <1>l, <2>1, LandedShape
    <3> QED
      BY <1>f, <1>l, <3>1 DEF Kept
  <2>2. CASE x # d
    BY <1>i, <1>l, <2>2, LandedShape DEF Kept
  <2> QED
    BY <2>1, <2>2
<1>1. ASSUME NEW x \in Call, Validated(x) \/ Mutate(x) \/ CommitFails(x)
      PROVE  Kept(d)
  BY <1>1 DEF Validated, Mutate, CommitFails, Kept
<1>2. ASSUME NEW x \in Call, ValidateFails(x) \/ Promote(x)
      PROVE  Kept(d)
  BY <1>2, <1>l, FlightsLand DEF ValidateFails, Promote
<1>4. ASSUME NEW c \in Call, Commit(c)
      PROVE  Kept(d)
  <2>1. CASE UNCHANGED <<row, bound, engine>>
    BY <2>1 DEF Kept
  <2>2. ASSUME NEW x \in Call, NEW r \in Row, Applies(c, x, r)
        PROVE  Kept(d)
    <3>1. CASE x # d
      BY <1>i, <2>2, <3>1, LandedShape DEF Applies, Kept, TypeOK
    <3>2. CASE x = d
      <4>1. CASE r.state = "waiting" /\ Landed(d, r, active)
        <5>1. CASE row[d].state = "none"
          <6>1. r.hold # "admission_refused"
            BY <1>i, <2>2, <3>2, <5>1, NoReasonAssumption DEF Applies, Edited, Reserved, Reasons
          <6> QED
            BY <1>i, <4>1, <5>1, <6>1, LandedShape DEF Kept
        <5>2. CASE row[d].state # "none"
          <6>1. row[d].state = "waiting" /\ r.hold = row[d].hold /\ r.rev = row[d].rev + 1
            BY <1>4, <1>i, <2>2, <3>2, <4>1, <5>2, CommitApplies, EditedShape
               DEF Applies, DraftInv
          <6>2. r # row[d]
            BY <1>i, <6>1 DEF Row
          <6> QED
            BY <1>i, <4>1, <6>1, <6>2, LandedShape DEF Kept
        <5> QED
          BY <5>1, <5>2
      <4>2. CASE r.state # "waiting" /\ row' = [row EXCEPT ![d] = r]
        <5>1. row'[d] = r
          BY <1>i, <4>2 DEF TypeOK
        <5>2. /\ row[d].state \in {"waiting", "held"} /\ r.hold = row[d].hold
              /\ r.state = "cleared" \/ (r.state = "held" /\ row[d].state = "held")
          BY <1>i, <2>2, <3>2, <4>2, EditedShape DEF Applies, Reserved
        <5> QED
          BY <5>1, <5>2 DEF Kept
      <4> QED
        BY <2>2, <3>2, <4>1, <4>2 DEF Applies
    <3> QED
      BY <3>1, <3>2
  <2> QED
    BY <1>4, <2>1, <2>2, CommitApplies
<1>6. CASE Start \/ End \/ EndCancelled \/ Continue \/ Release \/ ScopeSettles \/ StopFails
             \/ Down \/ UNCHANGED vars
  BY <1>6 DEF Start, End, EndCancelled, Continue, Release, ScopeSettles, StopFails, Down, vars,
    Kept
<1>7. CASE FreeSlot
  <2>1. CASE UNCHANGED <<row, engine>>
    BY <2>1 DEF Kept
  <2>2. up
    BY <1>7 DEF FreeSlot
  <2> QED
    BY <1>7, <1>l, <2>1, <2>2, FreeSlotLands
<1>8. CASE Stop
  <2>1. ASSUME NEW x \in Call, StopDraft(x)
        PROVE  Kept(d)
    <3>1. row' = row \/ row' = [row EXCEPT ![x] = StopHold(row[x])]
      BY <2>1 DEF StopDraft
    <3> QED
      BY <1>i, <3>1, StopHoldShape DEF Kept, CustodyHold, TypeOK
  <2> QED
    BY <1>8, <2>1 DEF Stop, Kept
<1>9. CASE Report
  <2>1. CASE row' = row
    BY <2>1 DEF Kept
  <2>2. ASSUME NEW x \in Call, ~closing, x \notin stopped, CustodyHold(row[x]), owed, up,
               Resumed(row[x]) \in Row, Landed(x, Resumed(row[x]), active)
        PROVE  Kept(d)
    <3>1. CASE x # d
      BY <1>i, <2>2, <3>1, LandedShape DEF Kept
    <3>2. CASE x = d
      <4>1. custody = "clean" /\ d \notin fenced
        BY <1>f, <1>i, <2>2, <3>2 DEF FenceInv
      <4>2. /\ Resumed(row[d]).hold # "admission_refused" /\ Resumed(row[d]) # row[d]
            /\ Resumed(row[d]).state = "waiting"
        BY <1>i, <2>2, <3>2, NoReasonAssumption DEF Resumed, Row, CustodyHold, Reasons
      <4> QED
        BY <1>i, <2>2, <3>2, <4>1, <4>2, LandedShape DEF Kept
    <3> QED
      BY <3>1, <3>2
  <2> QED
    BY <1>9, <2>1, <2>2, ReportLands
<1>10. CASE Shutdown
  <2>1. row'[d] = row[d] \/ (row[d].state = "waiting" /\ row'[d] = Held(row[d], "shutdown"))
    BY <1>10 DEF Shutdown
  <2>2. "shutdown" \in Reasons
    BY DEF Reasons
  <2> QED
    BY <1>i, <2>1, <2>2, HeldType DEF Kept
<1>12. CASE Restart
  <2>1. row'[d] = row[d] \/ (row[d].state = "waiting"
                              /\ row'[d] = Held(row[d], "restart_requires_controller"))
    BY <1>12 DEF Restart, RestartHold
  <2>2. "restart_requires_controller" \in Reasons
    BY DEF Reasons
  <2> QED
    BY <1>i, <2>1, <2>2, HeldType DEF Kept
<1> QED
  BY <1>1, <1>2, <1>4, <1>6, <1>7, <1>8, <1>9, <1>10, <1>12 DEF Next, FlightStep

\* What is sent is the revision that was validated (promote), and a refusal
\* holds only the revision it refused (evaluateRevision).
THEOREM SentAsValidated == Spec => DecidedAsValidated
<1>1. IInv /\ [Next]_vars =>
        [\A d \in Call :
           Dispatches(d) \/ (row'[d].hold = "admission_refused" /\ row'[d] # row[d]
                               /\ row[d].hold # "admission_refused")
             => row[d].state = "waiting" /\ flight[d].rev = row[d].rev]_vars
  BY RowsAreKept DEF Kept, Dispatches, CustodyHold
<1> QED
  BY <1>1, MessageInvariant, PTL DEF Spec, DecidedAsValidated

\* No Stop, shutdown or restart is overtaken by a promotion (fence, stop,
\* shutdown, recoverAfterStartup).
THEOREM FenceHolds == Spec => FencedIsNeverSent
<1>1. IInv /\ [Next]_vars =>
        [\A d \in Call : Dispatches(d) => ~closing /\ ~marked /\ d \notin fenced]_vars
  BY RowsAreKept DEF Kept, Dispatches
<1> QED
  BY <1>1, MessageInvariant, PTL DEF Spec, FencedIsNeverSent

\* A hold ends only by a late settlement that proves its scope (processScopeSettled).
THEOREM HoldsAreKept == Spec => HeldStaysHeld
<1>1. IInv /\ [Next]_vars =>
        [\A d \in Call : row[d].state = "held" /\ row'[d].state \in {"waiting", "dispatched"}
           => /\ row[d].hold = "settlement_unknown" /\ row[d].heldRev = row[d].rev
              /\ custody = "clean" /\ d \notin fenced]_vars
  BY RowsAreKept DEF Kept, CustodyHold
<1> QED
  BY <1>1, MessageInvariant, PTL DEF Spec, HeldStaysHeld
=============================================================================
