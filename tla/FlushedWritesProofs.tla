-------------------------- MODULE FlushedWritesProofs --------------------------
(***************************************************************************)
(* The promise of flushed(), proved of its abstract specification for any  *)
(* number of clients; Durability implements it (DurabilityProofs).         *)
(***************************************************************************)
EXTENDS FlushedWrites, TLAPS

\* What is durable is part of what was written, and stays durable.
SurvivalInv ==
    /\ durable \subseteq latest
    /\ \A c \in Client : told[c] = "answered" => c \in durable

\* Nothing that was answered is ever lost.
THEOREM AnswersSurvive == Spec => []AnsweredSurvives
<1>1. Init => SurvivalInv
  BY DEF Init, SurvivalInv
<1>2. SurvivalInv /\ [Next]_vars => SurvivalInv'
  <2> SUFFICES ASSUME SurvivalInv, [Next]_vars PROVE SurvivalInv'
    OBVIOUS
  <2>1. ASSUME NEW c \in Client, Write(c) PROVE SurvivalInv'
    <3>1. \A d \in Client : told'[d] = "answered" => told[d] = "answered"
      <4> TAKE d \in Client
      <4>1. CASE told' = [told EXCEPT ![c] = "waiting"] /\ told[c] = "idle"
        BY <4>1
      <4>2. QED
        BY <2>1, <4>1 DEF Write
    <3>2. QED
      BY <2>1, <3>1 DEF Write, SurvivalInv
  <2>2. ASSUME NEW cs \in SUBSET Client, cs \subseteq durable, Tell(cs, "answered")
        PROVE  SurvivalInv'
    BY <2>2 DEF Tell, SurvivalInv
  <2>3. ASSUME NEW cs \in SUBSET Client, Tell(cs, "unavailable") PROVE SurvivalInv'
    BY <2>3 DEF Tell, SurvivalInv
  <2>4. CASE Harden
    BY <2>4 DEF Harden, SurvivalInv
  <2>5. CASE Lose
    BY <2>5 DEF Lose, SurvivalInv
  <2>6. CASE UNCHANGED vars
    BY <2>6 DEF vars, SurvivalInv
  <2>7. QED
    BY <2>1, <2>2, <2>3, <2>4, <2>5, <2>6 DEF Next
<1>3. SurvivalInv => AnsweredSurvives
  BY DEF SurvivalInv, AnsweredSurvives
<1>4. QED
  BY <1>1, <1>2, <1>3, PTL DEF Spec
=============================================================================
