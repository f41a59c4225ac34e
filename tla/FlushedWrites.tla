----------------------------- MODULE FlushedWrites -----------------------------
(***************************************************************************)
(* What flushed() promises its callers, whoever syncs and whatever dies: a *)
(* write is answered only when no later crash or power loss can undo it.   *)
(* Durability implements this specification.                               *)
(***************************************************************************)
CONSTANT Client

VARIABLES
    latest,    \* the writes of the current state of the database
    durable,   \* those no power loss can undo
    told       \* what each client knows of its write

vars == <<latest, durable, told>>

Init == latest = {} /\ durable = {} /\ told = [c \in Client |-> "idle"]

Write(c) ==
    /\ told[c] = "idle"
    /\ latest' = latest \cup {c}
    /\ told' = [told EXCEPT ![c] = "waiting"]
    /\ UNCHANGED durable

Harden == durable' = latest /\ UNCHANGED <<latest, told>>

Tell(cs, word) ==
    /\ \A c \in cs : told[c] = "waiting"
    /\ told' = [c \in Client |-> IF c \in cs THEN word ELSE told[c]]
    /\ UNCHANGED <<latest, durable>>

\* The process is gone, and after a power loss so is what was not durable.
Lose ==
    /\ told' = [c \in Client |-> IF told[c] = "waiting" THEN "lost" ELSE told[c]]
    /\ \/ UNCHANGED <<latest, durable>>
       \/ \E kept \in SUBSET latest :
             durable \subseteq kept /\ latest' = kept /\ durable' = kept

Next ==
    \/ \E c \in Client : Write(c)
    \/ \E cs \in SUBSET Client :
         \/ cs \subseteq durable /\ Tell(cs, "answered")
         \/ Tell(cs, "unavailable")
    \/ Harden \/ Lose

Spec == Init /\ [][Next]_vars

\* An answered write survives every later crash and power loss.
AnsweredSurvives == \A c \in Client : told[c] = "answered" => c \in durable
=============================================================================
