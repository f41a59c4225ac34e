--------------------------- MODULE MCCommandQueue ---------------------------
(***************************************************************************)
(* Instances of CommandQueue.  "Requests": a request sent twice, a second  *)
(* request and a model operation.  "Family": a Delegate parent with two    *)
(* children and an ordinary job of the thread the second child works in.   *)
(***************************************************************************)
EXTENDS CommandQueue, TLC

CONSTANTS c1, c2, c3, c4, t1, t2, k1, k2, k3, k4

RequestsKeyOf == c1 :> k1 @@ c2 :> k1 @@ c3 :> k2 @@ c4 :> k3
RequestsThreadOf == [c \in Call |-> IF c \in {c1, c2} THEN t1 ELSE None]
RequestsClassOf == [c \in Call |-> IF c = c4 THEN "model" ELSE "non_model"]
RequestsParentOf == [c \in Call |-> None]

FamilyKeyOf == [c \in Call |-> (c1 :> k1 @@ c2 :> k2 @@ c3 :> k3 @@ c4 :> k4)[c]]
FamilyThreadOf == [c \in Call |-> (c1 :> t1 @@ c2 :> None @@ c3 :> t2 @@ c4 :> t2)[c]]
FamilyClassOf == [c \in Call |-> "non_model"]
FamilyParentOf == [c \in Call |-> IF c \in {c2, c3} THEN c1 ELSE None]

OnePerClass == "model" :> 1 @@ "non_model" :> 1
TwoPerClass == "model" :> 2 @@ "non_model" :> 2
=============================================================================
