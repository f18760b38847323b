----------------------------- MODULE Lifecycle -----------------------------
(***************************************************************************)
(* What the lifecycle controller promises of an instance (spec 4.G):      *)
(* Deploy creates it, Start and Stop move it between Started and Stopped, *)
(* and Destroy, from any deployed state, stops a started instance and     *)
(* ends its life: a destroyed instance is never started again.            *)
(* Start of a started instance and Stop of a stopped one are idempotent,  *)
(* which is stuttering here.                                              *)
(***************************************************************************)
CONSTANT Insts

VARIABLES
    life,       \* per instance: "None", "Created", "Started" or "Stopped"
    destroyed   \* the instances Destroy has released

Init ==
    /\ life = [i \in Insts |-> "None"]
    /\ destroyed = {}

Deploy(i) ==
    /\ life[i] = "None"
    /\ life' = [life EXCEPT ![i] = "Created"]
    /\ UNCHANGED destroyed

Start(i) ==
    /\ i \notin destroyed /\ life[i] \in {"Created", "Stopped"}
    /\ life' = [life EXCEPT ![i] = "Started"]
    /\ UNCHANGED destroyed

Stop(i) ==
    /\ i \notin destroyed /\ life[i] = "Started"
    /\ life' = [life EXCEPT ![i] = "Stopped"]
    /\ UNCHANGED destroyed

Destroy(i) ==
    /\ i \notin destroyed /\ life[i] # "None"
    /\ life' = [life EXCEPT ![i] = IF @ = "Started" THEN "Stopped" ELSE @]
    /\ destroyed' = destroyed \cup {i}

Next == \E i \in Insts : Deploy(i) \/ Start(i) \/ Stop(i) \/ Destroy(i)

Spec == Init /\ [][Next]_<<life, destroyed>>
=============================================================================
