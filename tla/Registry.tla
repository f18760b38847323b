------------------------------ MODULE Registry ------------------------------
(***************************************************************************)
(* The process-wide instance registry of package vm                       *)
(* (src/pkg/modules/vm/wasmtime/instance_exports.go, lines 532-565) and   *)
(* the lifecycle of the wasm.Instance objects it stores.                  *)
(*                                                                         *)
(* instances is the mapx.Map[uint32, wasm.Instance]: a total function     *)
(* from the id space to an instance or NoInst.  AddInstance mints its id  *)
(* with uuid.New().ID(), 32 random bits, and Stores under it without      *)
(* looking: the id is any member of Ids, so two instances may draw the    *)
(* same one.  DelInstance is LoadAndRemove followed, in a second step,    *)
(* by a Stop of the removed instance if it was started.                   *)
(*                                                                         *)
(* wasm.Instance itself (State/Start/Stop) and the lifecycle controller   *)
(* that calls Start and Stop are not in the repository's sources; they   *)
(* follow the lifecycle state machine of the specification (section 3).  *)
(***************************************************************************)
EXTENDS Naturals, FiniteSets

CONSTANTS
    Ids,        \* the id space of uuid.New().ID(), abstracted to a few ids
    Insts,      \* the wasm.Instance objects that may be deployed
    NoInst      \* the nil instance: an id that maps to nothing

ASSUME NoInst \notin Insts

VARIABLES
    instances,  \* the registry map: Ids -> Insts \cup {NoInst}
    state,      \* the State() of every instance object
    delPending, \* instances removed by a DelInstance that has not yet stopped them
    deleted     \* history: instances whose DelInstance has returned

regVars == <<instances, state, delPending, deleted>>

(* "Fresh" is an instance object that has not been constructed yet.       *)
States == {"Fresh", "Created", "Started", "Stopped"}

RegTypeOK ==
    /\ instances \in [Ids -> Insts \cup {NoInst}]
    /\ state \in [Insts -> States]
    /\ delPending \subseteq Insts
    /\ deleted \subseteq Insts

RegInit ==
    /\ instances = [id \in Ids |-> NoInst]
    /\ state = [i \in Insts |-> "Fresh"]
    /\ delPending = {}
    /\ deleted = {}

(* GetConsumer(id): the lock-free Load of the map (spec 4.A Get).          *)
GetConsumer(id) == instances[id]

(* GetInstanceState always answers (Stopped, true), whatever the id.      *)
GetInstanceState(id) == <<"Stopped", TRUE>>

(* Deploy constructs instance i (state Created) and AddInstance stores it  *)
(* under a fresh random id, overwriting whatever that id held.             *)
AddInstance(i) ==
    /\ state[i] = "Fresh"
    /\ \E id \in Ids :
          instances' = [instances EXCEPT ![id] = i]
    /\ state' = [state EXCEPT ![i] = "Created"]
    /\ UNCHANGED <<delPending, deleted>>

(* DelInstance, first step: i, _ := instances.LoadAndRemove(id).           *)
DelInstanceRemove(id) ==
    /\ instances' = [instances EXCEPT ![id] = NoInst]
    /\ delPending' = IF instances[id] = NoInst THEN delPending
                     ELSE delPending \cup {instances[id]}
    /\ UNCHANGED <<state, deleted>>

(* Mutant of DelInstanceStop: the removed instance is not stopped.       *)
DelInstanceStopNoStop(i) ==
    /\ i \in delPending
    /\ delPending' = delPending \ {i}
    /\ deleted' = deleted \cup {i}
    /\ UNCHANGED <<instances, state>>

(* DelInstance, second step: if i.State() == Started { i.Stop() }.         *)
DelInstanceStop(i) ==
    /\ i \in delPending
    /\ state' = IF state[i] = "Started" THEN [state EXCEPT ![i] = "Stopped"]
                ELSE state
    /\ delPending' = delPending \ {i}
    /\ deleted' = deleted \cup {i}
    /\ UNCHANGED instances

(* The lifecycle controller starts or stops the instance registered under *)
(* id (spec 4.G): Created|Stopped -> Started, Started -> Stopped.          *)
InstanceStart(id) ==
    /\ GetConsumer(id) # NoInst
    /\ state[GetConsumer(id)] \in {"Created", "Stopped"}
    /\ state' = [state EXCEPT ![GetConsumer(id)] = "Started"]
    /\ UNCHANGED <<instances, delPending, deleted>>

InstanceStop(id) ==
    /\ GetConsumer(id) # NoInst
    /\ state[GetConsumer(id)] = "Started"
    /\ state' = [state EXCEPT ![GetConsumer(id)] = "Stopped"]
    /\ UNCHANGED <<instances, delPending, deleted>>

RegNext ==
    \/ \E i \in Insts : AddInstance(i)
    \/ \E id \in Ids : DelInstanceRemove(id)
    \/ \E i \in Insts : DelInstanceStop(i)
    \/ \E id \in Ids : InstanceStart(id) \/ InstanceStop(id)

RegSpec == RegInit /\ [][RegNext]_regVars

-----------------------------------------------------------------------------
(* Every started instance can still be reached, and so stopped: it is     *)
(* registered under some id, or a DelInstance that removed it is about to *)
(* stop it.  AddInstance's blind Store under a random 32-bit id breaks    *)
(* this when the id is already taken: the earlier instance is dropped     *)
(* from the map while still started, and no later DelInstance finds it.   *)
NoOrphanedInstance ==
    \A i \in Insts :
        state[i] = "Started" =>
            \/ \E id \in Ids : instances[id] = i
            \/ i \in delPending

(* The registry and the instances it holds implement the lifecycle of     *)
(* spec 4.G: an instance object not yet constructed is "None", and the    *)
(* instances whose DelInstance has returned are the destroyed ones.  The  *)
(* map itself, and DelInstance's first step, are invisible to it.          *)
Lifecycle == INSTANCE Lifecycle WITH
    life <- [i \in Insts |-> IF state[i] = "Fresh" THEN "None" ELSE state[i]],
    destroyed <- deleted

(* Registry refines Lifecycle: AddInstance is a Deploy, the controller's  *)
(* Start and Stop reach only registered instances, and DelInstance's     *)
(* second step is a Destroy that stops a started instance.  A Start that  *)
(* reached an instance after its DelInstance, or a DelInstance that left *)
(* it running, is a step Lifecycle does not allow.                         *)
LifecycleRefined == Lifecycle!Spec
=============================================================================
