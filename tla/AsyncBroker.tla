---------------------------- MODULE AsyncBroker ----------------------------
(***************************************************************************)
(* The async api_call broker (src/pkg/modules/vm/wasmapi/async/           *)
(* processor.go).  An api_call task carries a guest's HTTP request.  The   *)
(* ApiCallProcessor serves it through the in-process router and enqueues  *)
(* an api_result task naming the project, the request's "eventType"      *)
(* header and the response; the ApiResultProcessor hands that result to   *)
(* the dispatcher as a new event of that type on that project.            *)
(*                                                                         *)
(* The queue is asynq, which is not in the sources; it is modelled from   *)
(* spec 4.F and 9: a ProcessTask error wrapping SkipRetry archives the    *)
(* task, any other error retries it (archived once MaxRetry retries are   *)
(* used), a nil return acknowledges it, and a worker that dies after      *)
(* ProcessTask's side effects but before the acknowledgement gets the     *)
(* task back (at-least-once).  The dispatcher's event.HandleEvent is     *)
(* abstracted to "the event is dispatched" or "an error before any        *)
(* handler ran", which are the outcomes OnEventReceived can return.       *)
(* Environment failures (a worker crash, a failed Enqueue, a HandleEvent  *)
(* error) are bounded by MaxFaults.                                       *)
(***************************************************************************)
EXTENDS Naturals, Sequences, SequencesExt, FiniteSets

CONSTANTS
    Calls,      \* api_call tasks produced by guests' ws_api_call
    Projects,   \* project names
    EvTypes,    \* non-empty values of the request's "eventType" header
    MaxRetry,   \* asynq's retry limit for a task
    MaxFaults   \* bound on worker crashes, Enqueue and HandleEvent failures

ASSUME MaxRetry \in Nat /\ MaxFaults \in Nat

VARIABLES
    call,        \* per api_call task: queue state, retries and request
    result,      \* per api_call: the api_result tasks enqueued for it
    dispatched,  \* synthetic events handed to the dispatcher, in order
    faults       \* environment failures so far

vars == <<call, result, dispatched, faults>>

(* The request a guest hands to ws_api_call: whether it decodes into an   *)
(* http.Request (apiCallPayload, HttpRequest, http.NewRequest), its        *)
(* project and its "eventType" header ("" when absent).                   *)
Requests == [wellFormed : BOOLEAN, project : Projects, type : EvTypes \cup {""}]
TaskStates == {"none", "pending", "acking", "done", "archived"}
ResultTask == [st : TaskStates, retried : 0..MaxRetry,
               project : Projects, type : EvTypes \cup {""}]

TypeOK ==
    /\ call \in [Calls -> [st : TaskStates, retried : 0..MaxRetry, req : Requests]]
    /\ result \in [Calls -> Seq(ResultTask)]
    /\ dispatched \in Seq([call : Calls, project : Projects, type : EvTypes \cup {""}])
    /\ faults \in 0..MaxFaults

Init ==
    /\ call = [c \in Calls |-> [st |-> "none", retried |-> 0,
                                req |-> CHOOSE r \in Requests : TRUE]]
    /\ result = [c \in Calls |-> <<>>]
    /\ dispatched = <<>>
    /\ faults = 0

(* asynq's answer to a ProcessTask that returned a retryable error, or    *)
(* whose worker died before acknowledging it.                             *)
Retry(t) == IF t.retried < MaxRetry
            THEN [t EXCEPT !.st = "pending", !.retried = @ + 1]
            ELSE [t EXCEPT !.st = "archived"]

Fault == faults < MaxFaults /\ faults' = faults + 1

(* ws_api_call with an async request: the task is enqueued (spec 4.F).    *)
Produce(c, r) ==
    /\ call[c].st = "none"
    /\ call' = [call EXCEPT ![c] = [st |-> "pending", retried |-> 0, req |-> r]]
    /\ UNCHANGED <<result, dispatched, faults>>

(* Mutant of NewApiResultTask: the first two arguments swapped.            *)
NewApiResultTaskSwapped(project, type) ==
    [st |-> "pending", retried |-> 0, project |-> type, type |-> project]

(* newApiResultTask(projectName, eventType, apiRespJson).                 *)
NewApiResultTask(project, type) ==
    [st |-> "pending", retried |-> 0, project |-> project, type |-> type]

(* Mutant of HasEventType: the missing "eventType" check dropped.         *)
HasEventTypeUnchecked(r) == TRUE

(* req.Header.Get("eventType") is not "".                                   *)
HasEventType(r) == r.type # ""

(* ApiCallProcessor.ProcessTask.  A payload that does not decode, a       *)
(* request without "eventType" and a failed Enqueue all return errors     *)
(* wrapping SkipRetry; otherwise the api_result task is enqueued and the  *)
(* call returns nil.                                                       *)
ApiCallProcess(c) ==
    LET r == call[c].req IN
    /\ call[c].st = "pending"
    /\ \/ /\ ~r.wellFormed \/ ~HasEventType(r)
          /\ call' = [call EXCEPT ![c].st = "archived"]
          /\ UNCHANGED <<result, faults>>
       \/ /\ r.wellFormed /\ HasEventType(r)
          /\ Fault
          /\ call' = [call EXCEPT ![c].st = "archived"]
          /\ UNCHANGED result
       \/ /\ r.wellFormed /\ HasEventType(r)
          /\ result' = [result EXCEPT ![c] = Append(@, NewApiResultTask(r.project, r.type))]
          /\ call' = [call EXCEPT ![c].st = "acking"]
          /\ UNCHANGED faults
    /\ UNCHANGED dispatched

(* ApiResultProcessor.ProcessTask: event.HandleEvent on the project with  *)
(* the result's type; an error is returned as is, so asynq retries it.    *)
(* The json.Unmarshal failure, archived with SkipRetry, is not a step:   *)
(* every api_result task is the newApiResultTask of ApiCallProcess, whose *)
(* payload is the marshalled apiResultPayload and so always decodes.     *)
ApiResultProcess(c, j) ==
    LET t == result[c][j] IN
    /\ t.st = "pending"
    /\ \/ /\ dispatched' = Append(dispatched,
                                  [call |-> c, project |-> t.project, type |-> t.type])
          /\ result' = [result EXCEPT ![c][j].st = "acking"]
          /\ UNCHANGED faults
       \/ /\ Fault
          /\ result' = [result EXCEPT ![c][j] = Retry(t)]
          /\ UNCHANGED dispatched
    /\ UNCHANGED call

(* asynq acknowledges a task whose ProcessTask returned nil.              *)
AckCall(c) ==
    /\ call[c].st = "acking"
    /\ call' = [call EXCEPT ![c].st = "done"]
    /\ UNCHANGED <<result, dispatched, faults>>

AckResult(c, j) ==
    /\ result[c][j].st = "acking"
    /\ result' = [result EXCEPT ![c][j].st = "done"]
    /\ UNCHANGED <<call, dispatched, faults>>

(* The worker dies after ProcessTask's effects, before the ack: asynq     *)
(* recovers the task and runs it again.                                   *)
CrashCall(c) ==
    /\ call[c].st = "acking"
    /\ Fault
    /\ call' = [call EXCEPT ![c] = Retry(@)]
    /\ UNCHANGED <<result, dispatched>>

CrashResult(c, j) ==
    /\ result[c][j].st = "acking"
    /\ Fault
    /\ result' = [result EXCEPT ![c][j] = Retry(@)]
    /\ UNCHANGED <<call, dispatched>>

ResultSlots(c) == DOMAIN result[c]

Next ==
    \/ \E c \in Calls, r \in Requests : Produce(c, r)
    \/ \E c \in Calls : ApiCallProcess(c) \/ AckCall(c) \/ CrashCall(c)
    \/ \E c \in Calls : \E j \in ResultSlots(c) :
          ApiResultProcess(c, j) \/ AckResult(c, j) \/ CrashResult(c, j)

(* asynq's workers keep pulling tasks and acknowledging them.             *)
Fairness ==
    /\ \A c \in Calls : WF_vars(ApiCallProcess(c)) /\ WF_vars(AckCall(c))
    /\ \A c \in Calls : \A j \in 1..(MaxFaults + 1) :
          WF_vars(j \in ResultSlots(c) /\ (ApiResultProcess(c, j) \/ AckResult(c, j)))

Spec == Init /\ [][Next]_vars /\ Fairness

-----------------------------------------------------------------------------
Delivered(c) == {j \in DOMAIN dispatched : dispatched[j].call = c}

(* Every synthetic event reaches the project that made the api_call,      *)
(* with the type its request named, and only for a request that decoded   *)
(* and named one: the type travels from the request header through the   *)
(* api_result task to event.HandleEvent.                                  *)
SyntheticEventMatchesRequest ==
    \A j \in DOMAIN dispatched :
        LET r == call[dispatched[j].call].req IN
        /\ r.wellFormed /\ r.type # ""
        /\ dispatched[j].project = r.project
        /\ dispatched[j].type = r.type

(* Spec property 6, safety half: an api_call produces at most one         *)
(* synthetic event.                                                        *)
AtMostOneSyntheticEvent ==
    \A c \in Calls : Cardinality(Delivered(c)) <= 1

(* Spec property 6, liveness half: an api_call whose request decodes and  *)
(* names an eventType eventually produces a synthetic event, when the     *)
(* queue's retries outnumber the failures.                                *)
EventuallyDelivered ==
    \A c \in Calls :
        (call[c].st = "pending" /\ call[c].req.wellFormed /\ call[c].req.type # "")
            ~> Delivered(c) # {}
=============================================================================
