----------------------------- MODULE Dispatcher -----------------------------
(***************************************************************************)
(* event.OnEventReceived (src/unnamed/part_001, lines 273-386) composed    *)
(* with the instance registry.  Every event is an ingress goroutine that   *)
(* authenticates, resolves its publisher and strategies, then walks the    *)
(* matched handlers: for an id the registry does not hold it sends an     *)
(* "instance not found" result itself, otherwise it does wg.Add(1) and    *)
(* starts a goroutine that calls i.HandleEvent and sends the result.  The *)
(* results travel through a channel buffered to len(handlers); after     *)
(* wg.Wait() the channel is closed and drained into WasmResults.          *)
(*                                                                         *)
(* The registry changes under the dispatcher: instances are added,        *)
(* started, stopped and deleted between the lookup of a handler's id and  *)
(* the moment its goroutine enters the instance.                          *)
(*                                                                         *)
(* Instance.HandleEvent and the strategy lookup are not in the sources:   *)
(* HandleEvent follows spec 3 and 5 (only a STARTED instance runs the     *)
(* handler, one invocation at a time per instance), FindStrategyInstances *)
(* follows spec 4.D (type equal, or the ANY sentinel; it may fail).       *)
(***************************************************************************)
EXTENDS Registry, Sequences, SequencesExt, Bags

CONSTANTS
    Events,       \* the ingress calls, each delivering one event
    Types,        \* event types a header may carry ("DEFAULT" among them)
    AnyType,      \* the strategy sentinel that matches every type
    Strategies,   \* the strategy table: [evt, id, hdl] records
    Tokens,       \* the kinds of token a header may carry
    PubIds,       \* publisher keys a header may carry; "" is none
    KnownPubs,    \* the keys registered as publishers of the project
    None          \* no error message, no publisher

ASSUME "" \in PubIds /\ KnownPubs \subseteq PubIds

VARIABLES
    ev,     \* per event: the ingress goroutine's locals and its result
    task,   \* per (event, strategy): the handler goroutine, if started
    busy    \* per instance: an invocation is inside its linear memory

vars == <<regVars, ev, task, busy>>

(* publisherVerification: the error each kind of token ends in.           *)
AuthError ==
    [Empty        |-> "message token is invalid",
     Unparsable   |-> "ParseToken",
     NonString    |-> "InvalidAuthValue",
     BadProjectID |-> "InvalidAuthPorjectID",
     OtherProject |-> "NoProjectPermission",
     Valid        |-> None]

ASSUME Tokens \subseteq DOMAIN AuthError

Headers == [token : Tokens, pub : PubIds, type : Types \cup {""}]
Codes   == {"OK", "GuestErr", "NoInstance", "NotFound"}
Result  == [id : Ids, code : Codes]
Keys    == Events \X Strategies

(* enums.EVENTTYPEDEFAULT when the header carries no type.                *)
EventTypeOf(h) == IF h.type = "" THEN "DEFAULT" ELSE h.type

(* FindStrategyInstances(projectName, eventType).                          *)
FindStrategyInstances(t) ==
    SetToSeq({s \in Strategies : s.evt = t \/ s.evt = AnyType})

(* Mutant of ResultChanCap: a channel one slot short of the handlers.    *)
ResultChanCapShort(hs) == Len(hs) - 1

(* make(chan *wasm.EventHandleResult, len(handlers)).                     *)
ResultChanCap(hs) == Len(hs)

IdleEv == [pc |-> "Idle", hdr |-> CHOOSE h \in Headers : TRUE, err |-> None,
           pub |-> None, hs |-> <<>>, idx |-> 1, cap |-> 0, chan |-> <<>>,
           wg |-> 0, results |-> <<>>]
IdleTask == [pc |-> "Idle", inst |-> NoInst, ok |-> FALSE, stale |-> FALSE]

TypeOK ==
    /\ RegTypeOK
    /\ \A e \in Events :
          /\ ev[e].pc \in {"Idle", "FanOut", "Done"}
          /\ ev[e].hdr \in Headers
          /\ ev[e].hs \in Seq(Strategies)
          /\ ev[e].chan \in Seq(Result) /\ Len(ev[e].chan) <= ev[e].cap
          /\ ev[e].results \in Seq(Result)
          /\ ev[e].wg \in 0..Cardinality(Strategies)
    /\ \A k \in Keys :
          task[k].pc \in {"Idle", "Spawned", "Running", "Done"}
    /\ busy \in [Insts -> BOOLEAN]

Init ==
    /\ RegInit
    /\ ev = [e \in Events |-> IdleEv]
    /\ task = [k \in Keys |-> IdleTask]
    /\ busy = [i \in Insts |-> FALSE]

(* The header names a publisher key, and the project has no such         *)
(* publisher: the lookup fails and OnEventReceived returns.               *)
PubMiss(h) == h.pub # "" /\ h.pub \notin KnownPubs

(* The prologue of OnEventReceived, up to the fan-out: authentication,    *)
(* the publisher lookup (whose miss returns with err still nil) and the   *)
(* strategy lookup (whose failure is returned).                           *)
Receive(e, h) ==
    /\ ev[e].pc = "Idle"
    /\ \E lookupFails \in BOOLEAN :
         LET hs == FindStrategyInstances(EventTypeOf(h))
             r  == [IdleEv EXCEPT !.hdr = h, !.pc = "Done"]
             authed == AuthError[h.token] = None
         IN  ev' = [ev EXCEPT ![e] =
               CASE ~authed -> [r EXCEPT !.err = AuthError[h.token]]
                 [] authed /\ PubMiss(h) -> r
                 [] authed /\ ~PubMiss(h) /\ lookupFails ->
                      [r EXCEPT !.err = "FindStrategyInstances",
                                !.pub = IF h.pub = "" THEN None ELSE h.pub]
                 [] OTHER ->
                      [r EXCEPT !.pc = "FanOut", !.hs = hs,
                                !.cap = ResultChanCap(hs),
                                !.pub = IF h.pub = "" THEN None ELSE h.pub]]
    /\ UNCHANGED <<regVars, task, busy>>

(* One iteration of the fan-out loop: vm.GetConsumer(v.InstanceID) found  *)
(* nothing, so the ingress goroutine itself sends "instance not found".   *)
FanOutNotFound(e) ==
    LET x == ev[e] IN
    /\ x.pc = "FanOut" /\ x.idx <= Len(x.hs)
    /\ GetConsumer(x.hs[x.idx].id) = NoInst
    /\ Len(x.chan) < x.cap
    /\ ev' = [ev EXCEPT ![e].chan = Append(@, [id |-> x.hs[x.idx].id,
                                               code |-> "NotFound"]),
                        ![e].idx = @ + 1]
    /\ UNCHANGED <<regVars, task, busy>>

(* One iteration of the fan-out loop: the instance was found, wg.Add(1)   *)
(* and go func(v){ ... }(v) with i captured from this iteration.          *)
FanOutSpawn(e) ==
    LET x == ev[e]
        s == x.hs[x.idx]
    IN
    /\ x.pc = "FanOut" /\ x.idx <= Len(x.hs)
    /\ GetConsumer(s.id) # NoInst
    /\ task' = [task EXCEPT ![<<e, s>>] =
                  [IdleTask EXCEPT !.pc = "Spawned", !.inst = GetConsumer(s.id)]]
    /\ ev' = [ev EXCEPT ![e].wg = @ + 1, ![e].idx = @ + 1]
    /\ UNCHANGED <<regVars, busy>>

(* i.HandleEvent entering the instance: it holds the instance's memory    *)
(* and reads its state; stale records that the instance's DelInstance had *)
(* already returned.                                                       *)
HandleEventEnter(k) ==
    LET t == task[k] IN
    /\ t.pc = "Spawned"
    /\ ~busy[t.inst]
    /\ busy' = [busy EXCEPT ![t.inst] = TRUE]
    /\ task' = [task EXCEPT ![k].pc = "Running",
                            ![k].ok = (state[t.inst] = "Started"),
                            ![k].stale = (t.inst \in deleted)]
    /\ UNCHANGED <<regVars, ev>>

(* Mutant of WgDone: wg.Done() both deferred and called.                 *)
WgDoneTwice(n) == n - 2

(* defer wg.Done().                                                         *)
WgDone(n) == n - 1

(* HandleEvent returns; the goroutine sends the result (res <- ...) and   *)
(* calls wg.Done().                                                        *)
HandleEventReturn(k) ==
    LET t == task[k]
        e == k[1]
    IN
    /\ t.pc = "Running"
    /\ Len(ev[e].chan) < ev[e].cap
    /\ \E code \in IF t.ok THEN {"OK", "GuestErr"} ELSE {"NoInstance"} :
          /\ ev' = [ev EXCEPT ![e].chan = Append(@, [id |-> k[2].id, code |-> code]),
                              ![e].wg = WgDone(@)]
          /\ task' = [task EXCEPT ![k] = [IdleTask EXCEPT !.pc = "Done"]]
    /\ busy' = [busy EXCEPT ![t.inst] = FALSE]
    /\ UNCHANGED regVars

(* Mutant of Waited: the goroutines are not counted (wg.Add(1) dropped),  *)
(* so wg.Wait() returns at once.                                           *)
WaitedUncounted(x) == TRUE

(* wg.Wait() returns once every counted goroutine called wg.Done().        *)
Waited(x) == x.wg = 0

(* wg.Wait(); close(res); the non-nil results become WasmResults.         *)
WaitAndCollect(e) ==
    LET x == ev[e] IN
    /\ x.pc = "FanOut" /\ x.idx > Len(x.hs)
    /\ Waited(x)
    /\ ev' = [ev EXCEPT ![e] = [x EXCEPT !.results = x.chan, !.chan = <<>>,
                                          !.idx = 1, !.cap = 0, !.pc = "Done"]]
    /\ UNCHANGED <<regVars, task, busy>>

EventStep(e) == FanOutNotFound(e) \/ FanOutSpawn(e) \/ WaitAndCollect(e)
TaskStep(k)  == HandleEventEnter(k) \/ HandleEventReturn(k)

Next ==
    \/ \E e \in Events, h \in Headers : Receive(e, h)
    \/ \E e \in Events : EventStep(e)
    \/ \E k \in Keys : TaskStep(k)
    \/ RegNext /\ UNCHANGED <<ev, task, busy>>

(* Go runs every runnable goroutine eventually; events and registry       *)
(* operations arrive when their callers choose, so they carry no fairness. *)
Fairness ==
    /\ \A e \in Events : WF_vars(EventStep(e))
    /\ \A k \in Keys : WF_vars(TaskStep(k))

Spec == Init /\ [][Next]_vars /\ Fairness

-----------------------------------------------------------------------------
ResultIds(rs) == ToBag([j \in DOMAIN rs |-> rs[j].id])

(* Spec invariant 1: an OnEventReceived that returns without error has    *)
(* one WasmResults entry per matched strategy, for that strategy's        *)
(* instance id, whether the registry held the instance or not, and        *)
(* whatever the goroutines' order: the WaitGroup must count every         *)
(* goroutine and the ingress goroutine's own not-found sends.             *)
ResultPerHandler ==
    \A e \in Events :
        ev[e].pc = "Done" /\ ev[e].err = None =>
            ResultIds(ev[e].results) = ResultIds([j \in DOMAIN ev[e].hs |-> ev[e].hs[j]])

(* A handler goroutine that reaches an instance after the instance's     *)
(* DelInstance has returned never reports success: the dispatcher may    *)
(* hold the instance from a lookup made before the removal, so only the  *)
(* Stop in DelInstance keeps the removed instance from running handlers. *)
NoSuccessAfterDelete ==
    [][\A k \in Keys :
         task[k].pc = "Running" /\ task'[k].pc = "Done" /\ task[k].stale
            => Last(ev'[k[1]].chan).code # "OK"]_vars

(* Every event that passed authentication and lookup is eventually       *)
(* answered: no send on the result channel blocks the ingress goroutine  *)
(* or a handler goroutine, and wg.Wait() returns.                        *)
EventuallyAnswered ==
    \A e \in Events : ev[e].pc = "FanOut" ~> ev[e].pc = "Done"

(* Spec 4.E step 2: an event from a publisher key the project does not    *)
(* know is answered with err_msg set and no handler invoked.              *)
PublisherMissReported ==
    \A e \in Events :
        /\ ev[e].pc = "Done"
        /\ ev[e].hdr.pub \notin KnownPubs \cup {""}
        /\ AuthError[ev[e].hdr.token] = None
        => ev[e].err # None
=============================================================================
