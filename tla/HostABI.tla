------------------------------ MODULE HostABI ------------------------------
(***************************************************************************)
(* The host ABI one wasm instance is linked against: the methods of       *)
(* ExportFuncs (src/pkg/modules/vm/wasmtime/instance_exports.go) that     *)
(* LinkABI exports as env.* and stat.ws_submit_metrics.                    *)
(*                                                                         *)
(* The guest calls them one at a time (an instance handles one event at a *)
(* time, spec 4.E), so each host call is one atomic action.  Its inputs   *)
(* are what the code branches on: whether rt.Read of the guest's          *)
(* arguments succeeds (rd), whether rt.Copy of the answer back into guest *)
(* memory succeeds (cp), and whether the external service it calls (the  *)
(* KV store, the SQL store, the chain client, the MQTT broker, the metric *)
(* sink) returns nil (ext).  Payloads are model values.                   *)
(*                                                                         *)
(* ef.res is the resource map the dispatcher fills with an event's        *)
(* payload; ef.kvs, ef.db, ef.env, ef.cl and ef.mq come from the context, *)
(* and may be nil (deps).  logAndPersistToDB is modelled by what it      *)
(* changes: ef.log is replaced by ef.log.WithValues("@src", ...), one    *)
(* more "@src" pair each time (logDepth).                                  *)
(***************************************************************************)
EXTENDS Naturals

CONSTANTS
    Rids,       \* resource ids a guest passes to ws_get_data / ws_set_data
    Keys,       \* KV keys and env keys
    Vals,       \* payloads: resource bytes, KV values, env values, SQL rows
    Absent,     \* no entry under a key; for the SQL store, no rows
    None,       \* no bytes handed to the guest
    MaxCalls    \* bound on the host calls of a run

ASSUME Absent \notin Vals /\ None \notin Vals /\ MaxCalls \in Nat

VARIABLES
    res,        \* ef.res: Rids -> payload or Absent
    kvs,        \* ef.kvs: the project's KV store
    sql,        \* the rows of the project's SQL schema
    deps,       \* which context dependencies are non-nil, and ef.env
    ext,        \* effects on the world outside: txs sent, MQTT messages,
                \* api calls served, metrics submitted
    ret,        \* the last host call: its name, code, key, bytes out and fault
    logDepth,   \* "@src" pairs accumulated on ef.log
    calls       \* host calls so far

vars == <<res, kvs, sql, deps, ext, ret, logDepth, calls>>

(* wasm.ResultStatusCode values the host returns; "None" for the void     *)
(* imports abort and trace.                                               *)
Codes == {"OK", "Failed", "ResourceNotFound", "TransDataFromVMFailed",
          "TransDataToVMFailed", "NoDBContext", "EnvKeyNotFound", "None"}
Fns == {"Log", "ApiCall", "Abort", "Trace", "Seed", "GetData", "SetData",
        "GetDB", "SetDB", "SetSQLDB", "GetSQLDB", "SendTX", "CallContract",
        "SendMqttMsg", "GetEnv", "StatSubmit"}
(* Which memory transfer failed: rt.Read of the arguments or rt.Copy of   *)
(* the answer.                                                             *)
Faults == {"read", "copy", "none"}
(* Bytes a call hands back that are not a stored payload.                  *)
Opaque == {"txHash", "callResult", "apiResponse", "rand"}
Entry == Vals \cup {Absent}
Effects == [tx : Nat, mqtt : Nat, served : Nat, metrics : Nat]

TypeOK ==
    /\ res \in [Rids -> Entry]
    /\ kvs \in [Keys -> Entry]
    /\ sql \in Entry
    /\ deps \in [db : BOOLEAN, cl : BOOLEAN, mq : BOOLEAN,
                 env : [Keys -> Entry] \cup {None}]
    /\ ext \in Effects
    /\ ret \in [fn : Fns \cup {"none"}, code : Codes,
                key : Rids \cup Keys \cup {None},
                out : Entry \cup Opaque \cup {None}, fault : Faults]
    /\ logDepth \in 0..(2 * MaxCalls)
    /\ calls \in 0..MaxCalls

(* The dispatcher has stored one event's payload under some rid; the KV  *)
(* store, the SQL schema and the env hold whatever earlier runs left.     *)
Init ==
    /\ \E r \in Rids, v \in Vals : res = [x \in Rids |-> IF x = r THEN v ELSE Absent]
    /\ kvs \in [Keys -> Entry]
    /\ sql \in Entry
    /\ deps \in [db : BOOLEAN, cl : BOOLEAN, mq : BOOLEAN,
                 env : [Keys -> Entry] \cup {None}]
    /\ ext = [tx |-> 0, mqtt |-> 0, served |-> 0, metrics |-> 0]
    /\ ret = [fn |-> "none", code |-> "None", key |-> None, out |-> None, fault |-> "none"]
    /\ logDepth = 0
    /\ calls = 0

Call == calls < MaxCalls /\ calls' = calls + 1

(* Mutant of Logs: one logAndPersistToDB more than the code makes.        *)
LogsExtra(n) == logDepth' = logDepth + n + 1

(* logAndPersistToDB, called n times in one host call: each call sets     *)
(* ef.log = ef.log.WithValues("@src", logSrc) and dispatches a log task. *)
Logs(n) == logDepth' = logDepth + n

Ret(fn, code, key, out, fault) ==
    ret' = [fn |-> fn, code |-> code, key |-> key, out |-> out, fault |-> fault]

Tick(field) == ext' = [ext EXCEPT ![field] = @ + 1]

(* ws_log: Log(level, ptr, size).                                        *)
Log(rd) ==
    /\ Call /\ Logs(1)
    /\ \/ ~rd /\ Ret("Log", "Failed", None, None, "read")
       \/ rd  /\ Ret("Log", "OK", None, None, "none")
    /\ UNCHANGED <<res, kvs, sql, deps, ext>>

(* ws_api_call: the request is served by the in-process router (srv.Call *)
(* has no error result; json.Marshal of its HttpResponse cannot fail) and *)
(* the response copied back.                                              *)
ApiCall(rd, cp) ==
    /\ Call
    /\ \/ /\ ~rd /\ Logs(1) /\ UNCHANGED ext
          /\ Ret("ApiCall", "TransDataFromVMFailed", None, None, "read")
       \/ /\ rd /\ Tick("served")
          /\ \/ ~cp /\ Logs(1) /\ Ret("ApiCall", "TransDataToVMFailed", None, None, "copy")
             \/ cp  /\ Logs(0) /\ Ret("ApiCall", "OK", None, "apiResponse", "none")
    /\ UNCHANGED <<res, kvs, sql, deps>>

(* abort and trace: readString of the arguments, then exactly one         *)
(* logAndPersistToDB whether it failed or not.                             *)
Abort ==
    /\ Call /\ Logs(1)
    /\ Ret("Abort", "None", None, None, "none")
    /\ UNCHANGED <<res, kvs, sql, deps, ext>>

Trace ==
    /\ Call /\ Logs(1)
    /\ Ret("Trace", "None", None, None, "none")
    /\ UNCHANGED <<res, kvs, sql, deps, ext>>

Seed ==
    /\ Call /\ Logs(0)
    /\ Ret("Seed", "OK", None, "rand", "none")
    /\ UNCHANGED <<res, kvs, sql, deps, ext>>

(* ws_get_data: ef.res.Load(rid), then rt.Copy.                            *)
GetData(rid, cp) ==
    /\ Call
    /\ \/ /\ res[rid] = Absent /\ Logs(0)
          /\ Ret("GetData", "ResourceNotFound", rid, None, "none")
       \/ /\ res[rid] # Absent /\ ~cp /\ Logs(1)
          /\ Ret("GetData", "TransDataToVMFailed", rid, None, "copy")
       \/ /\ res[rid] # Absent /\ cp /\ Logs(0)
          /\ Ret("GetData", "OK", rid, res[rid], "none")
    /\ UNCHANGED <<res, kvs, sql, deps, ext>>

(* ws_set_data: rt.Read of the bytes, then ef.res.Store(rid, buf).         *)
SetData(rid, v, rd) ==
    /\ Call
    /\ \/ /\ ~rd /\ Logs(1) /\ UNCHANGED res
          /\ Ret("SetData", "TransDataToVMFailed", rid, None, "read")
       \/ /\ rd /\ Logs(0)
          /\ res' = [res EXCEPT ![rid] = v]
          /\ Ret("SetData", "OK", rid, None, "none")
    /\ UNCHANGED <<kvs, sql, deps, ext>>

(* ws_get_db: read the key, ef.kvs.Get (an error or a nil value is "not  *)
(* found"), log the value, then rt.Copy.                                  *)
GetDB(k, rd, ok, cp) ==
    /\ Call
    /\ \/ /\ ~rd /\ Logs(1)
          /\ Ret("GetDB", "ResourceNotFound", None, None, "read")
       \/ /\ rd /\ (kvs[k] = Absent \/ ~ok) /\ Logs(0)
          /\ Ret("GetDB", "ResourceNotFound", k, None, "none")
       \/ /\ rd /\ kvs[k] # Absent /\ ok
          /\ \/ ~cp /\ Logs(2) /\ Ret("GetDB", "TransDataToVMFailed", k, None, "copy")
             \/ cp  /\ Logs(1) /\ Ret("GetDB", "OK", k, kvs[k], "none")
    /\ UNCHANGED <<res, kvs, sql, deps, ext>>

(* ef.kvs.Set(key, val), which changes the store only when it returns nil. *)
KvsSet(k, v, ok) == kvs' = IF ok THEN [kvs EXCEPT ![k] = v] ELSE kvs

(* ws_set_db: read the key and the value, log them, then ef.kvs.Set.      *)
SetDB(k, v, rd, ok) ==
    /\ Call
    /\ \/ /\ ~rd /\ Logs(1) /\ UNCHANGED kvs
          /\ Ret("SetDB", "ResourceNotFound", None, None, "read")
       \/ /\ rd /\ ~ok /\ Logs(2) /\ KvsSet(k, v, ok)
          /\ Ret("SetDB", "Failed", k, None, "none")
       \/ /\ rd /\ ok /\ Logs(1)
          /\ KvsSet(k, v, ok)
          /\ Ret("SetDB", "OK", k, None, "none")
    /\ UNCHANGED <<res, sql, deps, ext>>

(* ws_set_sql_db: no SQL store in the context, a failed Read, then        *)
(* ParseQuery, WithDefaultSchema and ExecContext, any of which may fail   *)
(* (ok = FALSE), each with one log and Failed.                            *)
SetSQLDB(v, rd, ok) ==
    /\ Call
    /\ \/ /\ ~deps.db /\ Logs(0) /\ UNCHANGED sql
          /\ Ret("SetSQLDB", "NoDBContext", None, None, "none")
       \/ /\ deps.db /\ ~rd /\ Logs(1) /\ UNCHANGED sql
          /\ Ret("SetSQLDB", "ResourceNotFound", None, None, "read")
       \/ /\ deps.db /\ rd /\ ~ok /\ Logs(1) /\ UNCHANGED sql
          /\ Ret("SetSQLDB", "Failed", None, None, "none")
       \/ /\ deps.db /\ rd /\ ok /\ Logs(0)
          /\ sql' = v
          /\ Ret("SetSQLDB", "OK", None, None, "none")
    /\ UNCHANGED <<res, kvs, deps, ext>>

(* ws_get_sql_db: as SetSQLDB up to QueryContext; JsonifyRows of the rows *)
(* (Absent: no rows) is copied back.                                       *)
GetSQLDB(rd, ok, cp) ==
    /\ Call
    /\ \/ /\ ~deps.db /\ Logs(0)
          /\ Ret("GetSQLDB", "NoDBContext", None, None, "none")
       \/ /\ deps.db /\ ~rd /\ Logs(1)
          /\ Ret("GetSQLDB", "ResourceNotFound", None, None, "read")
       \/ /\ deps.db /\ rd /\ ~ok /\ Logs(1)
          /\ Ret("GetSQLDB", "Failed", None, None, "none")
       \/ /\ deps.db /\ rd /\ ok /\ ~cp /\ Logs(1)
          /\ Ret("GetSQLDB", "TransDataToVMFailed", None, None, "copy")
       \/ /\ deps.db /\ rd /\ ok /\ cp /\ Logs(0)
          /\ Ret("GetSQLDB", "OK", None, sql, "none")
    /\ UNCHANGED <<res, kvs, sql, deps, ext>>

(* Mutant of SubmitTx: the tx handed to a background sender (the TODO on *)
(* SendTX), so the hash is answered before anything was sent.              *)
SubmitTxAsync == UNCHANGED ext

(* cl.SendTX submitting the transaction.                                   *)
SubmitTx == Tick("tx")

(* SendTX reaches the Copy of the hash: a chain client, a Read of the      *)
(* request, and cl.SendTX returning nil.                                   *)
TxSent(rd, ok) == deps.cl /\ rd /\ ok

(* ws_send_tx and ws_send_tx_with_operator (identical but for the         *)
(* operator name): no chain client, a failed Read, a failed cl.SendTX, or *)
(* a failed Copy of the tx hash after the tx was sent; all return Failed.  *)
SendTX(rd, ok, cp) ==
    /\ Call
    /\ \/ /\ ~TxSent(rd, ok) /\ Logs(1) /\ UNCHANGED ext
          /\ Ret("SendTX", "Failed", None, None,
                 IF deps.cl /\ ~rd THEN "read" ELSE "none")
       \/ /\ TxSent(rd, ok) /\ SubmitTx
          /\ \/ ~cp /\ Logs(1) /\ Ret("SendTX", "Failed", None, None, "copy")
             \/ cp  /\ Logs(0) /\ Ret("SendTX", "OK", None, "txHash", "none")
    /\ UNCHANGED <<res, kvs, sql, deps>>

(* ws_call_contract: as SendTX, but cl.CallContract is a read-only call.  *)
CallContract(rd, ok, cp) ==
    /\ Call /\ Logs(IF deps.cl /\ rd /\ ok /\ cp THEN 0 ELSE 1)
    /\ \/ /\ (~deps.cl \/ ~rd \/ ~ok)
          /\ Ret("CallContract", "Failed", None, None,
                 IF deps.cl /\ ~rd THEN "read" ELSE "none")
       \/ deps.cl /\ rd /\ ok /\ ~cp /\ Ret("CallContract", "Failed", None, None, "copy")
       \/ deps.cl /\ rd /\ ok /\ cp /\ Ret("CallContract", "OK", None, "callResult", "none")
    /\ UNCHANGED <<res, kvs, sql, deps, ext>>

(* ws_send_mqtt_msg: no MQTT client, a failed Read of topic or message,   *)
(* or a failed Publish; each logs and returns Failed.                      *)
SendMqttMsg(rd, ok) ==
    /\ Call
    /\ \/ /\ (~deps.mq \/ ~rd \/ ~ok) /\ Logs(1) /\ UNCHANGED ext
          /\ Ret("SendMqttMsg", "Failed", None, None,
                 IF deps.mq /\ ~rd THEN "read" ELSE "none")
       \/ /\ deps.mq /\ rd /\ ok /\ Logs(0) /\ Tick("mqtt")
          /\ Ret("SendMqttMsg", "OK", None, None, "none")
    /\ UNCHANGED <<res, kvs, sql, deps>>

(* ws_get_env: no env in the context or no such key is EnvKeyNotFound    *)
(* without a log; a failed Read or Copy logs.                             *)
GetEnv(k, rd, cp) ==
    /\ Call
    /\ \/ /\ deps.env = None /\ Logs(0)
          /\ Ret("GetEnv", "EnvKeyNotFound", None, None, "none")
       \/ /\ deps.env # None /\ ~rd /\ Logs(1)
          /\ Ret("GetEnv", "TransDataToVMFailed", None, None, "read")
       \/ /\ deps.env # None /\ rd /\ deps.env[k] = Absent /\ Logs(0)
          /\ Ret("GetEnv", "EnvKeyNotFound", k, None, "none")
       \/ /\ deps.env # None /\ rd /\ deps.env[k] # Absent /\ ~cp /\ Logs(1)
          /\ Ret("GetEnv", "TransDataToVMFailed", k, None, "copy")
       \/ /\ deps.env # None /\ rd /\ deps.env[k] # Absent /\ cp /\ Logs(0)
          /\ Ret("GetEnv", "OK", k, deps.env[k], "none")
    /\ UNCHANGED <<res, kvs, sql, deps, ext>>

(* stat.ws_submit_metrics: the buffer must read, be valid JSON and not an *)
(* array, and metrics.Submit must succeed.                                 *)
JsonKinds == {"object", "array", "invalid"}

StatSubmit(rd, json, ok) ==
    /\ Call
    /\ \/ /\ (~rd \/ json # "object" \/ ~ok) /\ Logs(1) /\ UNCHANGED ext
          /\ Ret("StatSubmit", "Failed", None, None, IF rd THEN "none" ELSE "read")
       \/ /\ rd /\ json = "object" /\ ok /\ Logs(0) /\ Tick("metrics")
          /\ Ret("StatSubmit", "OK", None, None, "none")
    /\ UNCHANGED <<res, kvs, sql, deps>>

Next ==
    \/ \E rd \in BOOLEAN : Log(rd)
    \/ \E rd, cp \in BOOLEAN : ApiCall(rd, cp)
    \/ Abort \/ Trace \/ Seed
    \/ \E rid \in Rids, cp \in BOOLEAN : GetData(rid, cp)
    \/ \E rid \in Rids, v \in Vals, rd \in BOOLEAN : SetData(rid, v, rd)
    \/ \E k \in Keys, rd, ok, cp \in BOOLEAN : GetDB(k, rd, ok, cp)
    \/ \E k \in Keys, v \in Vals, rd, ok \in BOOLEAN : SetDB(k, v, rd, ok)
    \/ \E v \in Vals, rd, ok \in BOOLEAN : SetSQLDB(v, rd, ok)
    \/ \E rd, ok, cp \in BOOLEAN : GetSQLDB(rd, ok, cp) \/ SendTX(rd, ok, cp)
                                    \/ CallContract(rd, ok, cp)
    \/ \E rd, ok \in BOOLEAN : SendMqttMsg(rd, ok)
    \/ \E k \in Keys, rd, cp \in BOOLEAN : GetEnv(k, rd, cp)
    \/ \E rd, ok \in BOOLEAN, json \in JsonKinds : StatSubmit(rd, json, ok)

Spec == Init /\ [][Next]_vars

-----------------------------------------------------------------------------
(* Spec 4.B: a bounds error on Read of the guest's arguments is reported  *)
(* as TransDataFromVMFailed, one on Copy of the answer as                 *)
(* TransDataToVMFailed.  The ExportFuncs methods each pick their own code *)
(* for a failed rt.Read or rt.Copy.                                        *)
TransferFaultCode ==
    /\ ret.fault = "read" => ret.code = "TransDataFromVMFailed"
    /\ ret.fault = "copy" => ret.code = "TransDataToVMFailed"

(* A host call changes the world outside (a transaction sent, an MQTT    *)
(* message published, an api request served, a metric submitted) only    *)
(* when it answers OK, or when all that failed after the effect was the   *)
(* rt.Copy of its answer; and an OK from SendTX, SendMqttMsg, ApiCall or  *)
(* StatSubmit always comes with its effect.  So the one failure a guest   *)
(* must not blindly retry is a copy failure of an effectful import.       *)
EffectMatchesAnswer ==
    [][/\ ext' # ext => ret'.code = "OK" \/ ret'.fault = "copy"
       /\ ret'.fn \in {"SendTX", "SendMqttMsg", "ApiCall", "StatSubmit"}
          /\ ret'.code = "OK" /\ calls' # calls => ext' # ext]_vars

(* A host call that reports a failure to the guest has had no effect:     *)
(* no store changed, no transaction sent, no request served.  The guest   *)
(* may then retry it.  SendTX and ApiCall perform their effect before the *)
(* rt.Copy of the answer, whose failure they then report.                 *)
FailedCallHasNoEffect ==
    [][ret'.code \notin {"OK", "None"} => UNCHANGED <<res, kvs, sql, ext>>]_vars

(* logAndPersistToDB tags a log line with its "@src": the logger of an   *)
(* instance carries at most one such pair, however many host calls have   *)
(* logged.                                                                  *)
LogContextBounded == logDepth <= 1
=============================================================================
