# TLA+ models of w3bstream's event runtime

This directory holds TLA+ models of the w3bstream sources under `src/`, the
TLC configurations that check them, and `PROJECT.json`. `PROJECT.json` lists
the components, the runs, the mutants, the map from each definition to source
lines, the findings and the hazards.

## The system

w3bstream receives events from publishers and hands them to WebAssembly
handlers. Each project deploys these handlers as wasm instances. The parts in
`src/`, and how they interact:

| Part | Source | State | Operations |
|---|---|---|---|
| Instance registry | `pkg/modules/vm/wasmtime/instance_exports.go` 532-566 | `instances`, a `mapx.Map[uint32, wasm.Instance]` | `AddInstance`, `DelInstance`, `GetInstanceState`, `StartInstance`/`StopInstance` (no-ops) |
| Event ingress and fan-out | `unnamed/part_001` 241-395 (package event) | per call: the result, a buffered channel and a `sync.WaitGroup` | `OnEventReceived`, `publisherVerification`, `HandleEvents` |
| Host ABI | `instance_exports.go` 1-531 (`ExportFuncs`) | `ef.res`, `ef.kvs`, the SQL store, `ef.env`, `ef.log`, clients from the context | one method per wasm import (`ws_get_data`, `ws_set_db`, `ws_send_tx`, ...) |
| Async api broker | `pkg/modules/vm/wasmapi/async/processor.go` | asynq tasks `api_call` and `api_result` | `ApiCallProcessor.ProcessTask`, `ApiResultProcessor.ProcessTask` |
| WASM SQL database | `unnamed/part_001` 1-240 (package wasm) | schemas and the shared endpoint | `Database.Init`, `WithSchema`, `WithDefaultSchema` |
| Resource files | `unnamed/part_002` | files on disk | `Upload`, `UnTar`, `CheckMD5`, `IsPathExists` |
| Configuration types | `pkg/types/types.go` | config structs | `ChainConfig.Init`, `EthAddressWhiteList.Init/Validate`, `RobotNotifier` signing |
| Validator error set | `vendor/.../errors_set.go` | a tree of field errors | `AddErr`, `Flatten`, `Err` |
| Status errors | `unnamed/part_000` | generated constants | none |

The parts interact as follows:

- An event goes through `OnEventReceived` in order: authentication, the
  publisher lookup, then the strategy lookup. The lookup gives the handlers
  bound to the event type, or to `ANY`.
- For each handler, `vm.GetConsumer` loads the instance from the registry. A
  goroutine then calls `HandleEvent` on it.
- While a handler runs, it calls host imports in `ExportFuncs`.
- `ws_api_call` serves an HTTP request through the in-process router. When
  the request is asynchronous, it goes to the async broker instead. The
  broker's `ApiResultProcessor` feeds the response back into the dispatcher
  as a new event.
- Deploy and delete go through the registry while events are in flight.

Three things are not under `src/`. The code models them from `spec.md` and
`PROJECT.json` marks them `spec_modelled`:

- `strategy.FindStrategyInstances`;
- `wasm.Instance` (its `State`/`Start`/`Stop`/`HandleEvent`);
- the asynq queue.

## Modules

| Module | Models | State (VARIABLES) | Actions |
|---|---|---|---|
| `Lifecycle` | the abstract instance lifecycle of spec 4.G | `life`, `destroyed` | `Deploy`, `Start`, `Stop`, `Destroy` |
| `Registry` | the instance registry and the instance lifecycle | `instances`, `state`, `delPending`, `deleted` | `AddInstance`, `DelInstanceRemove`, `DelInstanceStop`, `InstanceStart`, `InstanceStop` |
| `Dispatcher` (EXTENDS `Registry`) | `OnEventReceived` for several concurrent events, with deploys and deletes interleaved | `ev` (per event: pc, header, err, handlers, loop index, channel, WaitGroup, results), `task` (per event and handler goroutine), `busy` (per instance) | `Receive`, `FanOutNotFound`, `FanOutSpawn`, `HandleEventEnter`, `HandleEventReturn`, `WaitAndCollect`, and the registry's actions |
| `AsyncBroker` | both asynq processors and asynq's delivery | `call`, `result`, `dispatched`, `faults` | `Produce`, `ApiCallProcess`, `ApiResultProcess`, `AckCall`, `AckResult`, `CrashCall`, `CrashResult` |
| `HostABI` | the `ExportFuncs` imports of one instance | `res`, `kvs`, `sql`, `deps`, `ext`, `ret`, `logDepth`, `calls` | one action per linked import |
| `Config` | the once-at-startup initialisers of `types.go` | `configured`, `whitelist`, `upload`, `fsType`, `maxConn`, `robot`, `done` | `WhiteListInit`, `UploadSetDefault`, `FileSystemSetDefault`, `WasmDBSetDefault`, `RobotInit` |
| `ChainConfig` | `ChainConfig.Init` and `ETHClientConfig.Init` | `configs`, `chains`, `chainIDs`, `endpoints`, `clients`, `phase` | `ChainConfigInit`, `ETHClientInit` |
| `WasmDatabase` | `wasm.Database` (`unnamed/part_001` 19-240) | `declared`, `schemas`, `migrated`, `phase`, `answer` | `DatabaseInit`, `WithSchema` |
| `Resource` | `resource.Upload` and `resource.UnTar` (`unnamed/part_002` 19-131) | `dirs`, `files`, `subdirs`, `req`, `untar`, `lastWriter`, `mixed` | `UploadCheck`, `UploadWrite`, `UploadCopyEnd`, `UnTarOpen`, `UnTarStep`, `UnTarWrite`, `UnTarCopyEnd` |
| `ErrorSet` | the validator's `ErrorSet` (vendored `errors_set.go`) | `sets`, `heap`, `flats` | `AddErr`, `FlattenCall` |

How each module corresponds to the code:

- **Registry.**
  - `AddInstance` draws its id from a small set `Ids` and stores the instance
    there without looking. This is what `uuid.New().ID()` followed by `Store`
    does.
  - `DelInstance` is two actions: `LoadAndRemove`, then the `Stop` of the
    removed instance. Other goroutines can run between the two.
- **Dispatcher.**
  - `Receive` is the prologue of `OnEventReceived` up to the strategy lookup.
    It covers every early return: an authentication error, the
    publisher-lookup miss (which returns with `err == nil`), and a failed
    strategy lookup.
  - Each iteration of the fan-out loop is one step. A missing instance
    produces "instance not found" on the channel. A found instance gets
    `wg.Add(1)` and a goroutine.
  - A goroutine enters `HandleEvent` only when the instance is not busy. This
    models spec 4.E: one event at a time per instance.
  - `WaitAndCollect` is `wg.Wait(); close(res)` followed by the collection
    loop. It may fire only when the WaitGroup is zero.
- **AsyncBroker.**
  - `ApiCallProcess` has three outcomes:
    1. the payload does not decode, or the request has no `eventType`: the
       task is archived with SkipRetry;
    2. `Enqueue` fails: the task is archived with SkipRetry;
    3. otherwise an `api_result` task is enqueued.
  - `ApiResultProcess` either dispatches the event or fails, and a failure
    is retried. A crash between a processor's effect and its
    acknowledgement makes asynq hand the task out again.
- **HostABI.**
  - Every import reads the guest's arguments (`rd`), may call an external
    service (`ok`), and may copy an answer back (`cp`). The action takes
    each of these as a boolean input, so every early return of the method is
    a disjunct.
  - `Logs(n)` models the `n` calls to `logAndPersistToDB` that a path makes.
    Each call replaces `ef.log` with `ef.log.WithValues("@src", ...)`.
  - `ret` records the name of the last call, its status code, its key, the
    bytes it handed to the guest, and which memory transfer failed.

- **Lifecycle and refinement.** `Registry` defines
  `Lifecycle == INSTANCE Lifecycle WITH life <- ..., destroyed <- deleted`.
  A registered instance that has not been started maps to the abstract
  `Created`. An instance whose `DelInstance` has finished maps to
  `destroyed`. The abstract `Spec` is checked as the property
  `LifecycleRefined`. Deleting a started instance refines `Destroy` only
  because `DelInstance` stops it in its second step.
- **Config.** Each initialiser is an action that runs once, in any order.
  `Validate` is an operator. An address is its hex digits and its case.
  `strfmt`'s validator is not in `src/`, so it is modelled from its contract
  (`ValidAddr`).
- **ChainConfig.**
  - The endpoints JSON is a map from keys to URLs.
  - A key is written canonically ("1"), zero-padded ("01") or as a non-number.
  - `ETHClientInit` visits the keys in any order (`SetToSeqs`), because
    gjson's `Map()` is a Go map.
  - `Uint32` keeps the low `IdWidth` bits.
- **WasmDatabase.**
  - `DatabaseInit` is the whole of `Init`: the merge of declared schemas by
    name, `ep.Init` (which may fail), and the migration loop in every map
    order.
  - The loop is `Migrate`, a fold in which the endpoint's table set only
    grows, because `ep := d.ep` is the shared pointer. It stops at any
    failing `Migrate`.
  - Each step first builds the schema's tables (`TableBuildPanics`, for
    `Table.Build`), which calls `Column.Datatype` on every column. A
    datatype outside `Supported`, the switch's cases, panics; the zero value
    of a column whose JSON leaves it out is one. Init then ends in phase
    `panicked`.
  - Tables are names with a fixed set of columns, and a column is its
    datatype. The SQL type each case returns, keys, defaults and the other
    column fields are copied into the builder and are left out.
  - The partial state a failed or panicked Init leaves is reachable, but no
    action reads it: `WithSchema` is enabled after a successful Init only,
    because the caller that would go on after a failure is not in `src/`.
- **Resource.**
  - A request is `UploadCheck` (everything up to `OpenFile`), then one
    `UploadWrite` per write of `io.Copy`, then `UploadCopyEnd` (its return).
    A write is one byte: the multipart reader hands `io.Copy` what it has,
    so a write may be that small. Two uploads of one path each write
    through their own descriptor from offset 0, so their writes interleave.
  - `WriteAt` is a write into a file opened without `O_TRUNC`: the bytes
    past it stay.
  - `io.Copy` may return an error after any prefix of the part.
  - `lastWriter` (the writer of a path's last write) and `mixed` (the paths
    an upload wrote after `UnTar` opened them) are history variables.
  - `UnTar` runs beside the uploads, over the same file tree. `UnTarOpen`
    is everything before the loop. `UnTarStep` is one loop iteration up to
    the entry's copy: `tr.Next` (EOF, a corrupt stream, or an entry), then
    the entry's `MkdirAll` or `OpenFile`. `UnTarWrite` and `UnTarCopyEnd`
    are the entry's `io.Copy`, as in Upload. `untar.written` is a history
    field.
  - Upload's `OpenFile` cannot open a path that an extracted directory
    entry made a directory.
- **ErrorSet.**
  - Key paths are Go slices over a heap of backing arrays.
  - `GoAppend` is `append`: it writes in place when the slice has room, and
    otherwise copies with the runtime's growth rule.
  - `Flatten` is a RECURSIVE operator that threads the heap through its
    folds.
  - `LeafPaths` is the reference definition it is checked against.
  - A caller passes a key path either as listed keys (a fresh slice of exact
    capacity) or as a slice with room to spare.

## Runs

| Run | Config | Expect | What it shows |
|---|---|---|---|
| `dispatch` | `MCDispatcher.cfg` | pass | `ResultPerHandler`: a successful event has exactly one result per matched handler. `NoSuccessAfterDelete`: no handler reports OK on an instance whose `DelInstance` has returned. `EventuallyAnswered`: every fanned-out event completes. `LifecycleRefined`: the registry refines `Lifecycle`. |
| `async_broker` | `MCAsyncBroker.cfg` | pass | `SyntheticEventMatchesRequest`: under crashes, retries and failed enqueues, a synthetic event always carries the project and the `eventType` of its request, and only for a request that named one. |
| `host_abi` | `MCHostABI.cfg` | pass | `EffectMatchesAnswer`: over every import and every error path, a call changes the outside world only when it answers OK or fails copying its answer back, and an OK from `SendTX`, `SendMqttMsg`, `ApiCall` or `StatSubmit` always comes with its effect. |
| `chain_config` | `MCChainConfig.cfg` | pass | `TypeOK` only: both initialisers over every small array and endpoints object and every map order, with a zero chain id never indexed by id. The hazards of this code (colliding keys, duplicate entries) are violations, shown by `MCChainConfigEth.cfg` and `MCChainConfigIdx.cfg`. |
| `wasm_db` | `MCWasmDatabase.cfg` | pass | `DeclaredTablesMigrated`: after a successful `Init`, every declared table exists in its schema, whatever the declaration order, duplicates and map order. |
| `upload` | `MCResource.cfg` | pass | `UnTarExtractsArchive`: with two uploads and an extraction writing into one directory write by write, an extraction that returns nil has made every directory entry and opened every regular entry. A path no upload wrote after `UnTar` opened it starts with the archive's last entry of that name. |
| `error_set` | `MCErrorSet.cfg` | pass | `FlattenKeepsPaths`: with keys listed at each `AddErr`, every `Flatten` result over sets nested three deep lists each leaf with its whole key path, and keeps doing so after later calls. |
| `registry_orphan` | `MCRegistry.cfg` | violation | `NoOrphanedInstance`: a second deploy that draws a taken id orphans a started instance. |
| `async_lost` | `MCAsyncBrokerLost.cfg` | violation | `EventuallyDelivered`: a failed `Enqueue` loses the response for good. |
| `config_whitelist_open` | `MCConfigOpen.cfg` | violation | `WhitelistFailsClosed`: a whitelist configured only with malformed entries admits every address. |
| `wasm_db_default` | `MCWasmDatabaseDefault.cfg` | violation | `DefaultSchemaExists`: a project that declares only a non-public schema has no `public` schema, which every SQL host call asks for. |
| `upload_wrap_nil` | `MCResourceWrap.cfg` | violation | `RejectedUploadFails`: an upload over the limit, or onto a full disk, returns nil. |

Each violation is a disagreement between the code and the spec, or a code
bug. The `findings` in `PROJECT.json` give the source line of each.

Further configurations in this directory reproduce other disagreements. The
hazards in `PROJECT.json` point to them.

| Config | Property | Counterexample |
|---|---|---|
| `MCDispatcherPub.cfg` | `PublisherMissReported` | an event from an unknown publisher returns with no error |
| `MCAsyncBrokerDup.cfg` | `AtMostOneSyntheticEvent` | redelivery after a crash dispatches an api result twice |
| `MCHostABICode.cfg` | `TransferFaultCode` | Read failures are not reported as `TransDataFromVMFailed` |
| `MCHostABIEffect.cfg` | `FailedCallHasNoEffect` | `ws_send_tx` and `ws_api_call` report failure after their effect |
| `MCHostABILog.cfg` | `LogContextBounded` | `ef.log` gains one `@src` pair per logged call |
| `MCChainConfigEth.cfg` | `EndpointPerChain` | keys "1" and "01" (or ids 2^32 apart) share a client; the map order picks the URL |
| `MCChainConfigIdx.cfg` | `ChainIndexesAgree` | duplicate names or ids make `Chains` and `ChainIDs` disagree |
| `MCWasmDatabaseTables.cfg` | `SchemaHasOwnTables` | a schema migrated later also gets the earlier schemas' tables |
| `MCResourceChunk.cfg` | `UploadedDataIsPrefix` | two uploads of two-byte parts interleave their writes; the last to return nil does not have its part at the start |
| `MCResourceTail.cfg` | `UploadedFileExact` | a shorter re-upload leaves the old file's tail (no `O_TRUNC`) |
| `MCErrorSetAlias.cfg` | `FlattenKeepsPaths` | a key path with spare capacity makes all sub-leaves share one slot |
| `MCConfig.cfg` | `TypeOK`, `WhitelistAdmitsConfigured` | passes: every well-formed configured address is admitted in either case |
| `MCRegistryLifecycle.cfg` | `LifecycleRefined` | passes on the registry alone, with two instances |

## Bounds and why they are enough

- **Dispatcher: 2 events, 2 strategies (one `ANY`, one typed), 1 instance,
  2 ids.**
  - Two events racing on one instance exercise the per-instance
    serialisation.
  - Two strategies give one event two handlers, one of which may find no
    instance.
  - Two ids let deploy, delete and redeploy interleave with the fan-out.
  - Headers take a rejected token (`OtherProject`), no publisher, a known
    and an unknown publisher key, so every early return of the prologue
    is explored (53k states).
  - A second instance makes the run exceed 15 minutes.
  - A second instance multiplies the registry's states about 100-fold, and it
    adds no case: collisions are the subject of the `registry_orphan` run.
- **Publisher run: 1 event, all token outcomes, three publisher ids** (none,
  known, unknown).
- **AsyncBroker: 2 calls, 2 projects, 2 types, `MaxRetry = 2`, `MaxFaults =
  1`.** The duplicate needs one crash and the loss needs one failed enqueue,
  so one fault suffices. Two calls show that one call's events never carry
  the other's project or type.
- **ChainConfig: 2 names, ids {0,1}, key numbers {1,5}, `IdWidth = 2`.**
  With these, "1"/"01" collide through Atoi, and 1/5 collide through the
  uint32 wrap (5 mod 4 = 1).
- **WasmDatabase: schemas {public, app}, 3 tables, up to 2 declarations.**
  This covers a duplicate name, the empty name, and two schemas migrated in
  either order with a failure at any point. `t1` has a UINT column, `t2` a
  NUMERIC and a TEXT column, and `t3` a column with no datatype. A panic
  can therefore come before or after another schema is migrated.
- **Resource: 2 requests on one path, parts of up to 2 bytes, limit 1, and an
  archive of up to 2 entries (two-byte regular entries, directories, other
  types) on the same name.**
  - There is an over-limit part, and a shorter part over a longer existing file.
  - Every interleaving of the requests' opens and single writes with the
    extraction's steps and writes is explored. With limit 1 only the
    extraction writes two bytes; `MCResourceChunk.cfg` raises the limit to
    2 to interleave two uploads' writes.
  - The archive covers a duplicate entry, a directory over a file, and a
    file over a directory.
  - The run has 2.1M states; 3-byte parts would multiply that.
- **ErrorSet: 3 sets, 2 errors per set, 4 `AddErr` calls, keys {k1,k2},
  1 `Flatten`.**
  - This allows nesting three deep, and a sub-set with two leaves under one
    path, which is what the aliasing needs.
  - Paths have one key, because each append grows a path by one.
- **HostABI: 2 rids, 1 key, 2 values, `MaxCalls = 2`.**
  - Each property is broken in at most two calls: a setter followed by a
    getter, or two logged calls.
  - All initial contents of the stores are enumerated, and so is every nil
    or non-nil context dependency.

## Fairness

- **Dispatcher.** Weak fairness applies to each event's steps and to each
  goroutine's steps. Go's scheduler runs every runnable goroutine
  eventually. A goroutine blocked on a full channel or a busy instance is
  not enabled, so fairness does not hide a deadlock.
- **AsyncBroker.** Weak fairness applies to processing and acknowledging
  each task. asynq's workers keep pulling tasks while the queue is
  non-empty.
- **Registry, HostABI, Config, ChainConfig, WasmDatabase, Resource and
  ErrorSet.** No fairness is assumed, and these runs check only safety. The
  refinement property is a safety property, because `Lifecycle!Spec` has no
  fairness.

Every configuration except the dispatcher's sets `CHECK_DEADLOCK FALSE`.
Startup code, a database's `Init`, uploads and error sets end when their
calls are done. In the
broker, the queue drains and the workers then sit idle. In HostABI, a guest
stops calling the host once its handler returns.

## Not modelled, and the plan

- **Seed's shared `math/rand` source** is a data race between instances. Its
  outcome is not visible in the model's state.
- **`readString`'s uint32-to-int32 length cast** depends on `rt.Read`, which
  is not in `src/`.
- **`GetEventType`** is not linked by `LinkABI`, so no guest can call it.
- **The router's HTTP handlers** are not in `src/`. A retried `api_call`
  re-running them is listed as a hazard only.

- **`SET SEARCH_PATH`** runs on `d.ep`, a connection pool, so the next
  statement may run on another connection. The pool is not in `src/`.
- **UnTar's path handling.** Entry names are single components under `dst`.
  `filepath.Join` cleans `../`, so an entry can write outside `dst`. This is
  listed as a hazard; a file tree of several levels would be needed to check it.
- **CheckMD5** only reads and hashes a file; it has no state of its own.
- **`ApiResultProcessor`'s `json.Unmarshal` failure** (archived with
  `SkipRetry`) is not a step. Every api_result task comes from
  `newApiResultTask`, which marshals an `apiResultPayload`, so the payload
  always decodes.
- **`Column.Build` and `Key.Build`** copy declaration fields into the SQL
  builder. `Column.Build` also rewrites an empty default to `''` through the
  shared pointer. No property tells these fields apart, so only the datatype
  switch they call is modelled.
- **`ErrorSet.ToErrorFields` and `KeyPath.String`** only format `Flatten`'s
  result. Leaves whose path does not start with a `Location` are left out of
  the fields.
- **The robot signing closure** hashes an empty buffer (spec open question
  (a)). It is pure hashing, with no state to model.

Planned next:

1. `UnTar` names of several components, with `filepath.Join` cleaning as a
   RECURSIVE operator.
2. A second instance for `Dispatcher`. Symmetry on `Events` is unsound
   with the liveness property the run checks, so this needs a separate
   safety-only configuration.
