---------------------------- MODULE ChainConfig ----------------------------
(***************************************************************************)
(* The two chain tables built at startup from JSON in the environment     *)
(* (src/pkg/types/types.go):                                              *)
(*   ChainConfig.Init      a JSON array of chains, indexed by name         *)
(*                         (Chains) and by non-zero chain id (ChainIDs);   *)
(*   ETHClientConfig.Init  a JSON object from chain id to endpoint URL,    *)
(*                         parsed into Clients keyed by uint32(Atoi(key)). *)
(*                                                                         *)
(* gjson's Map() is a Go map, so the keys of the endpoints object are      *)
(* visited in an order the runtime picks anew: Init takes any order.      *)
(* A JSON key is a number written canonically ("1"), with leading zeros  *)
(* ("01") or a non-number ("x"); Atoi reads the first two alike.  The     *)
(* uint32 conversion keeps the low IdWidth bits (32 in the code).         *)
(***************************************************************************)
EXTENDS Integers, Sequences, SequencesExt, FiniteSets

CONSTANTS
    Names,      \* enums.ChainName values
    ChainIds,   \* chain ids in the configured array, 0 for "absent"
    KeyNums,    \* numbers written as keys of the endpoints object
    Urls,       \* endpoint URLs
    IdWidth,    \* width of uint32, scaled down
    MaxChains,  \* bound on the length of the configured array
    NoChain, NoUrl,
    Malformed,  \* a Configs array json.Unmarshal rejects
    Invalid     \* Endpoints text gjson.Valid rejects

ASSUME 0 \in ChainIds /\ IdWidth \in Nat

Chain == [id : ChainIds, name : Names]
JsonKey == [n : KeyNums, form : {"canonical", "padded"}] \cup {[n |-> 0, form |-> "alpha"]}
Uint32(n) == n % (2 ^ IdWidth)
ClientIds == 0..(2 ^ IdWidth - 1)

(* The environment's values: a well-formed array or one json.Unmarshal   *)
(* rejects; an endpoints object with up to two keys, or text gjson finds  *)
(* invalid.                                                                 *)
ChainsJson == {Malformed} \cup UNION {[1..n -> Chain] : n \in 0..MaxChains}
EndpointsJson == {Invalid} \cup
    UNION {[K -> Urls] : K \in {K \in SUBSET JsonKey : Cardinality(K) <= 2}}

VARIABLES
    configs,    \* ChainConfig.Configs
    chains,     \* ChainConfig.Chains: Names -> Chain
    chainIDs,   \* ChainConfig.ChainIDs: non-zero ids -> Chain
    endpoints,  \* ETHClientConfig.Endpoints
    clients,    \* ETHClientConfig.Clients: uint32 ids -> URL
    phase       \* per table: "env", "ready" or "panicked"

vars == <<configs, chains, chainIDs, endpoints, clients, phase>>

EmptyChains == [n \in Names |-> NoChain]
EmptyIds == [i \in ChainIds \ {0} |-> NoChain]
EmptyClients == [i \in ClientIds |-> NoUrl]

TypeOK ==
    /\ configs \in ChainsJson /\ endpoints \in EndpointsJson
    /\ chains \in [Names -> Chain \cup {NoChain}]
    /\ chainIDs \in [ChainIds \ {0} -> Chain \cup {NoChain}]
    /\ clients \in [ClientIds -> Urls \cup {NoUrl}]
    /\ phase \in [{"chain", "eth"} -> {"env", "ready", "panicked"}]

Init ==
    /\ configs \in ChainsJson /\ endpoints \in EndpointsJson
    /\ chains = EmptyChains /\ chainIDs = EmptyIds /\ clients = EmptyClients
    /\ phase = [t \in {"chain", "eth"} |-> "env"]

(* Mutant of IndexChain: the ChainID != 0 guard dropped.                  *)
IndexChainZero(acc, c) ==
    [names |-> [acc.names EXCEPT ![c.name] = c],
     ids   |-> (c.id :> c) @@ acc.ids]

(* One iteration of ChainConfig.Init's loop: cm[c.Name] = c, and          *)
(* cidm[c.ChainID] = c for a non-zero id.                                  *)
IndexChain(acc, c) ==
    [names |-> [acc.names EXCEPT ![c.name] = c],
     ids   |-> IF c.id # 0 THEN [acc.ids EXCEPT ![c.id] = c] ELSE acc.ids]

(* ChainConfig.Init: json.Unmarshal panics on a malformed array.           *)
ChainConfigInit ==
    /\ phase["chain"] = "env"
    /\ \/ /\ configs = Malformed
          /\ phase' = [phase EXCEPT !["chain"] = "panicked"]
          /\ UNCHANGED <<chains, chainIDs>>
       \/ /\ configs # Malformed
          /\ LET idx == FoldLeft(IndexChain, [names |-> EmptyChains, ids |-> EmptyIds],
                                 configs)
             IN chains' = idx.names /\ chainIDs' = idx.ids
          /\ phase' = [phase EXCEPT !["chain"] = "ready"]
    /\ UNCHANGED <<configs, endpoints, clients>>

(* One iteration of ETHClientConfig.Init's loop: a key Atoi rejects is    *)
(* skipped, otherwise Clients[uint32(chainID)] = url.                     *)
AddClient(m, k) ==
    IF k.form = "alpha" THEN m
    ELSE [m EXCEPT ![Uint32(k.n)] = endpoints[k]]

(* ETHClientConfig.Init: Clients is reset, invalid JSON leaves it empty,  *)
(* and the keys are visited in the map's order.                            *)
ETHClientInit ==
    /\ phase["eth"] = "env"
    /\ \/ endpoints = Invalid /\ clients' = EmptyClients
       \/ /\ endpoints # Invalid
          /\ \E order \in SetToSeqs(DOMAIN endpoints) :
                clients' = FoldLeft(AddClient, EmptyClients, order)
    /\ phase' = [phase EXCEPT !["eth"] = "ready"]
    /\ UNCHANGED <<configs, chains, chainIDs, endpoints>>

Next == ChainConfigInit \/ ETHClientInit

Spec == Init /\ [][Next]_vars

-----------------------------------------------------------------------------
(* The client id a numeric key is stored under.                            *)
KeyOf(k) == Uint32(k.n)

(* ETHClientConfig.Init gives every numeric key of the endpoints object   *)
(* its own URL: Clients[id] is the URL configured for id, and no other   *)
(* key's.  Two keys that Atoi reads as the same number ("1" and "01"),  *)
(* or that uint32 wraps onto each other, make Clients keep whichever the  *)
(* map visited last.                                                       *)
EndpointPerChain ==
    phase["eth"] = "ready" /\ endpoints # Invalid =>
        \A k \in DOMAIN endpoints :
            k.form # "alpha" => clients[KeyOf(k)] = endpoints[k]

(* Once ChainConfig.Init has run, the two indexes describe the same       *)
(* chains: the chain found by a non-zero id is the chain found by its     *)
(* name, and a chain found by name with a non-zero id is found by it.     *)
ChainIndexesAgree ==
    phase["chain"] = "ready" =>
        /\ \A i \in ChainIds \ {0} :
              chainIDs[i] # NoChain => chains[chainIDs[i].name] = chainIDs[i]
        /\ \A n \in Names :
              chains[n] # NoChain /\ chains[n].id # 0 => chainIDs[chains[n].id] = chains[n]
=============================================================================
