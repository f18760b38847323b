------------------------------- MODULE Config -------------------------------
(***************************************************************************)
(* The configuration types of src/pkg/types/types.go that are initialised *)
(* once at startup and read afterwards: the address whitelist             *)
(* (EthAddressWhiteList.Init/Validate), the upload limits, the file      *)
(* system mode and the wasm DB pool (SetDefault), and the robot           *)
(* notifier's signing function (RobotNotifierConfig.Init).                *)
(*                                                                         *)
(* The configuration framework runs each initialiser once, in an order   *)
(* the model leaves open; Validate may be called at any time after.       *)
(* An address is its hex digits (base) and whether it is written in upper *)
(* case; strfmt.EthAddressValidator, which is not in the sources, accepts *)
(* an address by its digits whatever the case.                            *)
(***************************************************************************)
EXTENDS Integers, Sequences, SequencesExt

CONSTANTS
    HexAddrs,   \* well-formed addresses (digits only)
    JunkAddrs,  \* strings EthAddressValidator rejects
    MaxList     \* bound on the length of a configured whitelist

Address == [base : HexAddrs \cup JunkAddrs, upper : BOOLEAN]
Lower(a) == [a EXCEPT !.upper = FALSE]
Upper(a) == [a EXCEPT !.upper = TRUE]
ValidAddr(a) == a.base \in HexAddrs

(* enums.FileSystemMode: LOCAL = 1, S3 = 2.                                *)
FsLocal == 1
FsS3 == 2
DefaultFilesizeLimit == 1024 * 1024
DefaultDiskReserve == 20 * 1024 * 1024
DefaultMaxConnection == 2

VARIABLES
    configured, \* history: the whitelist as read from the environment
    whitelist,  \* EthAddressWhiteList
    upload,     \* UploadConfig: [limit, reserve]
    fsType,     \* FileSystem.Type
    maxConn,    \* WasmDBConfig.MaxConnection
    robot,      \* RobotNotifierConfig: [secret, signFn]
    done        \* the initialisers that have run

vars == <<configured, whitelist, upload, fsType, maxConn, robot, done>>

Initialisers == {"WhiteList", "Upload", "FileSystem", "WasmDB", "Robot"}

TypeOK ==
    /\ configured \in Seq(Address) /\ whitelist \in Seq(Address)
    /\ upload \in [limit : Int, reserve : Int]
    /\ fsType \in Int /\ maxConn \in Int
    /\ robot \in [secret : {"", "secret"}, signFn : BOOLEAN]
    /\ done \subseteq Initialisers
    /\ "FileSystem" \in done => fsType \in {FsLocal, FsS3}

(* The values the environment may give; 0 is "unset".                     *)
Init ==
    /\ configured \in UNION {[1..n -> Address] : n \in 0..MaxList}
    /\ whitelist = configured
    /\ upload \in [limit : {0, -1, 4096}, reserve : {0}]
    /\ fsType \in {-1, 0, FsLocal, FsS3, FsS3 + 1}
    /\ maxConn \in {0, 1}
    /\ robot \in [secret : {"", "secret"}, signFn : {FALSE}]
    /\ done = {}

Once(name) == name \notin done /\ done' = done \cup {name}

(* EthAddressWhiteList.Init: keep the valid entries, lower-cased.          *)
WhiteListInit ==
    /\ Once("WhiteList")
    /\ whitelist' = [i \in 1..Len(SelectSeq(whitelist, ValidAddr)) |->
                        Lower(SelectSeq(whitelist, ValidAddr)[i])]
    /\ UNCHANGED <<configured, upload, fsType, maxConn, robot>>

(* EthAddressWhiteList.Validate: an empty (or nil) list admits everyone;  *)
(* otherwise the lower-cased address must be in it.                        *)
Validate(list, a) ==
    Len(list) = 0 \/ \E i \in 1..Len(list) : list[i] = Lower(a)

(* UploadConfig.SetDefault: only a zero field takes its default.           *)
UploadSetDefault ==
    /\ Once("Upload")
    /\ upload' = [limit |-> IF upload.limit = 0 THEN DefaultFilesizeLimit ELSE upload.limit,
                  reserve |-> IF upload.reserve = 0 THEN DefaultDiskReserve ELSE upload.reserve]
    /\ UNCHANGED <<configured, whitelist, fsType, maxConn, robot>>

(* FileSystem.SetDefault: an out-of-range mode becomes LOCAL.              *)
FileSystemSetDefault ==
    /\ Once("FileSystem")
    /\ fsType' = IF fsType > FsS3 \/ fsType <= 0 THEN FsLocal ELSE fsType
    /\ UNCHANGED <<configured, whitelist, upload, maxConn, robot>>

(* WasmDBConfig.SetDefault.                                                *)
WasmDBSetDefault ==
    /\ Once("WasmDB")
    /\ maxConn' = IF maxConn = 0 THEN DefaultMaxConnection ELSE maxConn
    /\ UNCHANGED <<configured, whitelist, upload, fsType, robot>>

(* RobotNotifierConfig.Init: a signing function exists iff a secret is    *)
(* configured.                                                             *)
RobotInit ==
    /\ Once("Robot")
    /\ robot' = [robot EXCEPT !.signFn = (robot.secret # "")]
    /\ UNCHANGED <<configured, whitelist, upload, fsType, maxConn>>

Next ==
    \/ WhiteListInit \/ UploadSetDefault \/ FileSystemSetDefault
    \/ WasmDBSetDefault \/ RobotInit

Spec == Init /\ [][Next]_vars

-----------------------------------------------------------------------------
(* Every well-formed entry of the configured whitelist, written in either *)
(* case, is admitted by Validate once Init has run: Init lower-cases the  *)
(* list and Validate lower-cases the address, and both are needed.        *)
WhitelistAdmitsConfigured ==
    "WhiteList" \in done =>
        \A i \in 1..Len(configured) :
            ValidAddr(configured[i]) =>
                /\ Validate(whitelist, configured[i])
                /\ Validate(whitelist, Upper(configured[i]))

(* A whitelist that was configured with entries fails closed: once Init   *)
(* has run, Validate admits only addresses that were configured.  Init    *)
(* drops the malformed entries, and Validate reads an empty list as       *)
(* "admit everyone".                                                       *)
WhitelistFailsClosed ==
    "WhiteList" \in done /\ Len(configured) > 0 =>
        \A a \in Address :
            Validate(whitelist, a) =>
                \E i \in 1..Len(configured) : Lower(configured[i]) = Lower(a)
=============================================================================
