----------------------------- MODULE Invocation -----------------------------
(***************************************************************************)
(* What stands between the command line of `capture` and its first write:  *)
(* commands::capture::capture and plan::preflight, with the checks each    *)
(* step makes, in the order they are made, and the exit code a refusal     *)
(* ends in.                                                                *)
(*                                                                         *)
(* One invocation is one behaviour.  `args` is what the operator asked     *)
(* for, `world` what the machine and the node hold.                        *)
(***************************************************************************)
EXTENDS Integers, Sequences, FiniteSetsExt

CONSTANTS
  Cases,       \* invocations: records [args, world]
  Networks,    \* Network
  Testnet,     \* the one that is a test network
  Schedule,    \* the upgrade table compiled in, per network: branch -> height
  Branches,    \* how many upgrades there are; branches are numbered in their order
  Ironwood,    \* NU6_3_BRANCH_ID
  MaxHeight,   \* u32::MAX
  MaxBlocks    \* MAX_INTERVAL_BLOCKS

Heights == 0 .. MaxHeight
Cookies == {"absent", "unreadable", "malformed", "good"}

\* `asserted` is 0 when --expected-activation-height is not given.
Arguments ==
  [from : Heights, to : Heights, distance : Heights, asserted : Heights,
   network : Networks, user : BOOLEAN, password : BOOLEAN,
   cookie : Cookies \cup {"none"}, url : {"loopback", "remote", "not http"},
   rate : Nat, archive : BOOLEAN, overwrite : BOOLEAN]

Worlds ==
  [defaultCookie : Cookies, archiveStands : BOOLEAN, chain : STRING, testnet : BOOLEAN,
   upgrades : UNION {[known -> Heights] : known \in SUBSET (1 .. Branches)},
   tip : Heights, emptyPools : BOOLEAN,
   record : {"usable", "undecodable", "without balances", "of another height"}]

ASSUME CasesAssumption == Cases \subseteq [args : Arguments, world : Worlds]

\* The compiled table knows every upgrade up to Ironwood, in order.
ASSUME ScheduleAssumption ==
  /\ {MaxHeight, MaxBlocks, Branches} \subseteq Nat
  /\ Ironwood \in 1 .. Branches
  /\ \A n \in Networks :
       /\ DOMAIN Schedule[n] \in SUBSET (1 .. Branches)
       /\ 1 .. Ironwood \subseteq DOMAIN Schedule[n]
       /\ \A b \in DOMAIN Schedule[n] : Schedule[n][b] \in Heights
       /\ \A b, c \in DOMAIN Schedule[n] : b <= c => Schedule[n][b] <= Schedule[n][c]

VARIABLES
  args, world,
  pc,          \* the step under way
  auth,        \* where the credentials came from
  warned,      \* whether the operator was told that they travel in the clear
  requests,    \* the methods asked of the node, in order
  error,       \* what ended the invocation
  advisories   \* the identifiers recorded about the capture

vars == <<args, world, pc, auth, warned, requests, error, advisories>>

NoError == "none"

\* ReconcileError::stable_id, by the exit code each ends in.
OperatorErrors == {"invalid_input", "unknown_network", "invalid_interval"}
EvidenceErrors == {"evidence_hash_mismatch", "evidence_file_missing",
                   "evidence_inconsistent", "archive_rejected"}
DecodingErrors == {"unsupported_transaction_version", "transaction_parse_failure"}
ContinuityErrors == {"block_continuity_failure", "missing_block"}
CaptureErrors == {"rpc_request_failed", "capture_incomplete"}
ContextErrors == {"network_mismatch", "branch_id_mismatch", "activation_mismatch"}
InternalErrors == {"arithmetic_overflow", "value_out_of_bounds",
                   "pool_balance_mismatch", "internal_error"}

ExitCode(e) ==
  CASE e = NoError -> "Success"
    [] e \in OperatorErrors -> "InvalidInput"
    [] e = "manifest_invalid" -> "ManifestInvalid"
    [] e \in EvidenceErrors -> "EvidenceUnavailable"
    [] e \in DecodingErrors -> "UnsupportedTransaction"
    [] e \in ContinuityErrors -> "BlockContinuity"
    [] e \in CaptureErrors -> "CaptureIncomplete"
    [] e \in ContextErrors -> "ContextMismatch"
    [] e \in InternalErrors -> "InternalError"
    [] e = "filesystem_error" -> "FilesystemError"

\* The first of the checks that fails, in the order given.
FirstError(checks) ==
  LET failing == {i \in DOMAIN checks : checks[i].fails}
  IN  IF failing = {} THEN NoError ELSE checks[Min(failing)].error

Check(fails, e) == [fails |-> fails, error |-> e]

-----------------------------------------------------------------------------
\* The upgrade in force at a height, by a table of activation heights.
BranchAt(table, h) == Max({0} \cup {b \in DOMAIN table : table[b] <= h})

Activation == Schedule[args.network][Ironwood]
IsPostActivation(h) == h >= Activation

Anchor == args.from - 1
BlockCount == args.to - args.from + 1

IntervalError ==
  FirstError(<<Check(args.to < args.from, "invalid_interval"),
               Check(args.from = 0, "invalid_interval"),
               Check(BlockCount > MaxBlocks, "invalid_interval")>>)

\* Authentication::resolve.  A cookie is "good", "malformed", "unreadable" or
\* "absent"; one that the operator names must be good, the default one only if
\* it is there.
CookieError(cookie) ==
  FirstError(<<Check(cookie \in {"absent", "unreadable"}, "filesystem_error"),
               Check(cookie = "malformed", "invalid_input")>>)

CookieNamed == args.cookie # "none"
Source ==
  CASE CookieNamed -> "named cookie"
    [] ~ CookieNamed /\ args.user -> "password"
    [] ~ CookieNamed /\ ~ args.user ->
         IF world.defaultCookie = "absent" THEN "anonymous" ELSE "default cookie"

\* Slip: half a pair of credentials is completed by an empty half.
CredentialErrorIfBoth ==
  CASE CookieNamed /\ args.password -> "invalid_input"
    [] CookieNamed /\ ~ args.password -> CookieError(args.cookie)
    [] ~ CookieNamed /\ ~ args.user /\ ~ args.password
         /\ world.defaultCookie # "absent" -> CookieError(world.defaultCookie)
    [] OTHER -> NoError

CredentialError ==
  CASE CookieNamed /\ args.password -> "invalid_input"
    [] CookieNamed /\ ~ args.password -> CookieError(args.cookie)
    [] ~ CookieNamed /\ args.user # args.password -> "invalid_input"
    [] ~ CookieNamed /\ ~ args.user /\ ~ args.password
         /\ world.defaultCookie # "absent" -> CookieError(world.defaultCookie)
    [] OTHER -> NoError

\* HttpTransport::new: the endpoint, then the rate.
EndpointError ==
  FirstError(<<Check(args.url = "not http", "invalid_input"),
               Check(args.rate = 0, "invalid_input")>>)

OffHost == auth # "anonymous" /\ args.url # "loopback"

ArchiveError ==
  FirstError(<<Check(args.archive /\ world.archiveStands /\ ~ args.overwrite,
                     "invalid_input")>>)

-----------------------------------------------------------------------------
\* guard.rs: identity, schedule, position.

NetworkError ==
  FirstError(<<Check(world.chain # args.network, "network_mismatch"),
               Check(world.testnet # (args.network = Testnet), "network_mismatch")>>)

\* Slip: that the node knows the branch is taken for agreement.
ActivationErrorIfUnknown ==
  FirstError(<<Check(args.asserted \notin {0, Activation}, "activation_mismatch"),
               Check(DOMAIN world.upgrades = {}, "capture_incomplete"),
               Check(Ironwood \notin DOMAIN world.upgrades, "activation_mismatch")>>)

\* Slip: a node without an upgrade table is taken for one of another schedule.
ActivationErrorIfSilent ==
  FirstError(<<Check(args.asserted \notin {0, Activation}, "activation_mismatch"),
               Check(Ironwood \notin DOMAIN world.upgrades, "activation_mismatch"),
               Check(/\ Ironwood \in DOMAIN world.upgrades
                     /\ world.upgrades[Ironwood] # Activation, "activation_mismatch")>>)

ActivationError ==
  FirstError(<<Check(args.asserted \notin {0, Activation}, "activation_mismatch"),
               Check(DOMAIN world.upgrades = {}, "capture_incomplete"),
               Check(Ironwood \notin DOMAIN world.upgrades, "activation_mismatch"),
               Check(/\ Ironwood \in DOMAIN world.upgrades
                     /\ world.upgrades[Ironwood] # Activation, "activation_mismatch")>>)

TipDistanceError ==
  FirstError(<<Check(args.to + args.distance > MaxHeight, "arithmetic_overflow"),
               Check(world.tip < args.to + args.distance, "capture_incomplete")>>)

ContextError ==
  FirstError([i \in 1 .. 3 |->
    LET e == <<NetworkError, ActivationError, TipDistanceError>>[i]
    IN  Check(e # NoError, e)])

\* parse_pool_state on what getblock returns for the anchor.
RecordError == FirstError(<<Check(world.record # "usable", "capture_incomplete")>>)

\* Slip: the claim about the interval is made from its start.
StartAdvisories ==
  {a \in {"interval_precedes_activation"} : ~ IsPostActivation(args.from)}

IntervalAdvisories ==
  {a \in {"interval_precedes_activation"} : ~ IsPostActivation(args.to)}

\* One step that reads nothing from the node.
Examine(step, next, e) ==
  /\ pc = step
  /\ error' = e
  /\ pc' = IF e = NoError THEN next ELSE "done"

\* One request: it fails, or its answer is examined.
Request(step, next, method, e) ==
  /\ Examine(step, next, e) \/ Examine(step, next, "rpc_request_failed")
  /\ requests' = Append(requests, method)
  /\ UNCHANGED <<args, world, auth, warned>>

Init ==
  /\ \E c \in Cases : args = c.args /\ world = c.world
  /\ pc = "request"
  /\ auth = "unresolved"
  /\ warned = FALSE
  /\ requests = <<>>
  /\ error = NoError
  /\ advisories = {}

BuildRequest ==
  /\ Examine("request", "credentials", IntervalError)
  /\ UNCHANGED <<args, world, auth, warned, requests, advisories>>

ResolveCredentials ==
  /\ Examine("credentials", "transport", CredentialError)
  /\ auth' = IF CredentialError = NoError THEN Source ELSE auth
  /\ UNCHANGED <<args, world, warned, requests, advisories>>

\* Slip: the transport is built, and the node reached, before the archive is
\* looked for.
OpenTransportOnly ==
  /\ Examine("transport", "getinfo", EndpointError)
  /\ warned' = (EndpointError = NoError /\ OffHost)
  /\ UNCHANGED <<args, world, auth, requests, advisories>>

OpenTransport ==
  /\ Examine("transport", "archive", EndpointError)
  /\ warned' = (EndpointError = NoError /\ OffHost)
  /\ UNCHANGED <<args, world, auth, requests, advisories>>

RefuseArchive ==
  /\ Examine("archive", "getinfo", ArchiveError)
  /\ UNCHANGED <<args, world, auth, warned, requests, advisories>>

GetInfo ==
  /\ Request("getinfo", "getblockchaininfo", "getinfo", NoError)
  /\ UNCHANGED advisories

GetBlockchainInfo ==
  /\ Request("getblockchaininfo", "getblock", "getblockchaininfo", ContextError)
  /\ UNCHANGED advisories

ProbeAnchor ==
  /\ Request("getblock", "ready", "getblock", RecordError)
  /\ advisories' = IF error' = NoError
                     THEN IntervalAdvisories
                            \cup {a \in {"pool_balance_is_zero"} : world.emptyPools}
                     ELSE {}

Next ==
  \/ BuildRequest \/ ResolveCredentials \/ OpenTransport \/ RefuseArchive
  \/ GetInfo \/ GetBlockchainInfo \/ ProbeAnchor

\* An invocation ends refused, or with the output directory about to be opened.
Spec == Init /\ [][Next]_vars

-----------------------------------------------------------------------------
\* What is wrong with an invocation whatever the node says.
HasInterval == args.from \in 1 .. args.to /\ Cardinality(args.from .. args.to) <= MaxBlocks
HasCredentials ==
  \/ CookieNamed /\ args.cookie = "good" /\ ~ args.password
  \/ ~ CookieNamed /\ args.user /\ args.password
  \/ ~ CookieNamed /\ ~ args.user /\ ~ args.password
       /\ world.defaultCookie \in {"absent", "good"}
HasEndpoint == args.url # "not http" /\ args.rate > 0
ReplacesNothingUnasked == args.archive /\ world.archiveStands => args.overwrite
WellAsked == HasInterval /\ HasCredentials /\ HasEndpoint /\ ReplacesNothingUnasked

\* A mistake in the command line costs no request: by the time the node is
\* asked anything, the interval, the credentials, the endpoint and the archive
\* path have all been found usable, and a refusal before that blames the operator
\* or the file system (src/commands/capture.rs:23).
MistakesCostNoRequest ==
  /\ requests # <<>> => WellAsked
  /\ requests = <<>> /\ pc = "done" =>
       ~ WellAsked /\ ExitCode(error) \in {"InvalidInput", "FilesystemError"}

\* The request goes out with the credential the operator named, never with the
\* default cookie and never without one in its place; and none leaves the
\* machine in the clear unannounced (src/rpc/auth.rs:75, client.rs:142).
CredentialsAsNamed ==
  requests # <<>> =>
    /\ CookieNamed => auth = "named cookie" /\ args.cookie = "good"
    /\ args.user /\ ~ CookieNamed => auth = "password" /\ args.password
    /\ auth # "anonymous" /\ args.url = "remote" => warned

\* The node is one the request can be served by.
SameNetwork == world.chain = args.network /\ world.testnet = (args.network = Testnet)
SameSchedule ==
  /\ Ironwood \in DOMAIN world.upgrades
  /\ world.upgrades[Ironwood] = Schedule[args.network][Ironwood]
FarEnough == args.to + args.distance \in 0 .. MaxHeight /\ world.tip - args.to >= args.distance

\* A refusal says whose fault it is, whatever else is wrong: a context mismatch
\* only when the node, or the height the operator asserted, contradicts this build;
\* an overflow only when the end height and the distance do not fit; an incomplete
\* capture only when a request failed or the node has not enough to serve it, a
\* node that publishes no upgrade table included (src/cli/exit.rs:49, guard.rs:98).
ExitBlamesRight ==
  pc = "done" /\ requests # <<>> =>
    /\ ExitCode(error) = "ContextMismatch" =>
         \/ ~ SameNetwork
         \/ ~ SameSchedule /\ DOMAIN world.upgrades # {}
         \/ args.asserted \notin {0, Activation}
    /\ ExitCode(error) = "InternalError" => args.to + args.distance > MaxHeight
    /\ ExitCode(error) = "CaptureIncomplete" =>
         \/ error = "rpc_request_failed"
         \/ DOMAIN world.upgrades = {}
         \/ ~ FarEnough
         \/ world.record # "usable"

\* The node knows the same upgrades up to Ironwood, and none after it that takes
\* effect inside the interval.
SameUpgrades ==
  \A h \in args.from .. args.to :
    BranchAt(world.upgrades, h) <= Ironwood
      /\ \A b \in DOMAIN Schedule[args.network] \ {Ironwood} :
           b \in DOMAIN world.upgrades /\ world.upgrades[b] = Schedule[args.network][b]

\* What is captured can be verified offline: it is settled, of the network asked
\* for, and the node puts in force, at every
\* height of the interval, the branch that the compiled table expects of the
\* transactions there (src/capture/guard.rs:82, src/parse/block.rs:104).  The
\* guard compares Ironwood alone, so the other upgrades have to agree.
CapturedIsDecodable ==
  pc = "ready" /\ SameUpgrades =>
    /\ SameNetwork /\ FarEnough
    /\ \A h \in args.from .. args.to :
         BranchAt(world.upgrades, h) = BranchAt(Schedule[args.network], h)

\* The advisory that no Ironwood value can exist in the interval is there exactly
\* when it is true (src/capture/guard.rs:246).
AdvisoryIsTrue ==
  pc = "ready" =>
    ("interval_precedes_activation" \in advisories <=>
       \A h \in args.from .. args.to :
         BranchAt(Schedule[args.network], h) < Ironwood)
=============================================================================
