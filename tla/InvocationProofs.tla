-------------------------- MODULE InvocationProofs --------------------------
(***************************************************************************)
(* `capture` before its first write, for every invocation, every schedule  *)
(* and every bound: what has been established when the node is asked, what *)
(* a refusal says, and what the accepted interval promises.                *)
(***************************************************************************)
EXTENDS Invocation, Folding

\* The steps at which the node is asked, and what comes after.
Asking == {"getinfo", "getblockchaininfo", "getblock", "ready"}
BeforeAsking == {"request", "credentials", "transport", "archive"}

TypeInv ==
  /\ args \in Arguments /\ world \in Worlds
  /\ pc \in BeforeAsking \cup Asking \cup {"done"}

\* What the checks passed so far have established.
PassedInv ==
  /\ pc \in BeforeAsking => requests = <<>>
  /\ pc \in {"credentials", "transport", "archive"} => HasInterval
  /\ pc \in {"transport", "archive"} => HasCredentials /\ auth = Source
  /\ pc = "archive" => HasEndpoint /\ warned = OffHost
  /\ pc \in Asking \/ requests # <<>> =>
       WellAsked /\ auth = Source /\ warned = OffHost

\* What the answers of the node have established.
ServedInv ==
  /\ pc \in {"getblock", "ready"} => SameNetwork /\ SameSchedule /\ FarEnough
  /\ pc = "ready" =>
       ("interval_precedes_activation" \in advisories <=> ~ IsPostActivation(args.to))

Inv == TypeInv /\ PassedInv /\ ServedInv /\ MistakesCostNoRequest /\ ExitBlamesRight

-----------------------------------------------------------------------------
LEMMA LeastIs ==
  ASSUME NEW S \in SUBSET Int, NEW i \in S, \A j \in S : i <= j
  PROVE Min(S) = i
<1>1. \A x, y \in S : (\A j \in S : x <= j) /\ (\A j \in S : y <= j) => x = y
  OBVIOUS
<1> QED BY <1>1 DEF Min

\* The first failing check is the one reported.
LEMMA FirstFails ==
  ASSUME NEW checks, DOMAIN checks \in SUBSET Int, NEW i \in DOMAIN checks,
         checks[i].fails,
         \A j \in DOMAIN checks : j < i => ~ checks[j].fails
  PROVE FirstError(checks) = checks[i].error
<1> DEFINE failing == {j \in DOMAIN checks : checks[j].fails}
<1>1. i \in failing /\ failing \in SUBSET Int
  OBVIOUS
<1>2. \A j \in failing : i <= j
  OBVIOUS
<1>3. Min(failing) = i
  <2> HIDE DEF failing
  <2> QED BY <1>1, <1>2, LeastIs
<1> QED BY <1>1, <1>3 DEF FirstError

LEMMA NoneFails ==
  ASSUME NEW checks, \A i \in DOMAIN checks : ~ checks[i].fails
  PROVE FirstError(checks) = NoError
BY DEF FirstError

\* Up to four checks, one after the other.
LEMMA FourChecks ==
  ASSUME NEW n \in 1 .. 4, NEW checks, DOMAIN checks = 1 .. n
  PROVE FirstError(checks) =
          IF checks[1].fails THEN checks[1].error
          ELSE IF n >= 2 /\ checks[2].fails THEN checks[2].error
          ELSE IF n >= 3 /\ checks[3].fails THEN checks[3].error
          ELSE IF n >= 4 /\ checks[4].fails THEN checks[4].error ELSE NoError
<1>0. DOMAIN checks \in SUBSET Int
  OBVIOUS
<1>1. CASE checks[1].fails
  <2>1. 1 \in DOMAIN checks /\ \A j \in DOMAIN checks : j < 1 => ~ checks[j].fails
    OBVIOUS
  <2> QED BY <1>0, <1>1, <2>1, FirstFails
<1>2. CASE ~ checks[1].fails /\ n >= 2 /\ checks[2].fails
  <2>1. 2 \in DOMAIN checks /\ \A j \in DOMAIN checks : j < 2 => j = 1
    BY <1>2
  <2> QED BY <1>0, <1>2, <2>1, FirstFails
<1>3. CASE ~ checks[1].fails /\ ~ checks[2].fails /\ n >= 3 /\ checks[3].fails
  <2>1. 3 \in DOMAIN checks /\ \A j \in DOMAIN checks : j < 3 => j = 1 \/ j = 2
    BY <1>3
  <2> QED BY <1>0, <1>3, <2>1, FirstFails
<1>4. CASE ~ checks[1].fails /\ ~ checks[2].fails /\ ~ checks[3].fails
             /\ n >= 4 /\ checks[4].fails
  <2>1. 4 \in DOMAIN checks /\ \A j \in DOMAIN checks : j < 4 => j = 1 \/ j = 2 \/ j = 3
    BY <1>4
  <2> QED BY <1>0, <1>4, <2>1, FirstFails
<1>5. CASE ~ checks[1].fails /\ ~ (n >= 2 /\ checks[2].fails)
             /\ ~ (n >= 3 /\ checks[3].fails) /\ ~ (n >= 4 /\ checks[4].fails)
  <2>1. \A j \in DOMAIN checks : j = 1 \/ (j = 2 /\ n >= 2) \/ (j = 3 /\ n >= 3) \/ (j = 4 /\ n >= 4)
    OBVIOUS
  <2>2. \A j \in DOMAIN checks : ~ checks[j].fails
    BY <1>5, <2>1
  <2>3. FirstError(checks) = NoError
    BY <2>2, NoneFails
  <2> QED BY <1>5, <2>3
<1> QED BY <1>1, <1>2, <1>3, <1>4, <1>5

-----------------------------------------------------------------------------
\* What each group of checks establishes, and what its refusal is called.

LEMMA IntervalChecked ==
  ASSUME TypeInv
  PROVE /\ IntervalError \in {NoError, "invalid_interval"}
        /\ IntervalError = NoError <=> HasInterval
<1> DEFINE c == <<Check(args.to < args.from, "invalid_interval"),
                  Check(args.from = 0, "invalid_interval"),
                  Check(BlockCount > MaxBlocks, "invalid_interval")>>
<1>1. args.from \in Nat /\ args.to \in Nat /\ MaxBlocks \in Nat
  <2>1. args.from \in Heights /\ args.to \in Heights
    BY DEF TypeInv, Arguments
  <2> QED BY <2>1, ScheduleAssumption DEF Heights
<1>2. /\ c[1].fails <=> args.to < args.from
      /\ c[2].fails <=> args.from = 0
      /\ c[3].fails <=> args.to - args.from + 1 > MaxBlocks
      /\ c[1].error = "invalid_interval" /\ c[2].error = "invalid_interval"
      /\ c[3].error = "invalid_interval"
  BY DEF Check, BlockCount
<1>3. IntervalError = IF c[1].fails \/ c[2].fails \/ c[3].fails
                        THEN "invalid_interval" ELSE NoError
  <2>1. DOMAIN c = 1 .. 3 /\ IntervalError = FirstError(c)
    BY DEF IntervalError
  <2> HIDE DEF c
  <2> QED BY <1>2, <2>1, FourChecks
<1>4. Cardinality(args.from .. args.to) =
        IF args.from > args.to THEN 0 ELSE args.to - args.from + 1
  <2> DEFINE a == args.from
             b == args.to
  <2>1. a \in Int /\ b \in Int
    BY <1>1
  <2> HIDE DEF a, b
  <2>2. Cardinality(a .. b) = IF a > b THEN 0 ELSE b - a + 1
    BY <2>1, FS_Interval
  <2> QED BY <2>2 DEF a, b
<1> HIDE DEF c
<1> QED BY <1>1, <1>2, <1>3, <1>4 DEF HasInterval, NoError

LEMMA CookieChecked ==
  ASSUME NEW cookie \in Cookies
  PROVE /\ CookieError(cookie) \in {NoError, "filesystem_error", "invalid_input"}
        /\ CookieError(cookie) = NoError <=> cookie = "good"
<1> DEFINE c == <<Check(cookie \in {"absent", "unreadable"}, "filesystem_error"),
                  Check(cookie = "malformed", "invalid_input")>>
<1>1. /\ c[1].fails <=> cookie \in {"absent", "unreadable"}
      /\ c[2].fails <=> cookie = "malformed"
      /\ c[1].error = "filesystem_error" /\ c[2].error = "invalid_input"
  BY DEF Check
<1>2. CookieError(cookie) = IF c[1].fails THEN c[1].error
                            ELSE IF c[2].fails THEN c[2].error ELSE NoError
  <2>1. DOMAIN c = 1 .. 2 /\ CookieError(cookie) = FirstError(c)
    BY DEF CookieError
  <2> HIDE DEF c
  <2> QED BY <2>1, FourChecks
<1> HIDE DEF c
<1> QED BY <1>1, <1>2 DEF Cookies, NoError

LEMMA CredentialsChecked ==
  ASSUME TypeInv
  PROVE /\ CredentialError \in {NoError, "filesystem_error", "invalid_input"}
        /\ CredentialError = NoError <=> HasCredentials
<1>1. /\ args.cookie \in Cookies \cup {"none"} /\ world.defaultCookie \in Cookies
      /\ args.user \in BOOLEAN /\ args.password \in BOOLEAN
  BY DEF TypeInv, Arguments, Worlds
<1>2. CookieNamed => args.cookie \in Cookies
  BY <1>1 DEF CookieNamed
<1>3. CASE CookieNamed
  BY <1>1, <1>2, <1>3, CookieChecked DEF CredentialError, HasCredentials, NoError
<1>4. CASE ~ CookieNamed
  <2>1. CookieError(world.defaultCookie) \in {NoError, "filesystem_error", "invalid_input"}
        /\ (CookieError(world.defaultCookie) = NoError <=> world.defaultCookie = "good")
    BY <1>1, CookieChecked
  <2> QED BY <1>1, <1>4, <2>1 DEF CredentialError, HasCredentials, NoError
<1> QED BY <1>3, <1>4

LEMMA EndpointChecked ==
  ASSUME TypeInv
  PROVE /\ EndpointError \in {NoError, "invalid_input"}
        /\ EndpointError = NoError <=> HasEndpoint
<1> DEFINE c == <<Check(args.url = "not http", "invalid_input"),
                  Check(args.rate = 0, "invalid_input")>>
<1>1. /\ c[1].fails <=> args.url = "not http"
      /\ c[2].fails <=> args.rate = 0
      /\ c[1].error = "invalid_input" /\ c[2].error = "invalid_input"
  BY DEF Check
<1>2. EndpointError = IF c[1].fails THEN c[1].error
                      ELSE IF c[2].fails THEN c[2].error ELSE NoError
  <2>1. DOMAIN c = 1 .. 2 /\ EndpointError = FirstError(c)
    BY DEF EndpointError
  <2> HIDE DEF c
  <2> QED BY <2>1, FourChecks
<1>3. args.rate \in Nat
  BY DEF TypeInv, Arguments
<1> HIDE DEF c
<1>4. EndpointError = NoError <=> ~ c[1].fails /\ ~ c[2].fails
  BY <1>1, <1>2 DEF NoError
<1>5. args.rate > 0 <=> args.rate # 0
  BY <1>3
<1> QED BY <1>1, <1>2, <1>4, <1>5 DEF HasEndpoint

LEMMA ArchiveChecked ==
  ASSUME TypeInv
  PROVE /\ ArchiveError \in {NoError, "invalid_input"}
        /\ ArchiveError = NoError <=> ReplacesNothingUnasked
<1> DEFINE c == <<Check(args.archive /\ world.archiveStands /\ ~ args.overwrite,
                        "invalid_input")>>
<1>1. /\ c[1].fails <=> args.archive /\ world.archiveStands /\ ~ args.overwrite
      /\ c[1].error = "invalid_input"
  BY DEF Check
<1>2. ArchiveError = IF c[1].fails THEN "invalid_input" ELSE NoError
  <2>1. DOMAIN c = 1 .. 1 /\ ArchiveError = FirstError(c)
    BY DEF ArchiveError
  <2> HIDE DEF c
  <2> QED BY <1>1, <2>1, FourChecks
<1>3. args.archive \in BOOLEAN /\ world.archiveStands \in BOOLEAN /\ args.overwrite \in BOOLEAN
  BY DEF TypeInv, Arguments, Worlds
<1> HIDE DEF c
<1> QED BY <1>1, <1>2, <1>3 DEF ReplacesNothingUnasked, NoError

LEMMA NetworkChecked ==
  ASSUME TypeInv
  PROVE /\ NetworkError \in {NoError, "network_mismatch"}
        /\ NetworkError = NoError <=> SameNetwork
<1> DEFINE c == <<Check(world.chain # args.network, "network_mismatch"),
                  Check(world.testnet # (args.network = Testnet), "network_mismatch")>>
<1>1. /\ c[1].fails <=> world.chain # args.network
      /\ c[2].fails <=> world.testnet # (args.network = Testnet)
      /\ c[1].error = "network_mismatch" /\ c[2].error = "network_mismatch"
  BY DEF Check
<1>2. NetworkError = IF c[1].fails THEN c[1].error
                     ELSE IF c[2].fails THEN c[2].error ELSE NoError
  <2>1. DOMAIN c = 1 .. 2 /\ NetworkError = FirstError(c)
    BY DEF NetworkError
  <2> HIDE DEF c
  <2> QED BY <2>1, FourChecks
<1> HIDE DEF c
<1>3. NetworkError = NoError <=> ~ c[1].fails /\ ~ c[2].fails
  BY <1>1, <1>2 DEF NoError
<1> QED BY <1>1, <1>2, <1>3 DEF SameNetwork

LEMMA ActivationChecked ==
  /\ ActivationError \in {NoError, "activation_mismatch", "capture_incomplete"}
  /\ ActivationError = NoError => SameSchedule
  /\ ActivationError = "activation_mismatch" =>
       \/ args.asserted \notin {0, Activation}
       \/ ~ SameSchedule /\ DOMAIN world.upgrades # {}
  /\ ActivationError = "capture_incomplete" => DOMAIN world.upgrades = {}
<1> DEFINE c == <<Check(args.asserted \notin {0, Activation}, "activation_mismatch"),
                  Check(DOMAIN world.upgrades = {}, "capture_incomplete"),
                  Check(Ironwood \notin DOMAIN world.upgrades, "activation_mismatch"),
                  Check(/\ Ironwood \in DOMAIN world.upgrades
                        /\ world.upgrades[Ironwood] # Activation, "activation_mismatch")>>
<1>1. /\ c[1].fails <=> args.asserted \notin {0, Activation}
      /\ c[2].fails <=> DOMAIN world.upgrades = {}
      /\ c[3].fails <=> Ironwood \notin DOMAIN world.upgrades
      /\ c[4].fails <=> Ironwood \in DOMAIN world.upgrades
                          /\ world.upgrades[Ironwood] # Activation
      /\ c[1].error = "activation_mismatch" /\ c[2].error = "capture_incomplete"
      /\ c[3].error = "activation_mismatch" /\ c[4].error = "activation_mismatch"
  BY DEF Check
<1>2. ActivationError = IF c[1].fails THEN c[1].error
                        ELSE IF c[2].fails THEN c[2].error
                        ELSE IF c[3].fails THEN c[3].error
                        ELSE IF c[4].fails THEN c[4].error ELSE NoError
  <2>1. DOMAIN c = 1 .. 4 /\ ActivationError = FirstError(c)
    BY DEF ActivationError
  <2> HIDE DEF c
  <2> QED BY <2>1, FourChecks
<1> HIDE DEF c
<1> QED BY <1>1, <1>2 DEF SameSchedule, Activation, NoError

LEMMA TipDistanceChecked ==
  ASSUME TypeInv
  PROVE /\ TipDistanceError \in {NoError, "arithmetic_overflow", "capture_incomplete"}
        /\ TipDistanceError = NoError => FarEnough
        /\ TipDistanceError = "arithmetic_overflow" => args.to + args.distance > MaxHeight
        /\ TipDistanceError = "capture_incomplete" => ~ FarEnough
<1> DEFINE c == <<Check(args.to + args.distance > MaxHeight, "arithmetic_overflow"),
                  Check(world.tip < args.to + args.distance, "capture_incomplete")>>
<1>1. /\ c[1].fails <=> args.to + args.distance > MaxHeight
      /\ c[2].fails <=> world.tip < args.to + args.distance
      /\ c[1].error = "arithmetic_overflow" /\ c[2].error = "capture_incomplete"
  BY DEF Check
<1>2. TipDistanceError = IF c[1].fails THEN c[1].error
                         ELSE IF c[2].fails THEN c[2].error ELSE NoError
  <2>1. DOMAIN c = 1 .. 2 /\ TipDistanceError = FirstError(c)
    BY DEF TipDistanceError
  <2> HIDE DEF c
  <2> QED BY <2>1, FourChecks
<1>3. args.to \in Nat /\ args.distance \in Nat /\ world.tip \in Nat /\ MaxHeight \in Nat
  <2>1. args.to \in Heights /\ args.distance \in Heights /\ world.tip \in Heights
    BY DEF TypeInv, Arguments, Worlds
  <2> QED BY <2>1, ScheduleAssumption DEF Heights
<1> DEFINE t == args.to
           d == args.distance
           p == world.tip
<1>4. FarEnough <=> ~ c[1].fails /\ ~ c[2].fails
  <2>1. t \in Nat /\ d \in Nat /\ p \in Nat /\ MaxHeight \in Nat
        /\ (FarEnough <=> t + d \in 0 .. MaxHeight /\ p - t >= d)
        /\ (c[1].fails <=> t + d > MaxHeight) /\ (c[2].fails <=> p < t + d)
    BY <1>1, <1>3 DEF FarEnough
  <2> HIDE DEF t, d, p, c
  <2> QED BY <2>1
<1> HIDE DEF c
<1> QED BY <1>1, <1>2, <1>4 DEF NoError

LEMMA ContextIsFirst ==
  ContextError = IF NetworkError # NoError THEN NetworkError
                 ELSE IF ActivationError # NoError THEN ActivationError
                 ELSE TipDistanceError
<1> DEFINE s == <<NetworkError, ActivationError, TipDistanceError>>
           c == [i \in 1 .. 3 |-> Check(s[i] # NoError, s[i])]
<1>1. /\ s[1] = NetworkError /\ s[2] = ActivationError /\ s[3] = TipDistanceError
  OBVIOUS
<1> HIDE DEF s
<1>2. \A i \in 1 .. 3 : (c[i].fails <=> s[i] # NoError) /\ c[i].error = s[i]
  BY DEF Check
<1>3. DOMAIN c = 1 .. 3 /\ ContextError = FirstError(c)
  BY DEF ContextError, s
<1> HIDE DEF c
<1>4. ContextError = IF c[1].fails THEN c[1].error
                     ELSE IF c[2].fails THEN c[2].error
                     ELSE IF c[3].fails THEN c[3].error ELSE NoError
  BY <1>3, FourChecks
<1> QED BY <1>1, <1>2, <1>4

\* What a refusal may be called: the three conclusions of ExitBlamesRight.
Blames(e) ==
  /\ ExitCode(e) = "ContextMismatch" =>
       \/ ~ SameNetwork
       \/ ~ SameSchedule /\ DOMAIN world.upgrades # {}
       \/ args.asserted \notin {0, Activation}
  /\ ExitCode(e) = "InternalError" => args.to + args.distance > MaxHeight
  /\ ExitCode(e) = "CaptureIncomplete" =>
       \/ e = "rpc_request_failed"
       \/ DOMAIN world.upgrades = {}
       \/ ~ FarEnough
       \/ world.record # "usable"

LEMMA CodesOfErrors ==
  /\ ExitCode("invalid_input") = "InvalidInput"
  /\ ExitCode("invalid_interval") = "InvalidInput"
  /\ ExitCode("filesystem_error") = "FilesystemError"
  /\ ExitCode("network_mismatch") = "ContextMismatch"
  /\ ExitCode("activation_mismatch") = "ContextMismatch"
  /\ ExitCode("arithmetic_overflow") = "InternalError"
  /\ ExitCode("capture_incomplete") = "CaptureIncomplete"
  /\ ExitCode("rpc_request_failed") = "CaptureIncomplete"
BY DEF ExitCode, NoError, OperatorErrors, EvidenceErrors, DecodingErrors,
       ContinuityErrors, CaptureErrors, ContextErrors, InternalErrors

LEMMA ContextChecked ==
  ASSUME TypeInv
  PROVE /\ ContextError = NoError => SameNetwork /\ SameSchedule /\ FarEnough
        /\ ContextError # NoError => Blames(ContextError)
<1>1. ContextError = NoError => SameNetwork /\ SameSchedule /\ FarEnough
  BY ContextIsFirst, NetworkChecked, ActivationChecked, TipDistanceChecked
<1>2. CASE NetworkError # NoError
  <2>1. ContextError = "network_mismatch" /\ ~ SameNetwork
    BY <1>2, ContextIsFirst, NetworkChecked
  <2> QED BY <1>1, <2>1, CodesOfErrors DEF Blames
<1>3. CASE NetworkError = NoError /\ ActivationError # NoError
  <2>1. ContextError = ActivationError
        /\ ActivationError \in {"activation_mismatch", "capture_incomplete"}
    BY <1>3, ContextIsFirst, ActivationChecked
  <2> QED BY <1>1, <2>1, ActivationChecked, CodesOfErrors DEF Blames
<1>4. CASE NetworkError = NoError /\ ActivationError = NoError /\ TipDistanceError # NoError
  <2>1. ContextError = TipDistanceError
        /\ TipDistanceError \in {"arithmetic_overflow", "capture_incomplete"}
    BY <1>4, ContextIsFirst, TipDistanceChecked
  <2> QED BY <1>1, <2>1, TipDistanceChecked, CodesOfErrors DEF Blames
<1>5. CASE NetworkError = NoError /\ ActivationError = NoError /\ TipDistanceError = NoError
  BY <1>1, <1>5, ContextIsFirst
<1> QED BY <1>2, <1>3, <1>4, <1>5

LEMMA RecordChecked ==
  /\ RecordError \in {NoError, "capture_incomplete"}
  /\ RecordError # NoError => Blames(RecordError)
<1> DEFINE c == <<Check(world.record # "usable", "capture_incomplete")>>
<1>1. (c[1].fails <=> world.record # "usable") /\ c[1].error = "capture_incomplete"
  BY DEF Check
<1>2. RecordError = IF c[1].fails THEN c[1].error ELSE NoError
  <2>1. DOMAIN c = 1 .. 1 /\ RecordError = FirstError(c)
    BY DEF RecordError
  <2> HIDE DEF c
  <2> QED BY <2>1, FourChecks
<1> HIDE DEF c
<1> QED BY <1>1, <1>2, CodesOfErrors DEF Blames

-----------------------------------------------------------------------------
\* One step more, or a refusal.
LEMMA ExamineFacts ==
  ASSUME NEW step, NEW next, NEW e, Examine(step, next, e)
  PROVE /\ pc = step /\ error' = e
        /\ e = NoError => pc' = next
        /\ e # NoError => pc' = "done"
BY DEF Examine

\* The state functions speak of the arguments and the world only.
LEMMA GivenStays ==
  ASSUME args' = args, world' = world
  PROVE /\ HasInterval' = HasInterval /\ HasCredentials' = HasCredentials
        /\ HasEndpoint' = HasEndpoint /\ ReplacesNothingUnasked' = ReplacesNothingUnasked
        /\ WellAsked' = WellAsked /\ Source' = Source
        /\ SameNetwork' = SameNetwork /\ SameSchedule' = SameSchedule
        /\ FarEnough' = FarEnough /\ Activation' = Activation
        /\ IsPostActivation(args.to)' = IsPostActivation(args.to)
BY DEF HasInterval, HasCredentials, HasEndpoint, ReplacesNothingUnasked, WellAsked, Source,
       CookieNamed, SameNetwork, SameSchedule, FarEnough, Activation, IsPostActivation

\* A refusal before the node is asked.
LEMMA EarlyRefusal ==
  ASSUME TypeInv, requests = <<>>, UNCHANGED <<args, world, requests>>,
         pc' = "done", ~ WellAsked,
         error' \in {"invalid_input", "invalid_interval", "filesystem_error"}
  PROVE Inv'
<1>1. ExitCode(error)' \in {"InvalidInput", "FilesystemError"}
  <2>1. ExitCode(error') \in {"InvalidInput", "FilesystemError"}
    BY CodesOfErrors
  <2> QED BY <2>1 DEF ExitCode
<1>2. MistakesCostNoRequest' /\ ExitBlamesRight'
  BY <1>1, GivenStays DEF MistakesCostNoRequest, ExitBlamesRight
<1> QED BY <1>2 DEF Inv, TypeInv, PassedInv, ServedInv, BeforeAsking, Asking

\* A request whose answer ends the invocation.
LEMMA LateRefusal ==
  ASSUME Inv, pc \in Asking, UNCHANGED <<args, world, auth, warned>>,
         requests' # <<>>, pc' = "done", error' # NoError, Blames(error')
  PROVE Inv'
<1>1. WellAsked /\ auth = Source /\ warned = OffHost
  BY DEF Inv, PassedInv
<1>2. ExitBlamesRight'
  BY GivenStays DEF ExitBlamesRight, Blames, ExitCode
<1>3. MistakesCostNoRequest'
  BY <1>1, GivenStays DEF MistakesCostNoRequest
<1>4. WellAsked' /\ auth' = Source' /\ warned' = OffHost'
  BY <1>1, GivenStays DEF OffHost
<1> QED BY <1>2, <1>3, <1>4 DEF Inv, TypeInv, PassedInv, ServedInv, BeforeAsking, Asking

LEMMA BuildKeeps == ASSUME Inv, BuildRequest PROVE Inv'
<1>1. Examine("request", "credentials", IntervalError) /\ TypeInv
      /\ UNCHANGED <<args, world, auth, warned, requests, advisories>>
  BY DEF Inv, BuildRequest
<1>2. pc = "request" /\ requests = <<>> /\ error' = IntervalError
  BY <1>1, ExamineFacts DEF Inv, PassedInv, BeforeAsking
<1>3. CASE IntervalError = NoError
  <2>1. HasInterval' /\ pc' = "credentials"
    BY <1>1, <1>3, IntervalChecked, GivenStays, ExamineFacts
  <2> QED BY <1>1, <1>2, <2>1
          DEF Inv, TypeInv, PassedInv, ServedInv, MistakesCostNoRequest, ExitBlamesRight,
              BeforeAsking, Asking
<1>4. CASE IntervalError # NoError
  BY <1>1, <1>2, <1>4, IntervalChecked, ExamineFacts, EarlyRefusal DEF WellAsked
<1> QED BY <1>3, <1>4

LEMMA ResolveKeeps == ASSUME Inv, ResolveCredentials PROVE Inv'
<1>1. Examine("credentials", "transport", CredentialError) /\ TypeInv
      /\ UNCHANGED <<args, world, warned, requests, advisories>>
  BY DEF Inv, ResolveCredentials
<1>2. pc = "credentials" /\ requests = <<>> /\ error' = CredentialError /\ HasInterval
  BY <1>1, ExamineFacts DEF Inv, PassedInv, BeforeAsking
<1>3. CASE CredentialError = NoError
  <2>1. HasInterval' /\ HasCredentials' /\ auth' = Source' /\ pc' = "transport"
    BY <1>1, <1>2, <1>3, CredentialsChecked, GivenStays, ExamineFacts DEF ResolveCredentials
  <2> QED BY <1>1, <1>2, <2>1
          DEF Inv, TypeInv, PassedInv, ServedInv, MistakesCostNoRequest, ExitBlamesRight,
              BeforeAsking, Asking
<1>4. CASE CredentialError # NoError
  BY <1>1, <1>2, <1>4, CredentialsChecked, ExamineFacts, EarlyRefusal DEF WellAsked
<1> QED BY <1>3, <1>4

LEMMA OpenKeeps == ASSUME Inv, OpenTransport PROVE Inv'
<1>1. Examine("transport", "archive", EndpointError) /\ TypeInv
      /\ UNCHANGED <<args, world, auth, requests, advisories>>
  BY DEF Inv, OpenTransport
<1>2. pc = "transport" /\ requests = <<>> /\ error' = EndpointError
      /\ HasInterval /\ HasCredentials /\ auth = Source
  BY <1>1, ExamineFacts DEF Inv, PassedInv, BeforeAsking
<1>3. CASE EndpointError = NoError
  <2>1. HasInterval' /\ HasCredentials' /\ HasEndpoint' /\ auth' = Source' /\ pc' = "archive"
    BY <1>1, <1>2, <1>3, EndpointChecked, GivenStays, ExamineFacts
  <2>2. warned' = OffHost'
    BY <1>1, <1>3 DEF OpenTransport, OffHost
  <2> QED BY <1>1, <1>2, <2>1, <2>2
          DEF Inv, TypeInv, PassedInv, ServedInv, MistakesCostNoRequest, ExitBlamesRight,
              BeforeAsking, Asking
<1>4. CASE EndpointError # NoError
  BY <1>1, <1>2, <1>4, EndpointChecked, ExamineFacts, EarlyRefusal DEF WellAsked
<1> QED BY <1>3, <1>4

LEMMA ArchiveKeeps == ASSUME Inv, RefuseArchive PROVE Inv'
<1>1. Examine("archive", "getinfo", ArchiveError) /\ TypeInv
      /\ UNCHANGED <<args, world, auth, warned, requests, advisories>>
  BY DEF Inv, RefuseArchive
<1>2. pc = "archive" /\ requests = <<>> /\ error' = ArchiveError
      /\ HasInterval /\ HasCredentials /\ HasEndpoint /\ auth = Source /\ warned = OffHost
  BY <1>1, ExamineFacts DEF Inv, PassedInv, BeforeAsking
<1>3. CASE ArchiveError = NoError
  <2>1. WellAsked' /\ auth' = Source' /\ warned' = OffHost' /\ pc' = "getinfo"
    BY <1>1, <1>2, <1>3, ArchiveChecked, GivenStays, ExamineFacts DEF WellAsked, OffHost
  <2> QED BY <1>1, <1>2, <2>1
          DEF Inv, TypeInv, PassedInv, ServedInv, MistakesCostNoRequest, ExitBlamesRight,
              BeforeAsking, Asking
<1>4. CASE ArchiveError # NoError
  BY <1>1, <1>2, <1>4, ArchiveChecked, ExamineFacts, EarlyRefusal DEF WellAsked
<1> QED BY <1>3, <1>4

\* A request is answered and examined, or it fails.
LEMMA RequestFacts ==
  ASSUME NEW step, NEW next, NEW method, NEW e, Request(step, next, method, e)
  PROVE /\ pc = step /\ requests' # <<>> /\ UNCHANGED <<args, world, auth, warned>>
        /\ \/ e = NoError /\ error' = NoError /\ pc' = next
           \/ e # NoError /\ error' = e /\ pc' = "done"
           \/ error' = "rpc_request_failed" /\ pc' = "done"
<1>1. Append(requests, method) # <<>>
  OBVIOUS
<1> QED BY <1>1 DEF Request, Examine, NoError

\* The answer is accepted, and the next step begins.
LEMMA AnsweredKeeps ==
  ASSUME Inv, pc \in Asking, UNCHANGED <<args, world, auth, warned>>,
         requests' # <<>>, pc' \in Asking, ServedInv'
  PROVE Inv'
<1>1. WellAsked /\ auth = Source /\ warned = OffHost
  BY DEF Inv, PassedInv
<1>2. WellAsked' /\ auth' = Source' /\ warned' = OffHost'
  BY <1>1, GivenStays DEF OffHost
<1> QED BY <1>2 DEF Inv, TypeInv, PassedInv, MistakesCostNoRequest, ExitBlamesRight,
                    BeforeAsking, Asking

LEMMA FailedBlames == Blames("rpc_request_failed")
BY CodesOfErrors DEF Blames

LEMMA AskingKeeps ==
  ASSUME Inv, GetInfo \/ GetBlockchainInfo \/ ProbeAnchor
  PROVE Inv'
<1>0. "rpc_request_failed" # NoError /\ TypeInv
  BY DEF NoError, Inv
<1>1. CASE GetInfo
  <2>1. Request("getinfo", "getblockchaininfo", "getinfo", NoError)
    BY <1>1 DEF GetInfo
  <2>2. CASE error' = NoError
    <3>1. pc' = "getblockchaininfo"
      BY <1>0, <2>1, <2>2, RequestFacts
    <3> QED BY <2>1, <3>1, RequestFacts, AnsweredKeeps DEF Asking, ServedInv
  <2>3. CASE error' # NoError
    BY <1>0, <2>1, <2>3, RequestFacts, LateRefusal, FailedBlames DEF Asking
  <2> QED BY <2>2, <2>3
<1>2. CASE GetBlockchainInfo
  <2>1. Request("getblockchaininfo", "getblock", "getblockchaininfo", ContextError)
    BY <1>2 DEF GetBlockchainInfo
  <2>2. CASE error' = NoError
    <3>1. pc' = "getblock" /\ ContextError = NoError
      BY <1>0, <2>1, <2>2, RequestFacts
    <3>2. ServedInv'
      BY <1>0, <2>1, <3>1, RequestFacts, ContextChecked, GivenStays DEF ServedInv
    <3> QED BY <2>1, <3>1, <3>2, RequestFacts, AnsweredKeeps DEF Asking
  <2>3. CASE error' # NoError
    <3>1. pc' = "done" /\ Blames(error')
      BY <1>0, <2>1, <2>3, RequestFacts, ContextChecked, FailedBlames
    <3> QED BY <2>1, <2>3, <3>1, RequestFacts, LateRefusal DEF Asking
  <2> QED BY <2>2, <2>3
<1>3. CASE ProbeAnchor
  <2>1. Request("getblock", "ready", "getblock", RecordError)
    BY <1>3 DEF ProbeAnchor
  <2>2. CASE error' = NoError
    <3>1. pc = "getblock" /\ pc' = "ready"
      BY <1>0, <2>1, <2>2, RequestFacts
    <3>2. "interval_precedes_activation" \in advisories' <=> ~ IsPostActivation(args.to)
      BY <1>3, <2>2 DEF ProbeAnchor, IntervalAdvisories
    <3>3. ServedInv'
      BY <2>1, <3>1, <3>2, RequestFacts, GivenStays DEF Inv, ServedInv
    <3> QED BY <2>1, <3>1, <3>3, RequestFacts, AnsweredKeeps DEF Asking
  <2>3. CASE error' # NoError
    <3>1. pc' = "done" /\ Blames(error')
      BY <1>0, <2>1, <2>3, RequestFacts, RecordChecked, FailedBlames
    <3> QED BY <2>1, <2>3, <3>1, RequestFacts, LateRefusal DEF Asking
  <2> QED BY <2>2, <2>3
<1> QED BY <1>1, <1>2, <1>3

LEMMA InitInv == Init => Inv
<1> SUFFICES ASSUME Init PROVE Inv
  OBVIOUS
<1>1. TypeInv
  <2>1. PICK c \in Cases : args = c.args /\ world = c.world
    BY DEF Init
  <2>2. c.args \in Arguments /\ c.world \in Worlds
    BY CasesAssumption
  <2> QED BY <2>1, <2>2 DEF Init, TypeInv, BeforeAsking
<1> QED BY <1>1 DEF Init, Inv, PassedInv, ServedInv, MistakesCostNoRequest, ExitBlamesRight,
                    BeforeAsking, Asking

LEMMA Invariance == Spec => []Inv
<1>1. Inv /\ [Next]_vars => Inv'
  <2> SUFFICES ASSUME Inv, [Next]_vars PROVE Inv'
    OBVIOUS
  <2>1. CASE UNCHANGED vars
    <3>1. ExitCode(error)' = ExitCode(error) /\ OffHost' = OffHost
      BY <2>1 DEF vars, ExitCode, OffHost
    <3> QED BY <2>1, <3>1, GivenStays
            DEF vars, Inv, TypeInv, PassedInv, ServedInv, MistakesCostNoRequest, ExitBlamesRight
  <2> QED BY <2>1, BuildKeeps, ResolveKeeps, OpenKeeps, ArchiveKeeps, AskingKeeps DEF Next
<1> QED BY <1>1, InitInv, PTL DEF Spec

-----------------------------------------------------------------------------
\* By the time the node is asked anything, everything the command line decides
\* has been found usable; a refusal before that is the operator's or the file
\* system's (src/commands/capture.rs:23).
THEOREM MistakesComeFirst == Spec => []MistakesCostNoRequest
<1>1. Inv => MistakesCostNoRequest
  BY DEF Inv
<1> QED BY <1>1, Invariance, PTL

\* Every request carries the credential the operator named, whatever else lies
\* about, and none is sent off the machine unannounced (src/rpc/auth.rs:75).
THEOREM CredentialsAreNamed == Spec => []CredentialsAsNamed
<1>1. Inv => CredentialsAsNamed
  <2> SUFFICES ASSUME Inv, requests # <<>> PROVE CredentialsAsNamed
    BY DEF CredentialsAsNamed
  <2>1. HasCredentials /\ auth = Source /\ warned = OffHost
        /\ args.user \in BOOLEAN /\ args.password \in BOOLEAN
    BY DEF Inv, TypeInv, Arguments, PassedInv, WellAsked
  <2>2. CASE CookieNamed
    BY <2>1, <2>2 DEF CredentialsAsNamed, HasCredentials, Source, OffHost
  <2>3. CASE ~ CookieNamed
    BY <2>1, <2>3 DEF CredentialsAsNamed, HasCredentials, Source, OffHost
  <2> QED BY <2>2, <2>3
<1> QED BY <1>1, Invariance, PTL

\* A refusal names what it is about, whatever else is wrong with the node, with
\* the network or with the request (src/cli/exit.rs:49).
THEOREM ExitsBlameRight == Spec => []ExitBlamesRight
<1>1. Inv => ExitBlamesRight
  BY DEF Inv
<1> QED BY <1>1, Invariance, PTL

-----------------------------------------------------------------------------
\* The branch in force is one that has begun, and none that has begun is later.
LEMMA BranchFacts ==
  ASSUME NEW table, DOMAIN table \in SUBSET (1 .. Branches), NEW h
  PROVE /\ BranchAt(table, h) \in {0} \cup {b \in DOMAIN table : table[b] <= h}
        /\ \A b \in DOMAIN table : table[b] <= h => b <= BranchAt(table, h)
<1> DEFINE S == {0} \cup {b \in DOMAIN table : table[b] <= h}
<1>1. Branches \in Nat
  BY ScheduleAssumption
<1>2. S \in SUBSET Nat /\ S # {} /\ \A x \in S : x <= Branches
  BY <1>1
<1> HIDE DEF S
<1>3. Max(S) \in S /\ \A y \in S : Max(S) >= y
  BY <1>1, <1>2, GreatestNat
<1>4. Max(S) \in Nat /\ S \in SUBSET Nat
  BY <1>2, <1>3
<1>5. BranchAt(table, h) = Max(S)
  BY DEF BranchAt, S
<1>6. \A y \in S : y <= Max(S)
  BY <1>3, <1>4
<1> QED BY <1>3, <1>5, <1>6 DEF S

\* What the compiled table knows of the network asked for.
LEMMA ScheduleFacts ==
  ASSUME TypeInv
  PROVE LET table == Schedule[args.network]
        IN  /\ DOMAIN table \in SUBSET (1 .. Branches)
            /\ Ironwood \in DOMAIN table /\ 1 .. Ironwood \subseteq DOMAIN table
            /\ Ironwood \in Nat /\ Ironwood >= 1
            /\ \A b \in DOMAIN table : table[b] \in Nat
            /\ \A b, c \in DOMAIN table : b <= c => table[b] <= table[c]
<1>1. args.network \in Networks
  BY DEF TypeInv, Arguments
<1>2. Ironwood \in 1 .. Branches /\ Branches \in Nat
  BY ScheduleAssumption
<1>3. Ironwood \in 1 .. Ironwood
  BY <1>2
<1> QED BY <1>1, <1>2, <1>3, ScheduleAssumption DEF Heights

LEMMA BoundsAreNat ==
  ASSUME TypeInv
  PROVE args.from \in Nat /\ args.to \in Nat
<1>1. args.from \in Heights /\ args.to \in Heights
  BY DEF TypeInv, Arguments
<1> QED BY <1>1 DEF Heights

\* The advisory that no Ironwood value can exist in the interval is given exactly
\* when it is true, whatever the schedule (src/capture/guard.rs:246).
THEOREM AdvisoriesAreTrue == Spec => []AdvisoryIsTrue
<1>1. Inv => AdvisoryIsTrue
  <2> SUFFICES ASSUME Inv, pc = "ready" PROVE AdvisoryIsTrue
    BY DEF AdvisoryIsTrue
  <2> DEFINE table == Schedule[args.network]
             f == args.from
             t == args.to
             Before(h) == BranchAt(table, h) < Ironwood
  <2>1. /\ TypeInv /\ f \in Nat /\ t \in Nat /\ f \in 1 .. t
        /\ "interval_precedes_activation" \in advisories <=> ~ (t >= table[Ironwood])
    BY BoundsAreNat
       DEF Inv, PassedInv, ServedInv, Asking, WellAsked, HasInterval, IsPostActivation, Activation
  <2>2. /\ DOMAIN table \in SUBSET (1 .. Branches) /\ Ironwood \in DOMAIN table
        /\ Ironwood \in Nat /\ Ironwood >= 1 /\ DOMAIN table \in SUBSET Nat
        /\ \A b \in DOMAIN table : table[b] \in Nat
        /\ \A b, c \in DOMAIN table : b <= c => table[b] <= table[c]
    BY <2>1, ScheduleFacts
  <2>3. /\ \A h : BranchAt(table, h) \in {0} \cup {b \in DOMAIN table : table[b] <= h}
        /\ \A h : \A b \in DOMAIN table : table[b] <= h => b <= BranchAt(table, h)
    BY <2>2, BranchFacts
  <2> HIDE DEF table, f, t
  <2>4. ASSUME t >= table[Ironwood] PROVE ~ \A h \in f .. t : Before(h)
    <3>1. Ironwood <= BranchAt(table, t) /\ BranchAt(table, t) \in Nat /\ t \in f .. t
      BY <2>1, <2>2, <2>3, <2>4
    <3> QED BY <2>2, <3>1
  <2>5. ASSUME ~ (t >= table[Ironwood]), NEW h \in f .. t PROVE Before(h)
    <3>1. h \in Nat /\ h < table[Ironwood] /\ table[Ironwood] \in Nat
      BY <2>1, <2>2, <2>5
    <3>2. \A b \in DOMAIN table : table[b] <= h => b < Ironwood
      BY <2>2, <3>1
    <3> QED BY <2>2, <2>3, <3>2
  <2> QED BY <2>1, <2>4, <2>5 DEF AdvisoryIsTrue, table, f, t
<1> QED BY <1>1, Invariance, PTL

\* The branch the node puts in force is the one the compiled table expects, at
\* every height of the interval, when the node's other upgrades agree.
LEMMA SameBranches ==
  ASSUME TypeInv, SameSchedule, SameUpgrades, NEW h \in args.from .. args.to
  PROVE BranchAt(world.upgrades, h) = BranchAt(Schedule[args.network], h)
<1> DEFINE ours == Schedule[args.network]
           theirs == world.upgrades
           a == BranchAt(theirs, h)
           b == BranchAt(ours, h)
<1>1. DOMAIN theirs \in SUBSET (1 .. Branches)
  BY DEF TypeInv, Worlds
<1>2. /\ DOMAIN ours \in SUBSET (1 .. Branches)
      /\ Ironwood \in DOMAIN ours /\ 1 .. Ironwood \subseteq DOMAIN ours
      /\ Ironwood \in Nat /\ Branches \in Nat
  BY ScheduleFacts, ScheduleAssumption
<1>3. /\ a <= Ironwood
      /\ \A c \in DOMAIN ours : c \in DOMAIN theirs /\ theirs[c] = ours[c]
  BY DEF SameUpgrades, SameSchedule
<1>4. /\ a \in {0} \cup {c \in DOMAIN theirs : theirs[c] <= h}
      /\ \A c \in DOMAIN theirs : theirs[c] <= h => c <= a
      /\ b \in {0} \cup {c \in DOMAIN ours : ours[c] <= h}
      /\ \A c \in DOMAIN ours : ours[c] <= h => c <= b
  BY <1>1, <1>2, BranchFacts
<1> HIDE DEF ours, theirs, a, b
<1>5. a \in Nat /\ b \in Nat
  BY <1>1, <1>2, <1>4
<1>6. b <= a
  BY <1>3, <1>4, <1>5
<1>7. a <= b
  <2>1. CASE a = 0
    BY <1>5, <2>1
  <2>2. CASE a # 0
    <3>1. a \in 1 .. Ironwood /\ theirs[a] <= h
      BY <1>2, <1>3, <1>4, <1>5, <2>2
    <3>2. a \in DOMAIN ours /\ ours[a] <= h
      BY <1>2, <1>3, <3>1
    <3> QED BY <1>4, <3>2
  <2> QED BY <2>1, <2>2
<1> QED BY <1>5, <1>6, <1>7 DEF a, b, ours, theirs

\* What is accepted is of the network asked for and far enough below the tip, and
\* no transaction of it is under a branch that the compiled table would not
\* expect there, for every schedule of which the node knows the other upgrades
\* (src/capture/guard.rs:82).
THEOREM CapturesAreDecodable == Spec => []CapturedIsDecodable
<1>1. Inv => CapturedIsDecodable
  BY SameBranches DEF Inv, ServedInv, CapturedIsDecodable
<1> QED BY <1>1, Invariance, PTL
=============================================================================
