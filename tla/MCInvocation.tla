---------------------------- MODULE MCInvocation ----------------------------
(***************************************************************************)
(* Invocations that vary one group of arguments at a time, with what the   *)
(* machine and the node hold varied alike, around one that succeeds.       *)
(***************************************************************************)
EXTENDS Invocation, TLC

MCNetworks == {"mainnet", "testnet"}
\* Ironwood is the second upgrade; it comes one height later on the test network.
MCSchedule == ("mainnet" :> <<1, 3>>) @@ ("testnet" :> <<1, 4>>)

Table(heights) == [b \in {b \in 1 .. 3 : heights[b] > 0} |-> heights[b]]

PlainArgs ==
  [from |-> 2, to |-> 4, distance |-> 1, asserted |-> 0, network |-> "mainnet",
   user |-> FALSE, password |-> FALSE, cookie |-> "none",
   url |-> "loopback", rate |-> 10, archive |-> FALSE, overwrite |-> FALSE]

PlainWorld ==
  [defaultCookie |-> "good", archiveStands |-> FALSE,
   chain |-> "mainnet", testnet |-> FALSE, upgrades |-> Table(<<1, 3, 0>>),
   tip |-> 5, record |-> "usable", emptyPools |-> FALSE]

Case(a, w) == [args |-> a, world |-> w]

\* The interval and the tip distance, up to the largest height.
BoundCases ==
  {Case([PlainArgs EXCEPT !.from = f, !.to = t, !.distance = d], [PlainWorld EXCEPT !.tip = p]) :
     f \in Heights, t \in Heights, d \in 0 .. 2, p \in {4, 5, MaxHeight}}

\* The credentials, the endpoint and the rate.
CredentialCases ==
  {Case([PlainArgs EXCEPT !.user = u, !.password = w, !.cookie = c, !.url = l, !.rate = r],
        [PlainWorld EXCEPT !.defaultCookie = k]) :
     u \in BOOLEAN, w \in BOOLEAN, c \in Cookies \cup {"none"}, k \in Cookies,
     l \in {"loopback", "remote", "not http"}, r \in {0, 10}}

\* The network, the schedule and the height asserted.
ContextCases ==
  {Case([PlainArgs EXCEPT !.network = n, !.asserted = a],
        [PlainWorld EXCEPT !.chain = c, !.testnet = t, !.upgrades = Table(u)]) :
     n \in MCNetworks, a \in {0, 3, 4}, c \in MCNetworks \cup {"regtest"}, t \in BOOLEAN,
     u \in {0, 1, 2} \X {0, 3, 4} \X {0, 4, 6}}

\* The archive, the record of the anchor and what it reports.
RecordCases ==
  {Case([PlainArgs EXCEPT !.archive = a, !.overwrite = o],
        [PlainWorld EXCEPT !.archiveStands = s, !.record = r, !.emptyPools = e]) :
     a \in BOOLEAN, o \in BOOLEAN, s \in BOOLEAN, e \in BOOLEAN,
     r \in {"usable", "undecodable", "without balances", "of another height"}}

MCCases == BoundCases \cup CredentialCases \cup ContextCases \cup RecordCases
=============================================================================
