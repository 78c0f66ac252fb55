---------------------------- MODULE PoolStateFile ----------------------------
(***************************************************************************)
(* From a node's getblock response to the pool-state file of a height, and *)
(* back: src/evidence/pool_state_file.rs with the guards capture applies   *)
(* (src/capture/plan.rs) and the state it is read into                     *)
(* (src/domain/pool_state.rs).                                             *)
(*                                                                         *)
(* A response is a record [hash, height, pools, confirmations, next].  The *)
(* last two change with the moment it is asked for.  `pools` is a sequence *)
(* of entries [id, balance, delta, monitored, float].  A member the node   *)
(* leaves out is Absent; Text is one of another type.  A null is left out  *)
(* of the model: of a figure it is read like an omission, but stored.      *)
(***************************************************************************)
EXTENDS Integers, Sequences, FiniteSetsExt

CONSTANTS
  Pools,          \* Pool::ALL, by their identifiers
  Reconstructed,  \* Pool::RECONSTRUCTED
  MaxMoney,       \* MAX_MONEY
  Absent, Text

ASSUME PoolAssumption == Reconstructed \subseteq Pools /\ Reconstructed # {}

Figures == {"balance", "delta"}
Fields == Figures \cup {"monitored"}

\* project, project_pool: an allow-list of what describes the block.  A
\* `valuePools` that is no array becomes an empty one.
ProjectPool(e) ==
  [id |-> e.id, balance |-> e.balance, delta |-> e.delta, monitored |-> e.monitored]

\* Slip: a deny-list that misses what a later node may add to an entry.
ProjectAllButMoment(r) ==
  [hash |-> r.hash, height |-> r.height,
   pools |-> IF r.pools \in {Absent, Text} THEN <<>> ELSE r.pools,
   next |-> r.next]

Project(r) ==
  [hash |-> r.hash, height |-> r.height,
   pools |-> IF r.pools \in {Absent, Text} THEN <<>>
             ELSE [i \in DOMAIN r.pools |-> ProjectPool(r.pools[i])]]

\* Zatoshi::new_checked.
InMoneyRange(v) == v \in -MaxMoney .. MaxMoney

\* What of the file cannot be read: a member that is missing or of another type,
\* or a figure of a recognised pool that is no amount of money.
Unreadable(file) ==
  \/ file.hash \in {Absent, Text}
  \/ file.height \in {Absent, Text}
  \/ \E i \in DOMAIN file.pools :
       \/ file.pools[i].id \in {Absent, Text}
       \/ \E f \in Fields : file.pools[i][f] = Text
       \/ /\ file.pools[i].id \in Pools
          /\ \E f \in Figures :
               file.pools[i][f] # Absent /\ ~ InMoneyRange(file.pools[i][f])

\* Slip: a figure that the node leaves out is read as zero.
StatedOrZero(file, pool, field) ==
  LET stating == {i \in DOMAIN file.pools :
                    file.pools[i].id = pool /\ file.pools[i][field] # Absent}
  IN  IF stating = {} THEN 0 ELSE file.pools[Max(stating)][field]

\* A pool is found by its identifier; of several entries that state a field the
\* last one counts, and an entry that does not state it changes nothing.
Stated(file, pool, field) ==
  LET stating == {i \in DOMAIN file.pools :
                    file.pools[i].id = pool /\ file.pools[i][field] # Absent}
  IN  IF stating = {} THEN Absent ELSE file.pools[Max(stating)][field]

\* parse, where the file can be read: CapturedBlockState.
Parsed(file) ==
  [height |-> file.height, hash |-> file.hash,
   state |-> [p \in Pools |-> [f \in Fields |-> Stated(file, p, f)]]]

\* missing_reconstructed_balances.
Missing(captured) == {p \in Reconstructed : captured.state[p].balance = Absent}

\* parse_pool_state: what capture, fetching or adopting, requires of a file.
Usable(height, file) ==
  /\ ~ Unreadable(file)
  /\ Parsed(file).height = height
  /\ Missing(Parsed(file)) = {}
=============================================================================
