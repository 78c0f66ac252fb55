----------------------------- MODULE Accounting -----------------------------
(***************************************************************************)
(* What `reconcile` computes from the evidence once the walk of Verify has *)
(* read it: the delta of every transaction, of every block, the running    *)
(* balances, the comparison with what the node reported, and the checks    *)
(* (src/reconcile, src/checks, src/parse/value_balance.rs).                *)
(*                                                                         *)
(* The accumulators of reconcile_interval are 128 bits wide; an interval   *)
(* has at most 2^32 heights of 64-bit deltas, so they cannot overflow and  *)
(* are integers here.  The sum over a block is 64 bits wide and can.       *)
(***************************************************************************)
EXTENDS Integers, Sequences

CONSTANTS
  Evidence,      \* the evidence that may be reconciled
  MaxMoney,      \* MAX_MONEY
  MaxLong,       \* the largest 64-bit integer
  Activation,    \* the height at which the Ironwood pool begins to exist
  Absent         \* in place of a figure the node did not report

Pools == {"orchard", "ironwood"}
Long == -MaxLong - 1 .. MaxLong
Money == -MaxMoney .. MaxMoney
Figure == Long \cup {Absent}

\* A transaction: the value balance of each bundle (zero without one), and
\* whether its branch identifier is the one expected at its height.
Transaction == [value : [Pools -> Long], native : BOOLEAN]
\* What the node reported of a block.
Record == [balance : [Pools -> Figure], delta : [Pools -> Figure]]

ASSUME MoneyAssumption ==
  /\ MaxMoney \in Nat
  /\ MaxLong \in Nat
  /\ MaxMoney <= MaxLong
  /\ Activation \in Nat \ {0}
  /\ Absent \notin Int

\* linked, anchorBlock and unlisted are what the walk of Verify found.
ASSUME EvidenceAssumption ==
  \A e \in Evidence :
    /\ e.start \in Nat \ {0} /\ e.end \in Nat /\ e.start <= e.end
    /\ e.anchor \in Record
    /\ e.blocks \in [e.start .. e.end -> Seq(Transaction)]
    /\ e.records \in [e.start .. e.end -> Record]
    /\ e.declared \in [anchor : [Pools -> Money], end : [Pools -> Money], activation : Nat]
    /\ {e.linked, e.anchorBlock, e.unlisted} \subseteq BOOLEAN

VARIABLES
  ev,          \* the evidence
  phase,       \* where the reconciliation is
  at,          \* the height being read or accumulated
  index,       \* the transactions of the block summed so far
  sum,         \* their deltas, per pool
  ledger,      \* the delta of every block, per pool
  running,     \* the running balance, per pool
  cumulative,  \* the running total of the deltas, per pool
  flow,        \* value out of Orchard and into Ironwood
  expected,    \* the reconstructed balance after every block, per pool
  verdict      \* the result, or "pending"

position == <<phase, at, index>>
totals == <<sum, ledger, running, cumulative, flow, expected>>
vars == <<ev, position, totals, verdict>>

heights == ev.start .. ev.end
Nothing == [p \in Pools |-> 0]

Verdicts == {"pending", "unsupported", "foreign", "unrepresentable", "incomplete",
             "failed", "warned", "passed"}
\* The verdicts with exit code 0.
Accepted == {"warned", "passed"}

Init ==
  /\ ev \in Evidence
  /\ phase = "anchor" /\ at = 0 /\ index = 0
  /\ sum = Nothing
  /\ ledger = [h \in heights |-> Nothing]
  /\ running = Nothing
  /\ cumulative = Nothing
  /\ flow = Nothing
  /\ expected = [h \in heights |-> Nothing]
  /\ verdict = "pending"

Conclude(v) ==
  /\ verdict' = v
  /\ phase' = "done"
  /\ UNCHANGED <<ev, at, index, totals>>

GoTo(p, h) == phase' = p /\ at' = h /\ index' = 0 /\ UNCHANGED <<ev, verdict>>

-----------------------------------------------------------------------------
\* Slip: narrowed to 64 bits only.
NarrowsToLong(x) == x \in Long

\* new_checked, which also ends narrow.
Narrows(x) == x \in Money

\* pool_state_file::parse: a figure outside the money range is an error, one
\* that is missing is not.
Representable(record) ==
  \A p \in Pools :
    /\ record.balance[p] = Absent \/ Narrows(record.balance[p])
    /\ record.delta[p] = Absent \/ Narrows(record.delta[p])

ReadAnchor ==
  /\ phase = "anchor"
  /\ IF ~ Representable(ev.anchor) THEN Conclude("unrepresentable")
     ELSE GoTo("read", ev.start) /\ UNCHANGED totals

\* parse_block, then the record beside the block.  A value outside the money
\* range fails the decoding of the whole block, before any branch is compared.
ReadBlock ==
  /\ phase = "read"
  /\ LET txs == ev.blocks[at]
     IN IF \E i \in DOMAIN txs : \E p \in Pools : ~ Narrows(txs[i].value[p])
        THEN Conclude("unsupported")
        ELSE IF \E i \in DOMAIN txs : ~ txs[i].native THEN Conclude("foreign")
        ELSE IF ~ Representable(ev.records[at]) THEN Conclude("unrepresentable")
        ELSE /\ GoTo("sum", at)
             /\ sum' = Nothing
             /\ UNCHANGED <<ledger, running, cumulative, flow, expected>>

\* ZIP 209: a pool gains what the value balance says it loses.
Delta(tx, p) == - tx.value[p]

\* Slip: the sum wraps.
WrappedSum(x, y) == ((x + y + MaxLong + 1) % (2 * MaxLong + 2)) - MaxLong - 1

ExactSum(x, y) == x + y

\* One step of try_sum, for both pools; checked_add refuses a sum that is not
\* a 64-bit integer.
SumTransaction ==
  /\ phase = "sum"
  /\ index < Len(ev.blocks[at])
  /\ LET next == [p \in Pools |-> ExactSum(sum[p], Delta(ev.blocks[at][index + 1], p))]
     IN IF \E p \in Pools : next[p] \notin Long THEN Conclude("unrepresentable")
        ELSE /\ sum' = next
             /\ index' = index + 1
             /\ UNCHANGED <<ev, phase, at, ledger, running, cumulative, flow, expected, verdict>>

CloseBlock ==
  /\ phase = "sum"
  /\ index = Len(ev.blocks[at])
  /\ ledger' = [ledger EXCEPT ![at] = sum]
  /\ IF at < ev.end THEN GoTo("read", at + 1) ELSE GoTo("balances", at)
  /\ UNCHANGED <<sum, running, cumulative, flow, expected>>

\* Slip: the anchor is taken from the manifest.
DeclaredAnchor == ev.declared.anchor

AnchorBalances == ev.anchor.balance

\* require_balance: the anchor must have both balances.
RequireAnchor ==
  /\ phase = "balances"
  /\ IF \E p \in Pools : AnchorBalances[p] = Absent THEN Conclude("incomplete")
     ELSE /\ running' = AnchorBalances
          /\ GoTo("accumulate", ev.start)
          /\ UNCHANGED <<sum, ledger, cumulative, flow, expected>>

\* The gross flows: Orchard's losses, Ironwood's gains.
Flowing(p, d) ==
  CASE p = "orchard" /\ d < 0 -> - d
    [] p = "ironwood" /\ d > 0 -> d
    [] OTHER -> 0

\* One height of reconcile_interval; the running balance is narrowed at every
\* height, the totals only at the end.
Accumulate ==
  /\ phase = "accumulate"
  /\ LET next == [p \in Pools |-> running[p] + ledger[at][p]]
     IN IF \E p \in Pools : ~ Narrows(next[p]) THEN Conclude("unrepresentable")
        ELSE /\ running' = next
             /\ expected' = [expected EXCEPT ![at] = next]
             /\ cumulative' = [p \in Pools |-> cumulative[p] + ledger[at][p]]
             /\ flow' = [p \in Pools |-> flow[p] + Flowing(p, ledger[at][p])]
             /\ IF at < ev.end THEN GoTo("accumulate", at + 1) ELSE GoTo("totals", at)
             /\ UNCHANGED <<sum, ledger>>

NarrowTotals ==
  /\ phase = "totals"
  /\ IF \E p \in Pools : ~ Narrows(cumulative[p]) \/ ~ Narrows(flow[p])
     THEN Conclude("unrepresentable")
     ELSE GoTo("judge", at) /\ UNCHANGED totals

\* reconcile_interval ends in an IntervalOutcome or in an error.
Reckon == ReadAnchor \/ ReadBlock \/ SumTransaction \/ CloseBlock \/ RequireAnchor \/ Accumulate
            \/ NarrowTotals

TypeOK ==
  /\ phase \in {"anchor", "read", "sum", "balances", "accumulate", "totals", "judge", "done"}
  /\ at \in Nat /\ index \in Nat
  /\ sum \in [Pools -> Long]
  /\ ledger \in [heights -> [Pools -> Long]]
  /\ running \in [Pools -> Money]
  /\ cumulative \in [Pools -> Int] /\ flow \in [Pools -> Nat]
  /\ expected \in [heights -> [Pools -> Money]]
  /\ verdict \in Verdicts
=============================================================================
