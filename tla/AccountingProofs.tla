-------------------------- MODULE AccountingProofs --------------------------
(***************************************************************************)
(* Theorems about Judgement.  The invariants follow the walk, one height   *)
(* or transaction at a time; the sums over a block and over the interval   *)
(* are taken apart by the lemmas of Folding.                               *)
(***************************************************************************)
EXTENDS Reports, Folding

PositionInv ==
  /\ phase \in {"read", "sum", "accumulate"} => at \in heights
  /\ phase = "sum" => index <= Len(ev.blocks[at])
  /\ phase # "done" => verdict = "pending"

\* The anchor was read as money, and both balances were there.
AnchorInv ==
  /\ phase \notin {"anchor", "done"} => Representable(ev.anchor)
  /\ phase \in {"accumulate", "totals", "judge"} \/ Completed =>
       \A p \in Pools : ev.anchor.balance[p] \in Money

WellFormed == ev \in Evidence /\ TypeOK /\ PositionInv /\ AnchorInv

\* What the assumptions say of the evidence at hand.
LEMMA EvidenceFacts ==
  ASSUME ev \in Evidence
  PROVE  /\ ev.start \in Nat \ {0} /\ ev.end \in Nat /\ ev.start <= ev.end
         /\ heights \subseteq Nat \ {0}
         /\ \A p \in Pools : ev.anchor.balance[p] \in Figure
         /\ \A h \in heights :
              /\ ev.blocks[h] \in Seq(Transaction)
              /\ Len(ev.blocks[h]) \in Nat
              /\ \A i \in 1 .. Len(ev.blocks[h]) : ev.blocks[h][i] \in Transaction
              /\ \A p \in Pools : ev.records[h].balance[p] \in Figure /\ ev.records[h].delta[p] \in Figure
  <1>1. ev.start \in Nat \ {0} /\ ev.end \in Nat /\ ev.start <= ev.end /\ heights \subseteq Nat \ {0}
    BY EvidenceAssumption DEF heights
  <1>2. ev.anchor \in Record /\ \A h \in heights : ev.blocks[h] \in Seq(Transaction) /\ ev.records[h] \in Record
    BY EvidenceAssumption DEF heights
  <1>3. \A r \in Record : \A p \in Pools : r.balance[p] \in Figure /\ r.delta[p] \in Figure
    BY DEF Record
  <1>4. \A h \in heights :
          Len(ev.blocks[h]) \in Nat /\ \A i \in 1 .. Len(ev.blocks[h]) : ev.blocks[h][i] \in Transaction
    BY <1>2
  <1> QED
    BY <1>1, <1>2, <1>3, <1>4

LEMMA Constants == MaxMoney \in Nat /\ MaxLong \in Nat /\ Money \subseteq Long /\ Long \subseteq Int /\ 0 \in Money
  BY MoneyAssumption DEF Money, Long

LEMMA InitWellFormed == Init => WellFormed
  <1> SUFFICES ASSUME Init PROVE WellFormed
    OBVIOUS
  <1>1. ev \in Evidence
    BY DEF Init
  <1>2. TypeOK
    BY <1>1, Constants, EvidenceFacts DEF Init, TypeOK, Nothing, Verdicts, Pools
  <1>3. PositionInv /\ AnchorInv
    BY DEF Init, PositionInv, AnchorInv, Completed
  <1> QED
    BY <1>1, <1>2, <1>3 DEF WellFormed

\* An error ends the command and changes no figure.
LEMMA ConcludeWellFormed ==
  ASSUME WellFormed, NEW v \in Verdicts, Conclude(v),
         v \in {"failed", "warned", "passed"} => phase = "judge"
  PROVE  WellFormed'
  <1>1. TypeOK'
    BY DEF WellFormed, TypeOK, Conclude, totals, heights
  <1>2. PositionInv' /\ AnchorInv'
    BY DEF WellFormed, PositionInv, AnchorInv, Conclude, Completed
  <1> QED
    BY <1>1, <1>2 DEF WellFormed, Conclude

LEMMA StepWellFormed == WellFormed /\ [Next]_vars => WellFormed'
  <1> SUFFICES ASSUME WellFormed, [Next]_vars PROVE WellFormed'
    OBVIOUS
  <1> USE DEF WellFormed
  <1>e. \A v \in {"unsupported", "foreign", "unrepresentable", "incomplete"} : Conclude(v) => WellFormed'
    BY ConcludeWellFormed DEF Verdicts
  <1>1. CASE ReadAnchor
    <2>1. CASE GoTo("read", ev.start) /\ UNCHANGED totals /\ Representable(ev.anchor)
      BY <2>1, <1>1, EvidenceFacts DEF ReadAnchor, GoTo, totals, TypeOK, PositionInv, AnchorInv, Completed, heights, Representable
    <2> QED
      BY <1>1, <1>e, <2>1 DEF ReadAnchor
  <1>2. CASE ReadBlock
    <2>1. CASE GoTo("sum", at) /\ sum' = Nothing /\ UNCHANGED <<ledger, running, cumulative, flow, expected>>
      BY <2>1, <1>2, EvidenceFacts, Constants
         DEF ReadBlock, GoTo, TypeOK, PositionInv, AnchorInv, Completed, heights, Representable, Nothing, Pools
    <2> QED
      BY <1>2, <1>e, <2>1 DEF ReadBlock
  <1>3. CASE SumTransaction
    <2> DEFINE next == [p \in Pools |-> ExactSum(sum[p], Delta(ev.blocks[at][index + 1], p))]
    <2>1. CASE /\ \A p \in Pools : next[p] \in Long
               /\ sum' = next
               /\ index' = index + 1
               /\ UNCHANGED <<ev, phase, at, ledger, running, cumulative, flow, expected, verdict>>
      <3>1. sum' \in [Pools -> Long]
        BY <2>1
      <3> QED
        BY <3>1, <2>1, <1>3, EvidenceFacts
           DEF SumTransaction, TypeOK, PositionInv, AnchorInv, Completed, heights, Representable
    <2> QED
      BY <1>3, <1>e, <2>1 DEF SumTransaction
  <1>4. CASE CloseBlock
    BY <1>4, EvidenceFacts
       DEF CloseBlock, GoTo, TypeOK, PositionInv, AnchorInv, Completed, heights, Representable
  <1>5. CASE RequireAnchor
    <2>1. CASE /\ \A p \in Pools : AnchorBalances[p] # Absent
               /\ running' = AnchorBalances
               /\ GoTo("accumulate", ev.start)
               /\ UNCHANGED <<sum, ledger, cumulative, flow, expected>>
      <3>1. \A p \in Pools : ev.anchor.balance[p] \in Money
        BY <2>1, <1>5 DEF RequireAnchor, AnchorInv, Representable, AnchorBalances, Narrows
      <3>2. running' \in [Pools -> Money]
        BY <3>1, <2>1, EvidenceAssumption DEF AnchorBalances, Record
      <3> QED
        BY <3>1, <3>2, <2>1, <1>5, EvidenceFacts
           DEF RequireAnchor, GoTo, TypeOK, PositionInv, AnchorInv, Completed, heights, Representable
    <2> QED
      BY <1>5, <1>e, <2>1 DEF RequireAnchor
  <1>6. CASE Accumulate
    <2> DEFINE next == [p \in Pools |-> running[p] + ledger[at][p]]
    <2>1. CASE /\ \A p \in Pools : Narrows(next[p])
               /\ running' = next
               /\ expected' = [expected EXCEPT ![at] = next]
               /\ cumulative' = [p \in Pools |-> cumulative[p] + ledger[at][p]]
               /\ flow' = [p \in Pools |-> flow[p] + Flowing(p, ledger[at][p])]
               /\ IF at < ev.end THEN GoTo("accumulate", at + 1) ELSE GoTo("totals", at)
               /\ UNCHANGED <<sum, ledger>>
      <3>1. next \in [Pools -> Money]
        BY <2>1 DEF Narrows
      <3>2. \A p \in Pools : ledger[at][p] \in Int
        BY <1>6, Constants DEF Accumulate, TypeOK, PositionInv
      <3>3. \A p \in Pools : Flowing(p, ledger[at][p]) \in Nat
        BY <3>2 DEF Flowing
      <3>4. cumulative' \in [Pools -> Int] /\ flow' \in [Pools -> Nat]
        BY <3>2, <3>3, <2>1 DEF TypeOK
      <3>5. running' \in [Pools -> Money] /\ expected' \in [heights -> [Pools -> Money]]
        BY <3>1, <2>1 DEF TypeOK
      <3> QED
        BY <3>4, <3>5, <2>1, <1>6, EvidenceFacts
           DEF Accumulate, GoTo, TypeOK, PositionInv, AnchorInv, Completed, heights, Representable
    <2> QED
      BY <1>6, <1>e, <2>1 DEF Accumulate
  <1>7. CASE NarrowTotals
    <2>1. CASE GoTo("judge", at) /\ UNCHANGED totals
      BY <2>1, <1>7 DEF NarrowTotals, GoTo, totals, TypeOK, PositionInv, AnchorInv, Completed, heights, Representable
    <2> QED
      BY <1>7, <1>e, <2>1 DEF NarrowTotals
  <1>8. CASE Judge
    BY <1>8, ConcludeWellFormed DEF Judge, Overall, Verdicts
  <1>9. CASE UNCHANGED vars
    BY <1>9 DEF vars, position, totals, TypeOK, PositionInv, AnchorInv, Completed, heights, Representable
  <1> QED
    BY <1>1, <1>2, <1>3, <1>4, <1>5, <1>6, <1>7, <1>8, <1>9 DEF Next, Reckon

\* Type correctness: a balance or a total outside its range is never stored
\* (zatoshi.rs, interval.rs).
THEOREM TypeCorrect == Spec => []TypeOK
  <1>1. WellFormed => TypeOK
    BY DEF WellFormed
  <1> QED
    BY <1>1, InitWellFormed, StepWellFormed, PTL DEF Spec

-----------------------------------------------------------------------------
\* Each reconstructed balance is one delta away from the one before.
RunningInv == phase = "accumulate" => \A p \in Pools : running[p] = Preceding(at, p)
StepInv == \A h \in Reckoned, p \in Pools : expected[h][p] = Preceding(h, p) + ledger[h][p]

SameBalance(h, p) == expected[h][p] = ev.records[h].balance[p]
SameDelta(h, p) == ledger[h][p] = ev.records[h].delta[p]

\* The telescoping, as far as the walk has come.
AxesInv ==
  NodeDerivesDeltas =>
    \A p \in Pools, h \in Reckoned :
      (\A k \in ev.start .. h : SameBalance(k, p)) <=> (\A k \in ev.start .. h : SameDelta(k, p))

Telescoped == RunningInv /\ StepInv /\ AxesInv

\* The figures stay, and so does what is known of them.
LEMMA FiguresStay ==
  ASSUME WellFormed, Telescoped, UNCHANGED <<ev, ledger, expected>>,
         Reckoned' = Reckoned, phase' # "accumulate"
  PROVE  Telescoped'
  <1>1. \A h, p : Preceding(h, p)' = Preceding(h, p)
    BY DEF Preceding
  <1>2. NodeDerivesDeltas' = NodeDerivesDeltas
    BY DEF NodeDerivesDeltas, Before, heights
  <1> QED
    BY <1>1, <1>2 DEF Telescoped, RunningInv, StepInv, AxesInv, SameBalance, SameDelta

LEMMA ErrorTelescoped ==
  ASSUME NEW v \in {"unsupported", "foreign", "unrepresentable", "incomplete"}, Conclude(v)
  PROVE  Telescoped'
  <1>1. Reckoned' = {} /\ phase' # "accumulate"
    BY DEF Conclude, Reckoned, Completed, heights
  <1> QED
    BY <1>1 DEF Telescoped, RunningInv, StepInv, AxesInv

\* The one step that reckons: the height joins those before it on both axes or
\* on neither.
LEMMA AccumulateTelescopes ==
  ASSUME WellFormed, Telescoped, Accumulate
  PROVE  Telescoped'
  <1> DEFINE next == [p \in Pools |-> running[p] + ledger[at][p]]
  <1>e. CASE Conclude("unrepresentable")
    BY <1>e, ErrorTelescoped
  <1>1. CASE /\ running' = next
             /\ expected' = [expected EXCEPT ![at] = next]
             /\ IF at < ev.end THEN GoTo("accumulate", at + 1) ELSE GoTo("totals", at)
             /\ UNCHANGED <<sum, ledger>>
    <2>1. ev' = ev /\ ledger' = ledger /\ heights' = heights /\ verdict = "pending" /\ verdict' = verdict
      BY <1>1 DEF GoTo, heights, WellFormed, PositionInv, Accumulate
    <2>2. /\ ev.start \in Nat \ {0} /\ ev.end \in Nat /\ ev.start <= ev.end
          /\ heights = ev.start .. ev.end /\ at \in heights /\ at \in Nat
      BY EvidenceFacts DEF WellFormed, PositionInv, Accumulate, heights
    <2>3. Reckoned = ev.start .. (at - 1)
      BY <2>1, <2>2 DEF Reckoned, Completed, Accumulate
    <2>4. Reckoned' = ev.start .. at
      <3>1. CASE at < ev.end
        BY <1>1, <2>1, <2>2, <3>1 DEF Reckoned, Completed, GoTo
      <3>2. CASE ~ (at < ev.end)
        BY <1>1, <2>1, <2>2, <3>2 DEF Reckoned, Completed, GoTo
      <3> QED
        BY <3>1, <3>2
    <2>5. \A h \in Reckoned : expected'[h] = expected[h]
      BY <1>1, <2>2, <2>3 DEF WellFormed, TypeOK
    <2>6. \A p \in Pools : expected'[at][p] = running[p] + ledger[at][p]
      BY <1>1, <2>2 DEF WellFormed, TypeOK
    <2>7. \A h \in ev.start .. at, p \in Pools : Preceding(h, p)' = Preceding(h, p)
      BY <2>1, <2>2, <2>3, <2>5 DEF Preceding
    <2>8. RunningInv'
      <3>1. CASE at < ev.end
        <4>1. at' = at + 1 /\ at' # ev.start
          BY <1>1, <2>2, <3>1 DEF GoTo
        <4>2. at' - 1 = at
          BY <4>1, <2>2
        <4>3. \A p \in Pools : running'[p] = expected'[at][p]
          BY <1>1, <2>6
        <4> QED
          BY <4>1, <4>2, <4>3, <2>1 DEF RunningInv, Preceding
      <3>2. CASE ~ (at < ev.end)
        BY <1>1, <3>2 DEF RunningInv, GoTo
      <3> QED
        BY <3>1, <3>2
    <2>9. StepInv'
      <3> SUFFICES ASSUME NEW h \in ev.start .. at, NEW p \in Pools
                   PROVE  expected'[h][p] = Preceding(h, p) + ledger[h][p]
        BY <2>1, <2>4, <2>7 DEF StepInv
      <3>1. CASE h = at
        BY <3>1, <2>6 DEF Telescoped, RunningInv, Accumulate
      <3>2. CASE h # at
        BY <3>2, <2>2, <2>3, <2>5 DEF Telescoped, StepInv
      <3> QED
        BY <3>1, <3>2
    <2>10. AxesInv'
      <3>1. NodeDerivesDeltas' = NodeDerivesDeltas
        BY <2>1 DEF NodeDerivesDeltas, Before, heights
      <3> SUFFICES ASSUME NodeDerivesDeltas, NEW p \in Pools, NEW h \in ev.start .. at
                   PROVE  (\A k \in ev.start .. h : expected'[k][p] = ev.records[k].balance[p])
                            <=> (\A k \in ev.start .. h : SameDelta(k, p))
        BY <3>1, <2>1, <2>4 DEF AxesInv, SameBalance, SameDelta
      <3>2. \A k \in ev.start .. (at - 1) : expected'[k][p] = expected[k][p]
        BY <2>3, <2>5
      <3>3. \A j \in ev.start .. (at - 1) :
              (\A k \in ev.start .. j : SameBalance(k, p)) <=> (\A k \in ev.start .. j : SameDelta(k, p))
        BY <2>3 DEF Telescoped, AxesInv
      <3>4. CASE h # at
        <4>1. h \in ev.start .. (at - 1) /\ ev.start .. h \subseteq ev.start .. (at - 1)
          BY <3>4, <2>2
        <4> QED
          BY <4>1, <3>2, <3>3 DEF SameBalance
      <3>5. CASE h = at
        <4>1. expected'[at][p] = Preceding(at, p) + ledger[at][p]
          BY <2>6 DEF Telescoped, RunningInv, Accumulate
        <4>2. ev.records[at].delta[p] = ev.records[at].balance[p] - Before(at, p)
          BY <2>2 DEF NodeDerivesDeltas
        <4>r. \A f \in Figure : f # Absent => f \in Int
          BY Constants DEF Figure
        <4>3. ev.records[at].balance[p] \in Int
          <5>1. ev.records[at].balance[p] \in Figure
            BY <2>2, EvidenceFacts DEF WellFormed
          <5> QED
            BY <5>1, <4>r, <2>2 DEF NodeDerivesDeltas
        <4>l. ledger[at][p] \in Int
          <5>1. at \in heights
            BY <2>2
          <5>2. \A k \in heights : ledger[k][p] \in Long
            BY DEF WellFormed, TypeOK
          <5> QED
            BY <5>1, <5>2, Constants
        <4>4. Preceding(at, p) \in Int
          <5>1. ev.anchor.balance[p] \in Int
            <6>1. ev.anchor.balance[p] \in Figure
              BY EvidenceFacts DEF WellFormed
            <6> QED
              BY <6>1, <4>r DEF NodeDerivesDeltas
          <5>2. at # ev.start => at - 1 \in heights
            BY <2>2
          <5>3. \A k \in heights : expected[k][p] \in Int
            BY Constants DEF WellFormed, TypeOK
          <5> QED
            BY <5>1, <5>2, <5>3 DEF Preceding
        <4>5. Preceding(at, p) = Before(at, p) =>
                (expected'[at][p] = ev.records[at].balance[p] <=> SameDelta(at, p))
          BY <4>1, <4>2, <4>3, <4>l, <4>4 DEF SameDelta
        <4>6. CASE at = ev.start
          <5>1. Preceding(at, p) = Before(at, p)
            BY <4>6 DEF Preceding, Before
          <5>2. ev.start .. h = {at}
            BY <3>5, <4>6, <2>2
          <5>3. (\A k \in ev.start .. h : expected'[k][p] = ev.records[k].balance[p])
                  <=> expected'[at][p] = ev.records[at].balance[p]
            BY <5>2
          <5>4. (\A k \in ev.start .. h : SameDelta(k, p)) <=> SameDelta(at, p)
            BY <5>2
          <5> QED
            BY <5>1, <5>3, <5>4, <4>5
        <4>7. CASE at # ev.start
          <5>1. at - 1 \in ev.start .. (at - 1) /\ ev.start .. h = (ev.start .. (at - 1)) \cup {at}
            BY <3>5, <4>7, <2>2
          <5>2. (\A k \in ev.start .. (at - 1) : SameBalance(k, p)) => Preceding(at, p) = Before(at, p)
            BY <5>1, <4>7 DEF Preceding, Before, SameBalance
          <5>3. (\A k \in ev.start .. (at - 1) : SameBalance(k, p))
                  <=> (\A k \in ev.start .. (at - 1) : SameDelta(k, p))
            BY <5>1, <3>3
          <5> QED
            BY <5>1, <5>2, <5>3, <4>5, <3>2 DEF SameBalance
        <4> QED
          BY <4>6, <4>7
      <3> QED
        BY <3>4, <3>5
    <2> QED
      BY <2>8, <2>9, <2>10 DEF Telescoped
  <1> QED
    BY <1>e, <1>1 DEF Accumulate

LEMMA StepTelescopes == WellFormed /\ WellFormed' /\ Telescoped /\ [Next]_vars => Telescoped'
  <1> SUFFICES ASSUME WellFormed, WellFormed', Telescoped, [Next]_vars PROVE Telescoped'
    OBVIOUS
  <1>e. \A v \in {"unsupported", "foreign", "unrepresentable", "incomplete"} : Conclude(v) => Telescoped'
    BY ErrorTelescoped
  <1>n. Reckoned' = {} /\ phase' # "accumulate" => Telescoped'
    BY DEF Telescoped, RunningInv, StepInv, AxesInv
  <1>1. CASE ReadAnchor
    <2>1. CASE GoTo("read", ev.start)
      BY <2>1, <1>1, <1>n DEF ReadAnchor, GoTo, Reckoned, Completed, WellFormed, PositionInv
    <2> QED
      BY <1>1, <1>e, <2>1 DEF ReadAnchor
  <1>2. CASE ReadBlock
    <2>1. CASE GoTo("sum", at)
      BY <2>1, <1>2, <1>n DEF ReadBlock, GoTo, Reckoned, Completed, WellFormed, PositionInv
    <2> QED
      BY <1>2, <1>e, <2>1 DEF ReadBlock
  <1>3. CASE SumTransaction
    <2>1. CASE UNCHANGED <<phase, verdict>>
      BY <2>1, <1>3, <1>n DEF SumTransaction, Reckoned, Completed, WellFormed, PositionInv
    <2> QED
      BY <1>3, <1>e, <2>1 DEF SumTransaction
  <1>4. CASE CloseBlock
    BY <1>4, <1>n DEF CloseBlock, GoTo, Reckoned, Completed, WellFormed, PositionInv
  <1>5. CASE RequireAnchor
    <2>1. CASE running' = AnchorBalances /\ GoTo("accumulate", ev.start)
      <3>1. Reckoned' = {}
        BY <2>1, <1>5, EvidenceFacts DEF RequireAnchor, GoTo, Reckoned, Completed, heights, WellFormed, PositionInv
      <3>2. RunningInv'
        BY <2>1 DEF RunningInv, Preceding, AnchorBalances, GoTo
      <3> QED
        BY <3>1, <3>2 DEF Telescoped, StepInv, AxesInv
    <2> QED
      BY <1>5, <1>e, <2>1 DEF RequireAnchor
  <1>6. CASE Accumulate
    BY <1>6, AccumulateTelescopes
  <1>7. CASE NarrowTotals
    <2>1. CASE GoTo("judge", at) /\ UNCHANGED totals
      BY <2>1, <1>7, FiguresStay DEF NarrowTotals, GoTo, totals, Reckoned, Completed, heights
    <2> QED
      BY <1>7, <1>e, <2>1 DEF NarrowTotals
  <1>8. CASE Judge
    <2>1. Reckoned' = Reckoned /\ phase' # "accumulate" /\ UNCHANGED <<ev, ledger, expected>>
      BY <1>8 DEF Judge, Conclude, Overall, Reckoned, Completed, heights, totals
    <2> QED
      BY <2>1, FiguresStay
  <1>9. CASE UNCHANGED vars
    <2>1. /\ \A h, p : Preceding(h, p)' = Preceding(h, p)
          /\ Reckoned' = Reckoned /\ NodeDerivesDeltas' = NodeDerivesDeltas
      BY <1>9 DEF vars, position, totals, Preceding, Reckoned, Completed, heights, NodeDerivesDeltas, Before
    <2> QED
      BY <2>1, <1>9 DEF vars, position, totals, Telescoped, RunningInv, StepInv, AxesInv, SameBalance, SameDelta
  <1> QED
    BY <1>1, <1>2, <1>3, <1>4, <1>5, <1>6, <1>7, <1>8, <1>9 DEF Next, Reckon

LEMMA AxesFollow == WellFormed /\ Telescoped => AxesDivergeTogether
  <1> SUFFICES ASSUME WellFormed, Telescoped, Completed, NodeDerivesDeltas, NEW p \in Pools, NEW h \in heights
               PROVE  (\A k \in ev.start .. h : BalanceAgreement(k, p) = "agrees")
                        <=> (\A k \in ev.start .. h : DeltaAgreement(k, p) = "agrees")
    BY DEF AxesDivergeTogether
  <1>1. ev.start .. h \subseteq heights /\ h \in Reckoned
    BY EvidenceFacts DEF WellFormed, heights, Reckoned
  <1>2. \A k \in heights : expected[k][p] \in Int /\ ledger[k][p] \in Int
    BY Constants DEF WellFormed, TypeOK
  <1>3. \A k \in heights : (BalanceAgreement(k, p) = "agrees") <=> SameBalance(k, p)
    BY <1>2, MoneyAssumption DEF BalanceAgreement, Agreement, SameBalance
  <1>4. \A k \in heights : (DeltaAgreement(k, p) = "agrees") <=> SameDelta(k, p)
    BY <1>2, MoneyAssumption DEF DeltaAgreement, Agreement, SameDelta
  <1> QED
    BY <1>1, <1>3, <1>4 DEF Telescoped, AxesInv

\* The telescoping the documentation argues: against a node whose deltas are
\* differences of its own balances the two axes agree and diverge together
\* (interval.rs, ACCOUNTING_MODEL.md).
THEOREM AxesAreOneComparison == Spec => []AxesDivergeTogether
  <1>1. Init => Telescoped
    BY DEF Init, Telescoped, RunningInv, StepInv, AxesInv, Reckoned, Completed
  <1> QED
    BY <1>1, InitWellFormed, StepWellFormed, StepTelescopes, AxesFollow, PTL DEF Spec

-----------------------------------------------------------------------------
\* The heights whose block total is in the ledger.
Summed ==
  {h \in heights : phase \in {"balances", "accumulate", "totals", "judge"} \/ Completed
                      \/ (phase \in {"read", "sum"} /\ h < at)}

\* Transactions that add nothing to Orchard sum to a block that adds nothing.
OrchardInv ==
  /\ phase = "sum" /\ (\A i \in 1 .. index : Delta(ev.blocks[at][i], "orchard") <= 0) => sum["orchard"] <= 0
  /\ \A h \in Summed : ~ AddsToOrchard(h) => ledger[h]["orchard"] <= 0

\* What the activation checks have established of an accepted interval.
JudgedInv ==
  verdict \in Accepted =>
    \A h \in heights : IF h >= Activation THEN ~ AddsToOrchard(h) ELSE ledger[h]["ironwood"] = 0

LEMMA ErrorSummed ==
  ASSUME NEW v \in {"unsupported", "foreign", "unrepresentable", "incomplete"}, Conclude(v)
  PROVE  OrchardInv' /\ JudgedInv'
  <1>1. Summed' = {} /\ phase' # "sum" /\ verdict' \notin Accepted
    BY DEF Conclude, Summed, Completed, heights, Accepted
  <1> QED
    BY <1>1 DEF OrchardInv, JudgedInv

LEMMA SumTransactionSigns ==
  ASSUME WellFormed, OrchardInv, SumTransaction
  PROVE  OrchardInv'
  <1>e. CASE Conclude("unrepresentable")
    BY <1>e, ErrorSummed
  <1>1. CASE /\ sum' = [p \in Pools |-> ExactSum(sum[p], Delta(ev.blocks[at][index + 1], p))]
             /\ index' = index + 1
             /\ UNCHANGED <<ev, phase, at, ledger, running, cumulative, flow, expected, verdict>>
    <2>1. index \in Nat /\ at \in heights /\ index < Len(ev.blocks[at]) /\ Len(ev.blocks[at]) \in Nat
      BY EvidenceFacts DEF WellFormed, TypeOK, PositionInv, SumTransaction
    <2>2. sum'["orchard"] = sum["orchard"] + Delta(ev.blocks[at][index + 1], "orchard")
      BY <1>1 DEF Pools, ExactSum
    <2>3. sum["orchard"] \in Int
      BY Constants DEF WellFormed, TypeOK, Pools
    <2>4. Delta(ev.blocks[at][index + 1], "orchard") \in Int
      <3>1. ev.blocks[at][index + 1] \in Transaction
        BY <2>1, EvidenceFacts DEF WellFormed
      <3>2. ev.blocks[at][index + 1].value["orchard"] \in Int
        BY <3>1, Constants DEF Transaction, Pools
      <3> QED
        BY <3>2 DEF Delta
    <2>5. ASSUME \A i \in 1 .. index' : Delta(ev'.blocks[at'][i], "orchard") <= 0
          PROVE  sum'["orchard"] <= 0
      <3>1. \A i \in 1 .. (index + 1) : Delta(ev.blocks[at][i], "orchard") <= 0
        BY <2>5, <1>1
      <3>2. 1 .. index \subseteq 1 .. (index + 1) /\ index + 1 \in 1 .. (index + 1)
        BY <2>1
      <3>3. sum["orchard"] <= 0 /\ Delta(ev.blocks[at][index + 1], "orchard") <= 0
        BY <3>1, <3>2 DEF OrchardInv, SumTransaction
      <3> QED
        BY <3>3, <2>2, <2>3, <2>4
    <2>6. Summed' = Summed /\ \A h : AddsToOrchard(h)' = AddsToOrchard(h)
      BY <1>1 DEF Summed, Completed, heights, AddsToOrchard
    <2> QED
      BY <2>5, <2>6, <1>1 DEF OrchardInv, Delta
  <1> QED
    BY <1>e, <1>1 DEF SumTransaction

LEMMA CloseBlockSigns ==
  ASSUME WellFormed, OrchardInv, CloseBlock
  PROVE  OrchardInv'
  <1>1. /\ at \in heights /\ at \in Nat /\ heights = ev.start .. ev.end /\ ev.start \in Nat /\ ev.end \in Nat
        /\ index = Len(ev.blocks[at]) /\ ev.blocks[at] \in Seq(Transaction)
    BY EvidenceFacts DEF WellFormed, PositionInv, CloseBlock, heights
  <1>2. /\ ev' = ev /\ heights' = heights /\ verdict = "pending" /\ verdict' = "pending" /\ phase' # "sum"
        /\ ledger' = [ledger EXCEPT ![at] = sum]
    BY DEF CloseBlock, GoTo, heights, WellFormed, PositionInv
  <1>3. Summed = ev.start .. (at - 1)
    BY <1>1, <1>2 DEF Summed, Completed, CloseBlock
  <1>4. Summed' \subseteq ev.start .. at
    <2>1. CASE at < ev.end
      BY <1>1, <1>2, <2>1 DEF Summed, Completed, CloseBlock, GoTo
    <2>2. CASE ~ (at < ev.end)
      BY <1>1, <1>2, <2>2 DEF Summed
    <2> QED
      BY <2>1, <2>2
  <1>5. ~ AddsToOrchard(at) => sum["orchard"] <= 0
    <2> SUFFICES ASSUME ~ AddsToOrchard(at) PROVE \A i \in 1 .. index : Delta(ev.blocks[at][i], "orchard") <= 0
      BY DEF OrchardInv, CloseBlock
    <2> TAKE i \in 1 .. index
    <2>1. i \in DOMAIN ev.blocks[at] /\ ev.blocks[at][i] \in Transaction
      BY <1>1
    <2>2. ev.blocks[at][i].value["orchard"] \in Int
      BY <2>1, Constants DEF Transaction, Pools
    <2> QED
      BY <2>1, <2>2 DEF AddsToOrchard, Delta
  <1>6. ASSUME NEW h \in Summed', ~ AddsToOrchard(h)'
        PROVE  ledger'[h]["orchard"] <= 0
    <2>1. ~ AddsToOrchard(h)
      BY <1>6, <1>2 DEF AddsToOrchard
    <2>2. CASE h = at
      BY <2>1, <2>2, <1>1, <1>2, <1>5 DEF WellFormed, TypeOK
    <2>3. CASE h # at
      <3>1. h \in Summed /\ h \in heights
        BY <2>3, <1>1, <1>3, <1>4, <1>6
      <3>2. ledger'[h] = ledger[h]
        BY <3>1, <2>3, <1>2 DEF WellFormed, TypeOK
      <3> QED
        BY <3>1, <3>2, <2>1 DEF OrchardInv
    <2> QED
      BY <2>2, <2>3
  <1> QED
    BY <1>2, <1>6 DEF OrchardInv

\* The verdict is drawn from all the checks, so none of them failed.
LEMMA JudgeEstablishes ==
  ASSUME WellFormed, Judge
  PROVE  JudgedInv'
  <1>1. Overall(Registry) \in Accepted => WithdrawalOnly.status # "fail" /\ NoIronwoodBefore.status # "fail"
    <2>1. WithdrawalOnly \in Registry /\ NoIronwoodBefore \in Registry
      BY DEF Registry, ActivationChecks
    <2> QED
      BY <2>1 DEF Overall, Accepted
  <1>2. WithdrawalOnly.status # "fail" => \A h \in heights : h >= Activation => ~ AddsToOrchard(h)
    BY DEF WithdrawalOnly, Check, Condition, IsPostActivation
  <1>3. NoIronwoodBefore.status # "fail" => \A h \in heights : ~ (h >= Activation) => ledger[h]["ironwood"] = 0
    BY DEF NoIronwoodBefore, Check, Condition, IsPostActivation
  <1>4. verdict' = Overall(Registry) /\ UNCHANGED <<ev, ledger>>
    BY DEF Judge, Conclude, totals
  <1> QED
    BY <1>1, <1>2, <1>3, <1>4 DEF JudgedInv, heights, AddsToOrchard

LEMMA StepSummed ==
  WellFormed /\ OrchardInv /\ JudgedInv /\ [Next]_vars => OrchardInv' /\ JudgedInv'
  <1> SUFFICES ASSUME WellFormed, OrchardInv, JudgedInv, [Next]_vars PROVE OrchardInv' /\ JudgedInv'
    OBVIOUS
  <1>e. \A v \in {"unsupported", "foreign", "unrepresentable", "incomplete"} : Conclude(v) => OrchardInv' /\ JudgedInv'
    BY ErrorSummed
  <1>p. verdict' = "pending" => JudgedInv'
    BY DEF JudgedInv, Accepted
  \* The block totals stay, and so does what is known of them.
  <1>s. UNCHANGED <<ev, ledger>> /\ Summed' \subseteq Summed /\ phase' # "sum" => OrchardInv'
    BY DEF OrchardInv, AddsToOrchard
  <1>1. CASE ReadAnchor
    <2>1. CASE GoTo("read", ev.start) /\ UNCHANGED totals
      <3>1. Summed' = {}
        BY <2>1, <1>1, EvidenceFacts DEF ReadAnchor, GoTo, Summed, Completed, heights, WellFormed, PositionInv
      <3> QED
        BY <3>1, <2>1, <1>1, <1>p DEF ReadAnchor, GoTo, OrchardInv, WellFormed, PositionInv
    <2> QED
      BY <1>1, <1>e, <2>1 DEF ReadAnchor
  <1>2. CASE ReadBlock
    <2>1. CASE GoTo("sum", at) /\ sum' = Nothing /\ UNCHANGED <<ledger, running, cumulative, flow, expected>>
      <3>1. Summed' = Summed /\ \A h : AddsToOrchard(h)' = AddsToOrchard(h)
        BY <2>1, <1>2 DEF ReadBlock, GoTo, Summed, Completed, heights, AddsToOrchard
      <3>2. sum'["orchard"] <= 0
        BY <2>1 DEF Nothing, Pools
      <3> QED
        BY <3>1, <3>2, <2>1, <1>2, <1>p DEF ReadBlock, GoTo, OrchardInv, WellFormed, PositionInv
    <2> QED
      BY <1>2, <1>e, <2>1 DEF ReadBlock
  <1>3. CASE SumTransaction
    <2>1. CASE UNCHANGED verdict
      BY <2>1, <1>3, <1>p, SumTransactionSigns DEF SumTransaction, WellFormed, PositionInv
    <2> QED
      BY <1>3, <1>e, <2>1 DEF SumTransaction
  <1>4. CASE CloseBlock
    BY <1>4, <1>p, CloseBlockSigns DEF CloseBlock, GoTo, WellFormed, PositionInv
  <1>5. CASE RequireAnchor
    <2>1. CASE GoTo("accumulate", ev.start) /\ UNCHANGED ledger
      BY <2>1, <1>5, <1>p, <1>s DEF RequireAnchor, GoTo, Summed, Completed, heights, WellFormed, PositionInv
    <2> QED
      BY <1>5, <1>e, <2>1 DEF RequireAnchor
  <1>6. CASE Accumulate
    <2>1. CASE (IF at < ev.end THEN GoTo("accumulate", at + 1) ELSE GoTo("totals", at)) /\ UNCHANGED ledger
      BY <2>1, <1>6, <1>p, <1>s DEF Accumulate, GoTo, Summed, Completed, heights, WellFormed, PositionInv
    <2> QED
      BY <1>6, <1>e, <2>1 DEF Accumulate
  <1>7. CASE NarrowTotals
    <2>1. CASE GoTo("judge", at) /\ UNCHANGED totals
      BY <2>1, <1>7, <1>p, <1>s DEF NarrowTotals, GoTo, totals, Summed, Completed, heights, WellFormed, PositionInv
    <2> QED
      BY <1>7, <1>e, <2>1 DEF NarrowTotals
  <1>8. CASE Judge
    <2>1. OrchardInv'
      BY <1>8, <1>s DEF Judge, Conclude, totals, Summed, Completed, heights
    <2> QED
      BY <2>1, <1>8, JudgeEstablishes
  <1>9. CASE UNCHANGED vars
    <2>1. Summed' = Summed /\ heights' = heights /\ \A h : AddsToOrchard(h)' = AddsToOrchard(h)
      BY <1>9 DEF vars, position, totals, Summed, Completed, heights, AddsToOrchard
    <2> QED
      BY <2>1, <1>9 DEF vars, position, totals, OrchardInv, JudgedInv
  <1> QED
    BY <1>1, <1>2, <1>3, <1>4, <1>5, <1>6, <1>7, <1>8, <1>9 DEF Next, Reckon

LEMMA PoolsFollow == WellFormed /\ Telescoped /\ OrchardInv /\ JudgedInv => PoolsFollowActivation
  <1> SUFFICES ASSUME WellFormed, Telescoped, OrchardInv, JudgedInv, verdict \in Accepted, NEW h \in heights
               PROVE  IF h >= Activation THEN expected[h]["orchard"] <= Preceding(h, "orchard")
                      ELSE expected[h]["ironwood"] = Preceding(h, "ironwood")
    BY DEF PoolsFollowActivation
  <1>1. h \in Reckoned /\ h \in Summed
    BY DEF Reckoned, Summed, Completed, Accepted
  <1>2. \A p \in Pools : expected[h][p] = Preceding(h, p) + ledger[h][p]
    BY <1>1 DEF Telescoped, StepInv
  <1>3. \A p \in Pools : ledger[h][p] \in Int
    BY Constants DEF WellFormed, TypeOK
  <1>4. \A p \in Pools : Preceding(h, p) \in Int
    <2> TAKE p \in Pools
    <2>1. ev.anchor.balance[p] \in Int
      BY Constants DEF WellFormed, AnchorInv, Completed, Accepted
    <2>2. h # ev.start => h - 1 \in heights
      BY EvidenceFacts DEF WellFormed, heights
    <2>3. \A k \in heights : expected[k][p] \in Int
      BY Constants DEF WellFormed, TypeOK
    <2> QED
      BY <2>1, <2>2, <2>3 DEF Preceding
  <1>5. CASE h >= Activation
    <2>1. ledger[h]["orchard"] <= 0
      BY <1>1, <1>5 DEF OrchardInv, JudgedInv
    <2> QED
      BY <2>1, <1>2, <1>3, <1>4, <1>5 DEF Pools
  <1>6. CASE ~ (h >= Activation)
    <2>1. ledger[h]["ironwood"] = 0
      BY <1>6 DEF JudgedInv
    <2> QED
      BY <2>1, <1>2, <1>3, <1>4, <1>6 DEF Pools
  <1> QED
    BY <1>5, <1>6

\* In every accepted interval, of any length, the Orchard balance only shrinks
\* from activation on and Ironwood stands still below it: the rule checked per
\* transaction carries over to the balances (activation.rs).
THEOREM ActivationIsFollowed == Spec => []PoolsFollowActivation
  <1>1. Init => Telescoped
    BY DEF Init, Telescoped, RunningInv, StepInv, AxesInv, Reckoned, Completed
  <1>2. Init => OrchardInv /\ JudgedInv
    BY DEF Init, OrchardInv, JudgedInv, Summed, Completed, Accepted
  <1> QED
    BY <1>1, <1>2, InitWellFormed, StepWellFormed, StepTelescopes, StepSummed, PoolsFollow, PTL DEF Spec

-----------------------------------------------------------------------------
\* The sums over a block and over the interval are sums of integers.
LEMMA GainsFacts ==
  ASSUME WellFormed, NEW h \in heights, NEW p \in Pools
  PROVE  /\ DOMAIN Gains(h, p) = 1 .. Len(ev.blocks[h])
         /\ \A i \in 1 .. Len(ev.blocks[h]) :
              Gains(h, p)[i] = Delta(ev.blocks[h][i], p) /\ Gains(h, p)[i] \in Int
         /\ BlockTotal(h, p) = SumFunctionOnSet(Gains(h, p), 1 .. Len(ev.blocks[h]))
         /\ BlockTotal(h, p) \in Int
  <1>1. ev.blocks[h] \in Seq(Transaction) /\ Len(ev.blocks[h]) \in Nat
    BY EvidenceFacts DEF WellFormed
  <1>2. DOMAIN Gains(h, p) = 1 .. Len(ev.blocks[h])
    BY <1>1 DEF Gains
  <1>3. ASSUME NEW i \in 1 .. Len(ev.blocks[h])
        PROVE  Gains(h, p)[i] = Delta(ev.blocks[h][i], p) /\ Gains(h, p)[i] \in Int
    <2>1. ev.blocks[h][i] \in Transaction
      BY <1>1
    <2>2. ev.blocks[h][i].value[p] \in Int
      BY <2>1, Constants DEF Transaction
    <2> QED
      BY <2>2, <1>2 DEF Gains, Delta
  <1>4. BlockTotal(h, p) = SumFunctionOnSet(Gains(h, p), 1 .. Len(ev.blocks[h]))
    BY <1>2 DEF BlockTotal, SumFunction
  <1>5. IsFiniteSet(1 .. Len(ev.blocks[h]))
    BY <1>1, FS_Interval
  <1>6. SumFunctionOnSet(Gains(h, p), 1 .. Len(ev.blocks[h])) \in Int
    BY <1>3, <1>5, SumType
  <1> QED
    BY <1>2, <1>3, <1>4, <1>6

LEMMA IntervalFacts ==
  ASSUME WellFormed, NEW p \in Pools
  PROVE  /\ IsFiniteSet(heights)
         /\ \A h \in heights : BlockTotals(p)[h] = BlockTotal(h, p) /\ BlockTotals(p)[h] \in Int
         /\ \A h \in heights : Flows(p)[h] = Flowing(p, BlockTotal(h, p)) /\ Flows(p)[h] \in Int
         /\ GrossFlow(p) = SumFunctionOnSet(Flows(p), heights)
  <1>1. IsFiniteSet(heights)
    <2>1. ev.start \in Int /\ ev.end \in Int
      BY EvidenceFacts DEF WellFormed
    <2>2. IsFiniteSet(ev.start .. ev.end)
      BY <2>1, FS_Interval
    <2> QED
      BY <2>2 DEF heights
  <1>2. \A h \in heights : BlockTotals(p)[h] = BlockTotal(h, p) /\ BlockTotals(p)[h] \in Int
    <2>1. \A h \in heights : BlockTotal(h, p) \in Int
      BY GainsFacts
    <2>2. \A h \in heights : BlockTotals(p)[h] = BlockTotal(h, p)
      BY DEF BlockTotals
    <2> QED BY <2>1, <2>2
  <1>3. ASSUME NEW h \in heights PROVE Flows(p)[h] = Flowing(p, BlockTotal(h, p)) /\ Flows(p)[h] \in Int
    <2>1. BlockTotal(h, p) \in Int
      BY GainsFacts
    <2>2. Flowing(p, BlockTotal(h, p)) \in Int
      BY <2>1 DEF Flowing
    <2> QED
      BY <2>2 DEF Flows
  <1>4. GrossFlow(p) = SumFunctionOnSet(Flows(p), heights)
    BY DEF GrossFlow, SumFunction, Flows
  <1> QED
    BY <1>1, <1>2, <1>3, <1>4

\* The true balance at a height, from the one before it.
LEMMA BalanceGrows ==
  ASSUME WellFormed, NEW h \in heights, NEW p \in Pools, ev.anchor.balance[p] \in Int
  PROVE  /\ TrueBalance(h, p) =
              (IF h = ev.start THEN ev.anchor.balance[p] ELSE TrueBalance(h - 1, p)) + BlockTotal(h, p)
         /\ TrueBalance(h, p) \in Int
  <1>1. /\ ev.start \in Nat /\ ev.end \in Nat /\ heights = ev.start .. ev.end
        /\ h \in Nat /\ ev.start <= h /\ h <= ev.end
    BY EvidenceFacts DEF WellFormed, heights
  <1> DEFINE f == BlockTotals(p)
  <1>2. \A k \in heights : f[k] = BlockTotal(k, p) /\ f[k] \in Int
    BY IntervalFacts
  <1> HIDE DEF f
  <1>3. SumFunctionOnSet(f, ev.start .. h) = f[h] + SumFunctionOnSet(f, ev.start .. h - 1)
    <2> DEFINE n == h - 1
    <2>1. n \in Int /\ ev.start \in Int /\ ev.start <= n + 1 /\ n + 1 = h
      BY <1>1
    <2>2. \A i \in ev.start .. n + 1 : f[i] \in Int
      BY <1>1, <1>2
    <2> HIDE DEF n
    <2>3. SumFunctionOnSet(f, ev.start .. n + 1) = f[n + 1] + SumFunctionOnSet(f, ev.start .. n)
      BY <2>1, <2>2, SumUpTo
    <2> QED
      BY <2>1, <2>3 DEF n
  <1>4. IsFiniteSet(ev.start .. h - 1) /\ \A k \in ev.start .. h - 1 : f[k] \in Int
    <2>1. h - 1 \in Int /\ ev.start \in Int
      BY <1>1
    <2>2. IsFiniteSet(ev.start .. h - 1)
      BY <2>1, FS_Interval
    <2>3. \A k \in ev.start .. h - 1 : k \in heights
      BY <1>1
    <2> QED
      BY <1>2, <2>2, <2>3
  <1>5. SumFunctionOnSet(f, ev.start .. h - 1) \in Int
    <2> DEFINE S == ev.start .. h - 1
    <2> HIDE DEF S
    <2>1. IsFiniteSet(S) /\ \A k \in S : f[k] \in Int
      BY <1>4 DEF S
    <2>2. SumFunctionOnSet(f, S) \in Int
      BY <2>1, SumType
    <2> QED
      BY <2>2 DEF S
  <1>6. h = ev.start => SumFunctionOnSet(f, ev.start .. h - 1) = 0
    <2>1. h = ev.start => ev.start .. h - 1 = {}
      BY <1>1
    <2> QED
      BY <2>1, SumEmpty
  <1>7. f[h] = BlockTotal(h, p) /\ f[h] \in Int
    BY <1>2
  <1>8. \A k : TrueBalance(k, p) = ev.anchor.balance[p] + SumFunctionOnSet(f, ev.start .. k)
    BY DEF TrueBalance, f
  <1>9. TrueBalance(h, p) = ev.anchor.balance[p] + (BlockTotal(h, p) + SumFunctionOnSet(f, ev.start .. h - 1))
    BY <1>3, <1>7, <1>8
  <1>10. TrueBalance(h - 1, p) = ev.anchor.balance[p] + SumFunctionOnSet(f, ev.start .. h - 1)
    BY <1>8
  <1> QED
    BY <1>5, <1>6, <1>7, <1>9, <1>10

-----------------------------------------------------------------------------
\* What has been summed of a block is the sum of its first transactions.
LedgerInv ==
  /\ phase = "sum" => \A p \in Pools : sum[p] = SumFunctionOnSet(Gains(at, p), 1 .. index)
  /\ \A h \in Summed, p \in Pools : ledger[h][p] = BlockTotal(h, p)

\* The sums depend on the evidence only.
LEMMA SumsStay ==
  ASSUME ev' = ev
  PROVE  /\ heights' = heights
         /\ \A h, p : Gains(h, p)' = Gains(h, p) /\ BlockTotal(h, p)' = BlockTotal(h, p)
         /\ \A p : BlockTotals(p)' = BlockTotals(p) /\ Flows(p)' = Flows(p) /\ GrossFlow(p)' = GrossFlow(p)
         /\ \A h, p : TrueBalance(h, p)' = TrueBalance(h, p)
  BY DEF heights, Gains, BlockTotal, BlockTotals, Flows, GrossFlow, TrueBalance

LEMMA ErrorSums ==
  ASSUME NEW v \in {"unsupported", "foreign", "unrepresentable", "incomplete"}, Conclude(v)
  PROVE  LedgerInv'
  <1>1. Summed' = {} /\ phase' # "sum"
    BY DEF Conclude, Summed, Completed, heights
  <1> QED
    BY <1>1 DEF LedgerInv

LEMMA SumTransactionSums ==
  ASSUME WellFormed, LedgerInv, SumTransaction
  PROVE  LedgerInv'
  <1>e. CASE Conclude("unrepresentable")
    BY <1>e, ErrorSums
  <1>1. CASE /\ sum' = [p \in Pools |-> ExactSum(sum[p], Delta(ev.blocks[at][index + 1], p))]
             /\ index' = index + 1
             /\ UNCHANGED <<ev, phase, at, ledger, running, cumulative, flow, expected, verdict>>
    <2>1. index \in Nat /\ at \in heights /\ index < Len(ev.blocks[at]) /\ Len(ev.blocks[at]) \in Nat
      BY EvidenceFacts DEF WellFormed, TypeOK, PositionInv, SumTransaction
    <2>2. ASSUME NEW p \in Pools
          PROVE  sum'[p] = SumFunctionOnSet(Gains(at, p), 1 .. index + 1)
      <3> DEFINE f == Gains(at, p)
      <3>1. \A i \in 1 .. Len(ev.blocks[at]) : f[i] = Delta(ev.blocks[at][i], p) /\ f[i] \in Int
        BY <2>1, GainsFacts
      <3>2. sum[p] = SumFunctionOnSet(f, 1 .. index)
        BY DEF LedgerInv, SumTransaction
      <3> HIDE DEF f
      <3>3. index + 1 \in 1 .. Len(ev.blocks[at]) /\ \A i \in 1 .. index + 1 : f[i] \in Int
        BY <2>1, <3>1
      <3>4. SumFunctionOnSet(f, 1 .. index + 1) = f[index + 1] + SumFunctionOnSet(f, 1 .. index)
        BY <2>1, <3>3, SumUpTo
      <3>5. sum[p] \in Int
        BY Constants DEF WellFormed, TypeOK
      <3>6. sum'[p] = sum[p] + f[index + 1]
        BY <1>1, <3>1, <3>3 DEF ExactSum
      <3>7. sum'[p] = SumFunctionOnSet(f, 1 .. index + 1)
        BY <3>2, <3>3, <3>4, <3>5, <3>6
      <3> QED
        BY <3>7 DEF f
    <2>3. Summed' = Summed
      BY <1>1 DEF Summed, Completed, heights
    <2> QED
      BY <1>1, <2>2, <2>3, SumsStay DEF LedgerInv
  <1> QED
    BY <1>e, <1>1 DEF SumTransaction

LEMMA CloseBlockSums ==
  ASSUME WellFormed, LedgerInv, CloseBlock
  PROVE  LedgerInv'
  <1>1. /\ at \in heights /\ at \in Nat /\ heights = ev.start .. ev.end /\ ev.start \in Nat /\ ev.end \in Nat
        /\ index = Len(ev.blocks[at])
    BY EvidenceFacts DEF WellFormed, PositionInv, CloseBlock, heights
  <1>2. /\ ev' = ev /\ heights' = heights /\ verdict = "pending" /\ verdict' = "pending" /\ phase' # "sum"
        /\ ledger' = [ledger EXCEPT ![at] = sum]
    BY DEF CloseBlock, GoTo, heights, WellFormed, PositionInv
  <1>3. Summed = ev.start .. at - 1
    BY <1>1, <1>2 DEF Summed, Completed, CloseBlock
  <1>4. Summed' \subseteq ev.start .. at
    <2>1. CASE at < ev.end
      BY <1>1, <1>2, <2>1 DEF Summed, Completed, CloseBlock, GoTo
    <2>2. CASE ~ (at < ev.end)
      BY <1>1, <1>2, <2>2 DEF Summed
    <2> QED
      BY <2>1, <2>2
  <1>5. ASSUME NEW h \in Summed', NEW p \in Pools
        PROVE  ledger'[h][p] = BlockTotal(h, p)
    <2>1. CASE h = at
      <3>1. sum[p] = BlockTotal(at, p)
        BY <1>1, GainsFacts DEF LedgerInv, CloseBlock
      <3> QED
        BY <2>1, <3>1, <1>1, <1>2 DEF WellFormed, TypeOK
    <2>2. CASE h # at
      <3>1. h \in Summed /\ h \in heights
        BY <2>2, <1>1, <1>3, <1>4
      <3>2. ledger'[h] = ledger[h]
        BY <3>1, <2>2, <1>2 DEF WellFormed, TypeOK
      <3> QED
        BY <3>1, <3>2 DEF LedgerInv
    <2> QED
      BY <2>1, <2>2
  <1> QED
    BY <1>2, <1>5, SumsStay DEF LedgerInv

LEMMA StepSums == WellFormed /\ LedgerInv /\ [Next]_vars => LedgerInv'
  <1> SUFFICES ASSUME WellFormed, LedgerInv, [Next]_vars PROVE LedgerInv'
    OBVIOUS
  <1>e. \A v \in {"unsupported", "foreign", "unrepresentable", "incomplete"} : Conclude(v) => LedgerInv'
    BY ErrorSums
  \* The block totals stay, and so does what is known of them.
  <1>s. UNCHANGED <<ev, ledger>> /\ Summed' \subseteq Summed /\ phase' # "sum" => LedgerInv'
    BY SumsStay DEF LedgerInv
  <1>1. CASE ReadAnchor
    <2>1. CASE GoTo("read", ev.start) /\ UNCHANGED totals
      <3>1. Summed' = {}
        BY <2>1, <1>1, EvidenceFacts DEF ReadAnchor, GoTo, Summed, Completed, heights, WellFormed, PositionInv
      <3> QED
        BY <3>1, <2>1 DEF GoTo, LedgerInv
    <2> QED
      BY <1>1, <1>e, <2>1 DEF ReadAnchor
  <1>2. CASE ReadBlock
    <2>1. CASE GoTo("sum", at) /\ sum' = Nothing /\ UNCHANGED <<ledger, running, cumulative, flow, expected>>
      <3>1. Summed' = Summed /\ at' = at /\ index' = 0 /\ ev' = ev
        BY <2>1, <1>2 DEF ReadBlock, GoTo, Summed, Completed, heights
      <3>2. \A p \in Pools : sum'[p] = 0
        BY <2>1 DEF Nothing
      <3>3. \A p \in Pools : SumFunctionOnSet(Gains(at, p), 1 .. 0) = 0
        <4>1. 1 .. 0 = {}
          OBVIOUS
        <4> QED
          BY <4>1, SumEmpty
      <3> QED
        BY <3>1, <3>2, <3>3, <2>1, SumsStay DEF LedgerInv
    <2> QED
      BY <1>2, <1>e, <2>1 DEF ReadBlock
  <1>3. CASE SumTransaction
    BY <1>3, SumTransactionSums
  <1>4. CASE CloseBlock
    BY <1>4, CloseBlockSums
  <1>5. CASE RequireAnchor
    <2>1. CASE GoTo("accumulate", ev.start) /\ UNCHANGED ledger
      BY <2>1, <1>5, <1>s DEF RequireAnchor, GoTo, Summed, Completed, heights, WellFormed, PositionInv
    <2> QED
      BY <1>5, <1>e, <2>1 DEF RequireAnchor
  <1>6. CASE Accumulate
    <2>1. CASE (IF at < ev.end THEN GoTo("accumulate", at + 1) ELSE GoTo("totals", at)) /\ UNCHANGED ledger
      BY <2>1, <1>6, <1>s DEF Accumulate, GoTo, Summed, Completed, heights, WellFormed, PositionInv
    <2> QED
      BY <1>6, <1>e, <2>1 DEF Accumulate
  <1>7. CASE NarrowTotals
    <2>1. CASE GoTo("judge", at) /\ UNCHANGED totals
      BY <2>1, <1>7, <1>s DEF NarrowTotals, GoTo, totals, Summed, Completed, heights, WellFormed, PositionInv
    <2> QED
      BY <1>7, <1>e, <2>1 DEF NarrowTotals
  <1>8. CASE Judge
    BY <1>8, <1>s DEF Judge, Conclude, totals, Summed, Completed, heights
  <1>9. CASE UNCHANGED vars
    <2>1. Summed' = Summed /\ ev' = ev
      BY <1>9 DEF vars, position, totals, Summed, Completed, heights
    <2> QED
      BY <2>1, <1>9, SumsStay DEF vars, position, totals, LedgerInv
  <1> QED
    BY <1>1, <1>2, <1>3, <1>4, <1>5, <1>6, <1>7, <1>8, <1>9 DEF Next, Reckon

\* The first height whose balance is not the anchor's and every block's since
\* would follow one whose is.
LEMMA SumsAreBalances == WellFormed /\ Telescoped /\ LedgerInv => BalancesAreExact
  <1> SUFFICES ASSUME WellFormed, Telescoped, LedgerInv, NEW p \in Pools,
                      NEW g \in Reckoned, expected[g][p] # TrueBalance(g, p)
               PROVE  FALSE
    BY DEF BalancesAreExact
  <1> DEFINE Wrong == {h \in Reckoned : expected[h][p] # TrueBalance(h, p)}
  <1>0. heights = ev.start .. ev.end /\ ev.start \in Nat /\ ev.end \in Nat /\ Reckoned \subseteq heights /\ heights \subseteq Nat
    BY EvidenceFacts DEF WellFormed, heights, Reckoned
  <1>1. PICK h \in Wrong : \A k \in Wrong : h <= k
    BY <1>0, LeastNat
  <1>2. h \in Reckoned /\ h \in heights /\ h \in Summed
    BY <1>0 DEF Reckoned, Summed
  <1>3. expected[h][p] = Preceding(h, p) + BlockTotal(h, p)
    BY <1>2 DEF Telescoped, StepInv, LedgerInv
  <1>4. ev.anchor.balance[p] \in Int
    BY <1>2, Constants DEF WellFormed, AnchorInv, Reckoned
  <1>5. TrueBalance(h, p) =
          (IF h = ev.start THEN ev.anchor.balance[p] ELSE TrueBalance(h - 1, p)) + BlockTotal(h, p)
    BY <1>2, <1>4, BalanceGrows
  <1>6. CASE h = ev.start
    BY <1>1, <1>3, <1>5, <1>6 DEF Preceding
  <1>7. CASE h # ev.start
    <2>1. h - 1 \in Reckoned /\ ~ (h <= h - 1)
      BY <1>0, <1>2, <1>7 DEF Reckoned, WellFormed, TypeOK
    <2>2. expected[h - 1][p] = TrueBalance(h - 1, p)
      BY <1>1, <2>1
    <2> QED
      BY <1>1, <1>3, <1>5, <1>7, <2>2 DEF Preceding
  <1> QED
    BY <1>6, <1>7

\* Whatever the evidence, every balance the reconciliation reconstructs is the
\* anchor's and every transaction's since, exactly (interval.rs, ledger.rs).
THEOREM Exactness == Spec => []BalancesAreExact
  <1>1. Init => Telescoped
    BY DEF Init, Telescoped, RunningInv, StepInv, AxesInv, Reckoned, Completed
  <1>2. Init => LedgerInv
    BY DEF Init, LedgerInv, Summed, Completed
  <1> QED
    BY <1>1, <1>2, InitWellFormed, StepWellFormed, StepTelescopes, StepSums, SumsAreBalances, PTL DEF Spec

-----------------------------------------------------------------------------
\* The heights whose block has been decoded.
Decoded ==
  {h \in heights : phase \in {"balances", "accumulate", "totals", "judge"} \/ Completed
                      \/ (phase = "read" /\ h < at) \/ (phase = "sum" /\ h <= at)}

\* No block got past its decoding with a transaction of another branch.
NativeInv == \A h \in Decoded : \A i \in DOMAIN ev.blocks[h] : ev.blocks[h][i].native

LEMMA StepNative == WellFormed /\ NativeInv /\ [Next]_vars => NativeInv'
  <1> SUFFICES ASSUME WellFormed, NativeInv, [Next]_vars PROVE NativeInv'
    OBVIOUS
  <1>e. ASSUME NEW v \in {"unsupported", "foreign", "unrepresentable", "incomplete"}, Conclude(v) PROVE NativeInv'
    <2>1. Decoded' = {}
      BY <1>e DEF Conclude, Decoded, Completed, heights
    <2> QED
      BY <2>1 DEF NativeInv
  <1>s. ev' = ev /\ Decoded' \subseteq Decoded => NativeInv'
    BY DEF NativeInv
  <1>1. CASE ReadAnchor
    <2>1. CASE GoTo("read", ev.start)
      <3>1. Decoded' = {}
        BY <2>1, <1>1, EvidenceFacts DEF ReadAnchor, GoTo, Decoded, Completed, heights, WellFormed, PositionInv
      <3> QED
        BY <3>1 DEF NativeInv
    <2> QED
      BY <1>1, <1>e, <2>1 DEF ReadAnchor
  <1>2. CASE ReadBlock
    <2>1. CASE GoTo("sum", at) /\ \A i \in DOMAIN ev.blocks[at] : ev.blocks[at][i].native
      <3>1. at \in heights /\ at \in Nat /\ heights \subseteq Nat
        BY <1>2, EvidenceFacts DEF ReadBlock, WellFormed, PositionInv, TypeOK
      <3>2. Decoded' \subseteq Decoded \cup {at}
        BY <3>1, <2>1, <1>2 DEF ReadBlock, GoTo, Decoded, Completed, heights
      <3>3. ev' = ev
        BY <2>1 DEF GoTo
      <3> QED
        BY <2>1, <3>2, <3>3 DEF NativeInv
    <2> QED
      BY <1>2, <1>e, <2>1 DEF ReadBlock
  <1>3. CASE SumTransaction
    <2>1. CASE UNCHANGED <<ev, phase, at, verdict>>
      BY <2>1, <1>3, <1>s DEF SumTransaction, Decoded, Completed, heights
    <2> QED
      BY <1>3, <1>e, <2>1 DEF SumTransaction
  <1>4. CASE CloseBlock
    <2>1. /\ at \in heights /\ at \in Nat /\ heights = ev.start .. ev.end /\ ev.start \in Nat /\ ev.end \in Nat
      BY <1>4, EvidenceFacts DEF WellFormed, PositionInv, CloseBlock, heights
    <2>2. Decoded = ev.start .. at
      BY <1>4, <2>1 DEF Decoded, Completed, CloseBlock, WellFormed, PositionInv
    <2>3. Decoded' \subseteq ev.start .. at
      <3>1. CASE at < ev.end
        BY <1>4, <2>1, <3>1 DEF Decoded, Completed, CloseBlock, GoTo, WellFormed, PositionInv, heights
      <3>2. CASE ~ (at < ev.end)
        BY <1>4, <2>1, <3>2 DEF Decoded, CloseBlock, GoTo, heights
      <3> QED
        BY <3>1, <3>2
    <2> QED
      BY <1>4, <1>s, <2>2, <2>3 DEF CloseBlock, GoTo
  <1>5. CASE RequireAnchor
    <2>1. CASE GoTo("accumulate", ev.start)
      BY <2>1, <1>5, <1>s DEF RequireAnchor, GoTo, Decoded, Completed, heights
    <2> QED
      BY <1>5, <1>e, <2>1 DEF RequireAnchor
  <1>6. CASE Accumulate
    <2>1. CASE IF at < ev.end THEN GoTo("accumulate", at + 1) ELSE GoTo("totals", at)
      BY <2>1, <1>6, <1>s DEF Accumulate, GoTo, Decoded, Completed, heights
    <2> QED
      BY <1>6, <1>e, <2>1 DEF Accumulate
  <1>7. CASE NarrowTotals
    <2>1. CASE GoTo("judge", at)
      BY <2>1, <1>7, <1>s DEF NarrowTotals, GoTo, Decoded, Completed, heights
    <2> QED
      BY <1>7, <1>e, <2>1 DEF NarrowTotals
  <1>8. CASE Judge
    BY <1>8, <1>s DEF Judge, Conclude, Decoded, Completed, heights
  <1>9. CASE UNCHANGED vars
    BY <1>9, <1>s DEF vars, position, Decoded, Completed, heights
  <1> QED
    BY <1>1, <1>2, <1>3, <1>4, <1>5, <1>6, <1>7, <1>8, <1>9 DEF Next, Reckon

-----------------------------------------------------------------------------
\* What each check of an accepted interval has established.
LEMMA ChecksPassed ==
  ASSUME \A c \in Registry : c.status # "fail"
  PROVE  /\ ev.linked /\ ev.anchorBlock
         /\ \A p \in Pools : ev.declared.anchor[p] = ev.anchor.balance[p] /\ ev.declared.end[p] = Reported(p)
         /\ PreActivationIronwood \in {0, Absent}
         /\ \A h \in heights : h >= Activation => ~ AddsToOrchard(h)
         /\ \A h \in heights : ~ (h >= Activation) => ledger[h]["ironwood"] = 0
         /\ \A h \in heights, p \in Pools : expected[h][p] >= 0
         /\ BalanceDiffers = {} /\ DeltaDiffers = {}
         /\ \A p \in Pools : Reported(p) = expected[ev.end][p] /\ Reported(p) # Absent
  <1>c. \A id, b : Condition(id, b) \in Registry => b
    BY DEF Condition, Check
  <1>1. ev.linked /\ ev.anchorBlock
    <2>1. Condition("anchor_block_present", ev.anchorBlock) \in Registry
      BY DEF Registry, StructuralChecks
    <2>2. Condition("previous_block_links_valid", ev.linked) \in Registry
      BY DEF Registry, StructuralChecks
    <2> QED
      BY <2>1, <2>2, <1>c
  <1>2. \A p \in Pools : ev.declared.anchor[p] = ev.anchor.balance[p] /\ ev.declared.end[p] = Reported(p)
    <2>1. ManifestAgreement \in Registry
      BY DEF Registry
    <2> QED
      BY <2>1, <1>c DEF ManifestAgreement
  <1>3. PreActivationIronwood \in {0, Absent}
    <2>1. AnchorZero \in Registry
      BY DEF Registry, ActivationChecks
    <2> QED
      BY <2>1, <1>c DEF AnchorZero
  <1>4. \A h \in heights : h >= Activation => ~ AddsToOrchard(h)
    <2>1. WithdrawalOnly \in Registry
      BY DEF Registry, ActivationChecks
    <2> QED
      BY <2>1, <1>c DEF WithdrawalOnly, IsPostActivation
  <1>5. \A h \in heights : ~ (h >= Activation) => ledger[h]["ironwood"] = 0
    <2>1. NoIronwoodBefore \in Registry
      BY DEF Registry, ActivationChecks
    <2> QED
      BY <2>1, <1>c DEF NoIronwoodBefore, IsPostActivation
  <1>6. \A h \in heights, p \in Pools : expected[h][p] >= 0
    <2>1. Condition("no_negative_pool_balance", \A h \in heights, p \in Pools : expected[h][p] >= 0) \in Registry
      BY DEF Registry, AccountingChecks
    <2> QED
      BY <2>1, <1>c
  <1>7. BalanceDiffers = {} /\ DeltaDiffers = {}
    <2>1. Condition("per_height_balances_match", BalanceDiffers = {}) \in Registry
      BY DEF Registry, AccountingChecks
    <2>2. Condition("per_height_deltas_match", DeltaDiffers = {}) \in Registry
      BY DEF Registry, AccountingChecks
    <2> QED
      BY <2>1, <2>2, <1>c
  <1>8. \A p \in Pools : Reported(p) = expected[ev.end][p] /\ Reported(p) # Absent
    <2>1. Condition("orchard_end_balance_matches", Reported("orchard") = expected[ev.end]["orchard"]) \in Registry
      BY DEF Registry, AccountingChecks
    <2>2. Condition("ironwood_end_balance_matches", Reported("ironwood") = expected[ev.end]["ironwood"]) \in Registry
      BY DEF Registry, AccountingChecks
    <2>3. Condition("end_balances_corroborated", \A p \in Pools : Reported(p) # Absent) \in Registry
      BY DEF Registry, AccountingChecks
    <2> QED
      BY <2>1, <2>2, <2>3, <1>c DEF Pools
  <1> QED
    BY <1>1, <1>2, <1>3, <1>4, <1>5, <1>6, <1>7, <1>8

Sound == WellFormed /\ Telescoped /\ LedgerInv /\ NativeInv /\ AcceptedIsAccounted

LEMMA JudgeAccounts ==
  ASSUME Sound, Judge
  PROVE  AcceptedIsAccounted'
  <1>1. verdict' = Overall(Registry) /\ phase = "judge" /\ UNCHANGED <<ev, expected, ledger>>
    BY DEF Judge, Conclude, totals
  <1> SUFFICES ASSUME Overall(Registry) \in Accepted PROVE AcceptedIsAccounted'
    BY <1>1 DEF AcceptedIsAccounted
  <1>2. \A c \in Registry : c.status # "fail"
    BY DEF Overall, Accepted
  <1>3. heights \subseteq Reckoned /\ heights \subseteq Summed /\ heights \subseteq Decoded
    BY <1>1 DEF Reckoned, Summed, Decoded
  <1>4. /\ ev.start \in Nat \ {0} /\ ev.end \in heights /\ heights = ev.start .. ev.end
        /\ heights \subseteq Nat \ {0} /\ Activation \in Nat \ {0}
    BY EvidenceFacts, MoneyAssumption DEF Sound, WellFormed, heights
  <1>5. \A h \in heights, p \in Pools : expected[h][p] = TrueBalance(h, p) /\ ledger[h][p] = BlockTotal(h, p)
    BY <1>3, SumsAreBalances DEF Sound, BalancesAreExact, LedgerInv
  <1>6. \A p \in Pools : ev.anchor.balance[p] \in Money /\ ev.anchor.balance[p] # Absent
    BY <1>1, Constants, MoneyAssumption DEF Sound, WellFormed, AnchorInv
  <1>7. ASSUME NEW h \in heights
        PROVE  /\ \A i \in DOMAIN ev.blocks[h] :
                    /\ ev.blocks[h][i].native
                    /\ h >= Activation => ev.blocks[h][i].value["orchard"] >= 0
               /\ h < Activation => BlockTotal(h, "ironwood") = 0
               /\ h = Activation - 1 => ev.records[h].balance["ironwood"] \in {0, Absent}
               /\ \A p \in Pools :
                    /\ TrueBalance(h, p) >= 0
                    /\ ev.records[h].balance[p] \in {TrueBalance(h, p), Absent}
                    /\ ev.records[h].delta[p] \in {BlockTotal(h, p), Absent}
    <2>1. ASSUME NEW i \in DOMAIN ev.blocks[h]
          PROVE  /\ ev.blocks[h][i].native
                 /\ h >= Activation => ev.blocks[h][i].value["orchard"] >= 0
      <3>1. ev.blocks[h][i].native
        BY <1>3 DEF Sound, NativeInv
      <3>2. ev.blocks[h][i].value["orchard"] \in Int
        <4>1. ev.blocks[h] \in Seq(Transaction)
          BY EvidenceFacts DEF Sound, WellFormed
        <4>2. ev.blocks[h][i] \in Transaction
          BY <4>1
        <4> QED
          BY <4>2, Constants DEF Transaction, Pools
      <3>3. h >= Activation => ~ (- ev.blocks[h][i].value["orchard"] > 0)
        BY <1>2, ChecksPassed DEF AddsToOrchard, Delta
      <3> QED
        BY <3>1, <3>2, <3>3
    <2>2. h < Activation => BlockTotal(h, "ironwood") = 0
      <3>1. h < Activation => ~ (h >= Activation)
        BY <1>4
      <3> QED
        BY <3>1, <1>2, <1>5, ChecksPassed DEF Pools
    <2>3. h = Activation - 1 => ev.records[h].balance["ironwood"] \in {0, Absent}
      <3>1. h = Activation - 1 => Activation - 1 # ev.start - 1
        BY <1>4
      <3> QED
        BY <3>1, <1>2, ChecksPassed DEF PreActivationIronwood
    <2>4. ASSUME NEW p \in Pools
          PROVE  /\ TrueBalance(h, p) >= 0
                 /\ ev.records[h].balance[p] \in {TrueBalance(h, p), Absent}
                 /\ ev.records[h].delta[p] \in {BlockTotal(h, p), Absent}
      <3>1. BalanceAgreement(h, p) # "differs" /\ DeltaAgreement(h, p) # "differs"
        BY <1>2, ChecksPassed DEF BalanceDiffers, DeltaDiffers
      <3>2. expected[h][p] >= 0
        BY <1>2, ChecksPassed
      <3> QED
        BY <3>1, <3>2, <1>5 DEF BalanceAgreement, DeltaAgreement, Agreement
    <2> QED
      BY <2>1, <2>2, <2>3, <2>4
  <1>8. ev.start = Activation => ev.anchor.balance["ironwood"] = 0
    <2>1. ev.start = Activation => PreActivationIronwood = ev.anchor.balance["ironwood"]
      BY DEF PreActivationIronwood
    <2>2. "ironwood" \in Pools
      BY DEF Pools
    <2> QED
      BY <2>1, <2>2, <1>2, <1>6, ChecksPassed
  <1>9. \A p \in Pools : ev.declared.end[p] = TrueBalance(ev.end, p) /\ Reported(p) # Absent
    BY <1>2, <1>4, <1>5, ChecksPassed
  <1>10. ev.linked /\ ev.anchorBlock
    BY <1>2, ChecksPassed
  <1>11. /\ heights' = heights /\ \A p : Reported(p)' = Reported(p)
         /\ \A h, p : BlockTotal(h, p)' = BlockTotal(h, p) /\ TrueBalance(h, p)' = TrueBalance(h, p)
    BY <1>1, SumsStay DEF Reported
  <1> QED
    BY <1>1, <1>7, <1>8, <1>9, <1>10, <1>11 DEF AcceptedIsAccounted

LEMMA StepAccounts == Sound /\ [Next]_vars => AcceptedIsAccounted'
  <1> SUFFICES ASSUME Sound, [Next]_vars PROVE AcceptedIsAccounted'
    OBVIOUS
  <1>p. verdict' \notin Accepted => AcceptedIsAccounted'
    BY DEF AcceptedIsAccounted
  <1>1. CASE Reckon
    <2>1. phase # "done" /\ verdict = "pending"
      BY <1>1 DEF Reckon, ReadAnchor, ReadBlock, SumTransaction, CloseBlock, RequireAnchor, Accumulate, NarrowTotals,
                  Sound, WellFormed, PositionInv
    <2>2. verdict' \in {"pending", "unsupported", "foreign", "unrepresentable", "incomplete"}
      BY <1>1, <2>1 DEF Reckon, ReadAnchor, ReadBlock, SumTransaction, CloseBlock, RequireAnchor, Accumulate,
                        NarrowTotals, Conclude, GoTo
    <2> QED
      BY <2>2, <1>p DEF Accepted
  <1>2. CASE Judge
    BY <1>2, JudgeAccounts
  <1>3. CASE UNCHANGED vars
    <2>1. ev' = ev /\ verdict' = verdict /\ \A p : Reported(p)' = Reported(p)
      BY <1>3 DEF vars, Reported
    <2> QED
      BY <2>1, SumsStay DEF Sound, AcceptedIsAccounted
  <1> QED
    BY <1>1, <1>2, <1>3 DEF Next

\* Exit code 0 vouches for the whole interval, whatever the evidence and
\* however long: the sums over it, not only the steps, are what the node and the
\* manifest say (checks, main.rs, exit.rs).
THEOREM AcceptedIsSound == Spec => []AcceptedIsAccounted
  <1>1. Init => Sound
    <2>1. Init => Telescoped
      BY DEF Init, Telescoped, RunningInv, StepInv, AxesInv, Reckoned, Completed
    <2>2. Init => LedgerInv /\ NativeInv /\ AcceptedIsAccounted
      BY DEF Init, LedgerInv, NativeInv, AcceptedIsAccounted, Summed, Decoded, Completed, Accepted
    <2> QED
      BY <2>1, <2>2, InitWellFormed DEF Sound
  <1>2. Sound /\ [Next]_vars => Sound'
    BY StepWellFormed, StepTelescopes, StepSums, StepNative, StepAccounts DEF Sound
  <1>3. Sound => AcceptedIsAccounted
    BY DEF Sound
  <1> QED
    BY <1>1, <1>2, <1>3, PTL DEF Spec

-----------------------------------------------------------------------------
\* The running totals are those of the heights reckoned so far.
TotalsInv ==
  phase # "done" =>
    \A p \in Pools :
      /\ cumulative[p] = SumFunctionOnSet(BlockTotals(p), Reckoned)
      /\ flow[p] = SumFunctionOnSet(Flows(p), Reckoned)

LEMMA AccumulateAddsUp ==
  ASSUME WellFormed, LedgerInv, TotalsInv, Accumulate
  PROVE  TotalsInv'
  <1>e. CASE Conclude("unrepresentable")
    BY <1>e DEF TotalsInv, Conclude
  <1>1. CASE /\ cumulative' = [p \in Pools |-> cumulative[p] + ledger[at][p]]
             /\ flow' = [p \in Pools |-> flow[p] + Flowing(p, ledger[at][p])]
             /\ IF at < ev.end THEN GoTo("accumulate", at + 1) ELSE GoTo("totals", at)
    <2>1. ev' = ev /\ heights' = heights /\ verdict = "pending" /\ verdict' = verdict
      BY <1>1 DEF GoTo, heights, WellFormed, PositionInv, Accumulate
    <2>2. /\ ev.start \in Nat /\ ev.end \in Nat /\ heights = ev.start .. ev.end
          /\ at \in heights /\ at \in Nat /\ at \in Summed
      BY EvidenceFacts DEF WellFormed, PositionInv, Accumulate, heights, Summed
    <2>3. Reckoned = ev.start .. at - 1
      BY <2>1, <2>2 DEF Reckoned, Completed, Accumulate
    <2>4. Reckoned' = ev.start .. at
      <3>1. CASE at < ev.end
        BY <1>1, <2>1, <2>2, <3>1 DEF Reckoned, Completed, GoTo
      <3>2. CASE ~ (at < ev.end)
        BY <1>1, <2>1, <2>2, <3>2 DEF Reckoned, Completed, GoTo
      <3> QED
        BY <3>1, <3>2
    <2>5. Reckoned' = Reckoned \cup {at} /\ at \notin Reckoned /\ Reckoned \subseteq heights
      BY <2>2, <2>3, <2>4
    <2>6. IsFiniteSet(Reckoned)
      BY <2>5, IntervalFacts, FS_Subset DEF Pools
    <2>7. ASSUME NEW p \in Pools, NEW f, \A h \in heights : f[h] \in Int
          PROVE  SumFunctionOnSet(f, Reckoned \cup {at}) = SumFunctionOnSet(f, Reckoned) + f[at]
      <3> DEFINE S == Reckoned
      <3>1. IsFiniteSet(S) /\ at \notin S /\ \A h \in S : f[h] \in Int
        BY <2>5, <2>6, <2>7
      <3>2. f[at] \in Int
        BY <2>2, <2>7
      <3> HIDE DEF S
      <3>3. SumFunctionOnSet(f, S) \in Int
        BY <3>1, SumType
      <3>4. SumFunctionOnSet(f, S \cup {at}) = f[at] + SumFunctionOnSet(f, S)
        BY <3>1, <3>2, SumAdd
      <3>5. SumFunctionOnSet(f, S \cup {at}) = SumFunctionOnSet(f, S) + f[at]
        BY <3>2, <3>3, <3>4
      <3> QED
        BY <3>5 DEF S
    <2>8. ASSUME NEW p \in Pools
          PROVE  /\ cumulative'[p] = SumFunctionOnSet(BlockTotals(p), Reckoned \cup {at})
                 /\ flow'[p] = SumFunctionOnSet(Flows(p), Reckoned \cup {at})
      <3>1. ledger[at][p] = BlockTotals(p)[at] /\ Flowing(p, ledger[at][p]) = Flows(p)[at]
        BY <2>2, IntervalFacts DEF LedgerInv
      <3>2. /\ SumFunctionOnSet(BlockTotals(p), Reckoned \cup {at})
                  = SumFunctionOnSet(BlockTotals(p), Reckoned) + BlockTotals(p)[at]
            /\ SumFunctionOnSet(Flows(p), Reckoned \cup {at})
                  = SumFunctionOnSet(Flows(p), Reckoned) + Flows(p)[at]
        BY <2>7, IntervalFacts
      <3>3. cumulative[p] = SumFunctionOnSet(BlockTotals(p), Reckoned) /\ flow[p] = SumFunctionOnSet(Flows(p), Reckoned)
        BY DEF TotalsInv, Accumulate
      <3> QED
        BY <1>1, <3>1, <3>2, <3>3
    <2> QED
      BY <2>1, <2>5, <2>8, SumsStay DEF TotalsInv
  <1> QED
    BY <1>e, <1>1 DEF Accumulate

LEMMA StepAddsUp == WellFormed /\ LedgerInv /\ TotalsInv /\ [Next]_vars => TotalsInv'
  <1> SUFFICES ASSUME WellFormed, LedgerInv, TotalsInv, [Next]_vars PROVE TotalsInv'
    OBVIOUS
  <1>e. \A v : Conclude(v) => TotalsInv'
    BY DEF Conclude, TotalsInv
  <1>s. UNCHANGED <<ev, cumulative, flow>> /\ Reckoned' = Reckoned /\ phase # "done" => TotalsInv'
    BY SumsStay DEF TotalsInv
  <1>1. CASE ReadAnchor
    <2>1. CASE GoTo("read", ev.start) /\ UNCHANGED totals
      BY <2>1, <1>1, <1>s DEF ReadAnchor, GoTo, totals, Reckoned, Completed, heights
    <2> QED
      BY <1>1, <1>e, <2>1 DEF ReadAnchor
  <1>2. CASE ReadBlock
    <2>1. CASE GoTo("sum", at) /\ UNCHANGED <<ledger, running, cumulative, flow, expected>>
      BY <2>1, <1>2, <1>s DEF ReadBlock, GoTo, Reckoned, Completed, heights
    <2> QED
      BY <1>2, <1>e, <2>1 DEF ReadBlock
  <1>3. CASE SumTransaction
    <2>1. CASE UNCHANGED <<ev, phase, at, ledger, running, cumulative, flow, expected, verdict>>
      BY <2>1, <1>3, <1>s DEF SumTransaction, Reckoned, Completed, heights
    <2> QED
      BY <1>3, <1>e, <2>1 DEF SumTransaction
  <1>4. CASE CloseBlock
    BY <1>4, <1>s DEF CloseBlock, GoTo, Reckoned, Completed, heights
  <1>5. CASE RequireAnchor
    <2>1. CASE GoTo("accumulate", ev.start) /\ UNCHANGED <<sum, ledger, cumulative, flow, expected>>
      <3>1. Reckoned' = {} /\ Reckoned = {}
        BY <2>1, <1>5, EvidenceFacts DEF RequireAnchor, GoTo, Reckoned, Completed, heights, WellFormed, PositionInv
      <3> QED
        BY <3>1, <2>1, <1>5, <1>s DEF RequireAnchor, GoTo
    <2> QED
      BY <1>5, <1>e, <2>1 DEF RequireAnchor
  <1>6. CASE Accumulate
    BY <1>6, AccumulateAddsUp
  <1>7. CASE NarrowTotals
    <2>1. CASE GoTo("judge", at) /\ UNCHANGED totals
      BY <2>1, <1>7, <1>s DEF NarrowTotals, GoTo, totals, Reckoned, Completed, heights
    <2> QED
      BY <1>7, <1>e, <2>1 DEF NarrowTotals
  <1>8. CASE Judge
    BY <1>8, <1>e DEF Judge
  <1>9. CASE UNCHANGED vars
    <2>1. UNCHANGED <<ev, cumulative, flow, phase>> /\ Reckoned' = Reckoned
      BY <1>9 DEF vars, position, totals, Reckoned, Completed, heights
    <2> QED
      BY <2>1, SumsStay DEF TotalsInv
  <1> QED
    BY <1>1, <1>2, <1>3, <1>4, <1>5, <1>6, <1>7, <1>8, <1>9 DEF Next, Reckon

-----------------------------------------------------------------------------
\* The evidence of ValidIntervalPasses.
Fine == Valid /\ (\A h \in heights : Fits(h)) /\ (\A p \in Pools : GrossFlow(p) \in Money)

\* What a valid interval says of every height, in the terms of the walk.
LEMMA FineFacts ==
  ASSUME WellFormed, Valid, NEW h \in heights, NEW p \in Pools
  PROVE  /\ ev.anchor.balance[p] \in 0 .. MaxMoney
         /\ ev.records[h].balance[p] = TrueBalance(h, p) /\ TrueBalance(h, p) \in 0 .. MaxMoney
         /\ Before(h, p) = (IF h = ev.start THEN ev.anchor.balance[p] ELSE TrueBalance(h - 1, p))
         /\ Before(h, p) \in 0 .. MaxMoney
         /\ ev.records[h].delta[p] = BlockTotal(h, p)
         /\ TrueBalance(h, p) = Before(h, p) + BlockTotal(h, p)
         /\ BlockTotal(h, p) \in Money
  <1>1. ev.anchor.balance[p] \in 0 .. MaxMoney
    BY DEF Valid
  <1>2. \A k \in heights : ev.records[k].balance[p] = TrueBalance(k, p) /\ TrueBalance(k, p) \in 0 .. MaxMoney
    BY DEF Valid
  <1>3. h # ev.start => h - 1 \in heights
    BY EvidenceFacts DEF WellFormed, heights
  <1>4. Before(h, p) = (IF h = ev.start THEN ev.anchor.balance[p] ELSE TrueBalance(h - 1, p))
    BY <1>2, <1>3 DEF Before
  <1>5. Before(h, p) \in 0 .. MaxMoney
    BY <1>1, <1>2, <1>3, <1>4
  <1>6. TrueBalance(h, p) = Before(h, p) + BlockTotal(h, p)
    <2>1. ev.anchor.balance[p] \in Int
      BY <1>1
    <2> QED
      BY <2>1, <1>4, BalanceGrows
  <1>7. BlockTotal(h, p) \in Int
    BY GainsFacts
  <1>8. ev.records[h].delta[p] = ev.records[h].balance[p] - Before(h, p)
    BY DEF Valid, NodeDerivesDeltas
  <1>9. ev.records[h].delta[p] = BlockTotal(h, p)
    BY <1>2, <1>5, <1>6, <1>7, <1>8
  <1>10. BlockTotal(h, p) \in Money
    BY <1>2, <1>5, <1>6, <1>7, Constants DEF Money
  <1> QED
    BY <1>1, <1>2, <1>4, <1>5, <1>6, <1>9, <1>10

\* No error is found in it while it is read.
LEMMA FineIsRead ==
  ASSUME WellFormed, Fine, ReadAnchor \/ ReadBlock
  PROVE  phase' # "done"
  <1>1. CASE ReadAnchor
    <2>1. \A p \in Pools : ev.anchor.balance[p] \in Money /\ ev.anchor.delta[p] \in Money \cup {Absent}
      BY Constants DEF Fine, Valid, Money
    <2>2. Representable(ev.anchor)
      BY <2>1 DEF Representable, Narrows
    <2> QED
      BY <1>1, <2>2 DEF ReadAnchor, GoTo
  <1>2. CASE ReadBlock
    <2>1. at \in heights
      BY <1>2 DEF ReadBlock, WellFormed, PositionInv
    <2>2. ~ (\E i \in DOMAIN ev.blocks[at] : \E p \in Pools : ~ Narrows(ev.blocks[at][i].value[p]))
      BY <2>1 DEF Fine, Valid, Narrows
    <2>3. ~ (\E i \in DOMAIN ev.blocks[at] : ~ ev.blocks[at][i].native)
      BY <2>1 DEF Fine, Valid
    <2>4. Representable(ev.records[at])
      <3>1. \A p \in Pools : ev.records[at].balance[p] \in 0 .. MaxMoney /\ ev.records[at].delta[p] \in Money
        BY <2>1, FineFacts DEF Fine
      <3> QED
        BY <3>1, Constants DEF Representable, Narrows, Money
    <2> QED
      BY <1>2, <2>2, <2>3, <2>4 DEF ReadBlock, GoTo
  <1> QED
    BY <1>1, <1>2

\* Nor while it is summed.
LEMMA FineIsSummed ==
  ASSUME WellFormed, LedgerInv, LedgerInv', Fine, SumTransaction
  PROVE  phase' # "done"
  <1> DEFINE next == [p \in Pools |-> ExactSum(sum[p], Delta(ev.blocks[at][index + 1], p))]
  <1>1. index \in Nat /\ at \in heights /\ index < Len(ev.blocks[at]) /\ Len(ev.blocks[at]) \in Nat
    BY EvidenceFacts DEF WellFormed, TypeOK, PositionInv, SumTransaction
  <1>2. ASSUME NEW p \in Pools PROVE next[p] \in Long
    <2> DEFINE f == Gains(at, p)
    <2>1. \A i \in 1 .. Len(ev.blocks[at]) : f[i] = Delta(ev.blocks[at][i], p) /\ f[i] \in Int
      BY <1>1, GainsFacts
    <2>2. sum[p] = SumFunctionOnSet(f, 1 .. index)
      BY DEF LedgerInv, SumTransaction
    <2>3. \A n \in 0 .. Len(ev.blocks[at]) : SumFunctionOnSet(f, 1 .. n) \in Long
      BY <1>1 DEF Fine, Fits
    <2> HIDE DEF f
    <2>4. index + 1 \in 1 .. Len(ev.blocks[at]) /\ \A i \in 1 .. index + 1 : f[i] \in Int
      BY <1>1, <2>1
    <2>5. SumFunctionOnSet(f, 1 .. index + 1) = f[index + 1] + SumFunctionOnSet(f, 1 .. index)
      BY <1>1, <2>4, SumUpTo
    <2>6. sum[p] \in Int
      BY Constants DEF WellFormed, TypeOK
    <2>7. next[p] = SumFunctionOnSet(f, 1 .. index + 1)
      BY <2>1, <2>2, <2>4, <2>5, <2>6 DEF ExactSum
    <2>8. index + 1 \in 0 .. Len(ev.blocks[at])
      BY <1>1
    <2> QED
      BY <2>3, <2>7, <2>8
  <1> QED
    BY <1>2 DEF SumTransaction

\* Nor while the balances are reckoned.
LEMMA FineIsReckoned ==
  ASSUME WellFormed, Telescoped, LedgerInv, TotalsInv, Fine, RequireAnchor \/ Accumulate \/ NarrowTotals
  PROVE  phase' # "done"
  <1>1. CASE RequireAnchor
    <2>1. \A p \in Pools : AnchorBalances[p] # Absent
      BY DEF AnchorBalances, Fine, Valid, NodeDerivesDeltas
    <2> QED
      BY <1>1, <2>1 DEF RequireAnchor, GoTo
  <1>2. CASE Accumulate
    <2>1. at \in heights /\ at \in Summed
      BY <1>2 DEF Accumulate, WellFormed, PositionInv, Summed
    <2>2. at # ev.start => at - 1 \in Reckoned
      BY <1>2, <2>1, EvidenceFacts DEF Reckoned, Accumulate, WellFormed, heights
    <2>3. ASSUME NEW p \in Pools PROVE running[p] + ledger[at][p] \in Money
      <3>1. ledger[at][p] = BlockTotal(at, p)
        BY <2>1 DEF LedgerInv
      <3>2. running[p] = Preceding(at, p)
        BY <1>2 DEF Telescoped, RunningInv, Accumulate
      <3>3. at # ev.start => expected[at - 1][p] = TrueBalance(at - 1, p)
        BY <2>2, SumsAreBalances DEF BalancesAreExact
      <3>4. Preceding(at, p) = Before(at, p)
        BY <2>1, <3>3, FineFacts DEF Fine, Preceding
      <3>5. TrueBalance(at, p) = Before(at, p) + BlockTotal(at, p) /\ TrueBalance(at, p) \in 0 .. MaxMoney
        BY <2>1, FineFacts DEF Fine
      <3> QED
        BY <3>1, <3>2, <3>4, <3>5, Constants DEF Money
    <2>4. ~ \E p \in Pools : ~ Narrows(running[p] + ledger[at][p])
      BY <2>3 DEF Narrows
    <2> QED
      BY <1>2, <2>4 DEF Accumulate, GoTo
  <1>3. CASE NarrowTotals
    <2>1. Reckoned = heights
      BY <1>3 DEF NarrowTotals, Reckoned
    <2>2. /\ ev.end \in heights /\ heights = ev.start .. ev.end
      BY EvidenceFacts DEF WellFormed, heights
    <2>3. ASSUME NEW p \in Pools PROVE cumulative[p] \in Money /\ flow[p] \in Money
      <3>1. cumulative[p] = SumFunctionOnSet(BlockTotals(p), heights) /\ flow[p] = SumFunctionOnSet(Flows(p), heights)
        BY <1>3, <2>1 DEF TotalsInv, NarrowTotals
      <3>2. flow[p] \in Money
        BY <3>1, IntervalFacts DEF Fine
      <3>3. TrueBalance(ev.end, p) = ev.anchor.balance[p] + cumulative[p]
        BY <2>2, <3>1 DEF TrueBalance
      <3>4. TrueBalance(ev.end, p) \in 0 .. MaxMoney /\ ev.anchor.balance[p] \in 0 .. MaxMoney
        BY <2>2, FineFacts DEF Fine
      <3>5. cumulative[p] \in Int
        BY DEF WellFormed, TypeOK
      <3> QED
        BY <3>2, <3>3, <3>4, <3>5, Constants DEF Money
    <2> QED
      BY <1>3, <2>3 DEF NarrowTotals, Narrows, GoTo
  <1> QED
    BY <1>1, <1>2, <1>3

\* And every check passes.
LEMMA FinePasses ==
  ASSUME WellFormed, Telescoped, LedgerInv, Fine, phase = "judge"
  PROVE  Overall(Registry) = (IF ev.unlisted THEN "warned" ELSE "passed")
  <1>1. heights \subseteq Reckoned /\ heights \subseteq Summed
    BY DEF Reckoned, Summed
  <1>2. /\ ev.start \in Nat \ {0} /\ ev.end \in heights /\ heights = ev.start .. ev.end
        /\ heights \subseteq Nat \ {0} /\ Activation \in Nat \ {0}
    BY EvidenceFacts, MoneyAssumption DEF WellFormed, heights
  <1>3. ASSUME NEW h \in heights, NEW p \in Pools
        PROVE  /\ expected[h][p] = TrueBalance(h, p) /\ expected[h][p] >= 0
               /\ ev.records[h].balance[p] = expected[h][p] /\ ev.records[h].balance[p] # Absent
               /\ ledger[h][p] = BlockTotal(h, p)
               /\ ev.records[h].delta[p] = ledger[h][p]
    <2>1. expected[h][p] = TrueBalance(h, p) /\ ledger[h][p] = BlockTotal(h, p)
      BY <1>1, SumsAreBalances DEF BalancesAreExact, LedgerInv
    <2>2. ev.records[h].balance[p] = TrueBalance(h, p) /\ TrueBalance(h, p) \in 0 .. MaxMoney /\ ev.records[h].delta[p] = BlockTotal(h, p)
      BY FineFacts DEF Fine
    <2> QED
      BY <2>1, <2>2, Constants, MoneyAssumption
  <1>4. AccountingChecks \subseteq {c \in AccountingChecks : c.status = "pass"}
    <2>1. BalanceDiffers = {} /\ DeltaDiffers = {}
      BY <1>3 DEF BalanceDiffers, DeltaDiffers, BalanceAgreement, DeltaAgreement, Agreement
    <2>2. \A h \in heights, p \in Pools : expected[h][p] >= 0
      BY <1>3
    <2>3. \A p \in Pools : Reported(p) = expected[ev.end][p] /\ Reported(p) # Absent
      BY <1>2, <1>3 DEF Reported
    <2>4. Reported("orchard") = expected[ev.end]["orchard"] /\ Reported("ironwood") = expected[ev.end]["ironwood"]
      BY <2>3 DEF Pools
    <2> QED
      BY <2>1, <2>2, <2>3, <2>4 DEF AccountingChecks, Condition, Pass, Check
  <1>5. \A c \in ActivationChecks : c.status \in {"pass", "notApplicable"}
    <2>1. ev.declared.activation = Activation
      BY DEF Fine, Valid
    <2>2. PreActivationIronwood \in {0, Absent}
      <3>1. CASE Activation - 1 = ev.start - 1
        <4>1. ev.start <= Activation
          BY <1>2, <3>1
        <4>2. ev.anchor.balance["ironwood"] = 0
          BY <4>1 DEF Fine, Valid
        <4> QED
          BY <3>1, <4>2 DEF PreActivationIronwood
      <3>2. CASE Activation - 1 # ev.start - 1 /\ Activation - 1 \in heights
        <4>1. Activation - 1 < Activation
          BY <1>2
        <4>2. ev.records[Activation - 1].balance["ironwood"] = 0
          BY <3>2, <4>1 DEF Fine, Valid
        <4> QED
          BY <3>2, <4>2 DEF PreActivationIronwood
      <3> QED
        BY <3>1, <3>2 DEF PreActivationIronwood
    <2>3. AnchorZero.status \in {"pass", "notApplicable"}
      BY <2>2 DEF AnchorZero, Condition, Check
    <2>4. ASSUME NEW h \in heights, ~ (h >= Activation) PROVE ledger[h]["ironwood"] = 0
      <3>1. h < Activation /\ "ironwood" \in Pools
        BY <1>2, <2>4 DEF Pools
      <3>2. ev.records[h].balance["ironwood"] = 0
        BY <3>1 DEF Fine, Valid
      <3>3. Before(h, "ironwood") = 0
        <4>1. CASE h = ev.start
          <5>1. ev.start <= Activation
            BY <1>2, <3>1, <4>1
          <5> QED
            BY <4>1, <5>1 DEF Fine, Valid, Before
        <4>2. CASE h # ev.start
          <5>1. h - 1 \in heights /\ h - 1 < Activation
            BY <1>2, <3>1, <4>2
          <5> QED
            BY <4>2, <5>1 DEF Fine, Valid, Before
        <4> QED
          BY <4>1, <4>2
      <3>4. ev.records[h].delta["ironwood"] = ev.records[h].balance["ironwood"] - Before(h, "ironwood")
        BY <3>1 DEF Fine, Valid, NodeDerivesDeltas
      <3> QED
        BY <3>1, <3>2, <3>3, <3>4, <1>3
    <2>5. NoIronwoodBefore.status \in {"pass", "notApplicable"}
      BY <2>4 DEF NoIronwoodBefore, IsPostActivation, Condition, Check
    <2>6. ASSUME NEW h \in heights, h >= Activation PROVE ~ AddsToOrchard(h)
      <3> SUFFICES ASSUME NEW i \in DOMAIN ev.blocks[h], - ev.blocks[h][i].value["orchard"] > 0 PROVE FALSE
        BY DEF AddsToOrchard, Delta
      <3>1. ev.blocks[h][i].value["orchard"] >= 0 /\ ev.blocks[h][i].value["orchard"] \in Money
        BY <2>6 DEF Fine, Valid, Pools
      <3>2. ev.blocks[h][i].value["orchard"] \in Int
        BY <3>1, Constants
      <3> QED
        BY <3>1, <3>2
    <2>7. WithdrawalOnly.status \in {"pass", "notApplicable"}
      BY <2>6 DEF WithdrawalOnly, IsPostActivation, Condition, Check
    <2> QED
      BY <2>1, <2>3, <2>5, <2>7 DEF ActivationChecks, Condition, Pass, Check
  <1>6. ManifestAgreement.status = "pass"
    <2>1. \A p \in Pools : ev.declared.anchor[p] = ev.anchor.balance[p] /\ ev.declared.end[p] = Reported(p)
      BY DEF Fine, Valid, Reported
    <2> QED
      BY <2>1 DEF ManifestAgreement, Condition, Check
  <1>7. \A c \in StructuralChecks : c.status = "pass" \/ (ev.unlisted /\ c.status = "warn")
    <2>1. ev.linked /\ ev.anchorBlock
      BY DEF Fine, Valid
    <2> QED
      BY <2>1 DEF StructuralChecks, Condition, Pass, Check
  <1>8. ev.unlisted => \E c \in StructuralChecks : c.status = "warn"
    <2>1. ev.unlisted => Check("evidence_hashes_valid", "warn") \in StructuralChecks
      BY DEF StructuralChecks
    <2> QED
      BY <2>1 DEF Check
  <1>9. \A c \in Registry : c.status \in {"pass", "notApplicable"} \/ (ev.unlisted /\ c.status = "warn")
    BY <1>4, <1>5, <1>6, <1>7 DEF Registry, Pass, Check
  <1>10. ev.unlisted => \E c \in Registry : c.status = "warn"
    BY <1>8 DEF Registry
  <1> QED
    BY <1>9, <1>10 DEF Overall

Vouched == WellFormed /\ Telescoped /\ LedgerInv /\ TotalsInv /\ ValidIntervalPasses

LEMMA StepPasses == Vouched /\ LedgerInv' /\ [Next]_vars => ValidIntervalPasses'
  <1> SUFFICES ASSUME Vouched, LedgerInv', [Next]_vars, phase' = "done", Fine'
               PROVE  verdict' = (IF ev'.unlisted THEN "warned" ELSE "passed")
    BY DEF ValidIntervalPasses, Fine
  <1>0. ev' = ev
    BY DEF Next, Reckon, ReadAnchor, ReadBlock, SumTransaction, CloseBlock, RequireAnchor, Accumulate, NarrowTotals,
           Judge, Conclude, GoTo, vars
  <1>1. Fine
    <2>1. /\ heights' = heights /\ Valid' = Valid /\ \A h : Fits(h)' = Fits(h)
      BY <1>0, SumsStay DEF Valid, NodeDerivesDeltas, Before, heights, Fits
    <2> QED
      BY <2>1, <1>0, SumsStay DEF Fine
  <1>2. CASE ReadAnchor \/ ReadBlock
    BY <1>1, <1>2, FineIsRead DEF Vouched
  <1>3. CASE SumTransaction
    BY <1>1, <1>3, FineIsSummed DEF Vouched
  <1>4. CASE CloseBlock
    BY <1>4 DEF CloseBlock, GoTo
  <1>5. CASE RequireAnchor \/ Accumulate \/ NarrowTotals
    BY <1>1, <1>5, FineIsReckoned DEF Vouched
  <1>6. CASE Judge
    BY <1>0, <1>1, <1>6, FinePasses DEF Vouched, Judge, Conclude
  <1>7. CASE UNCHANGED vars
    BY <1>0, <1>1, <1>7 DEF Vouched, ValidIntervalPasses, Fine, vars, position
  <1> QED
    BY <1>2, <1>3, <1>4, <1>5, <1>6, <1>7 DEF Next, Reckon

\* The evidence of a valid chain always gets exit code 0: no error and no failed
\* check, whatever the length of the interval and of its blocks (interval.rs,
\* ledger.rs, checks).
THEOREM ValidIsAccepted == Spec => []ValidIntervalPasses
  <1>1. Init => Vouched
    <2>1. Init => Telescoped
      BY DEF Init, Telescoped, RunningInv, StepInv, AxesInv, Reckoned, Completed
    <2>2. Init => LedgerInv /\ ValidIntervalPasses
      BY DEF Init, LedgerInv, ValidIntervalPasses, Summed, Completed
    <2>3. Init => TotalsInv
      <3>1. Init => Reckoned = {} /\ \A p \in Pools : cumulative[p] = 0 /\ flow[p] = 0
        BY DEF Init, Reckoned, Completed, Nothing
      <3> QED
        BY <3>1, SumEmpty DEF TotalsInv
    <2> QED
      BY <2>1, <2>2, <2>3, InitWellFormed DEF Vouched
  <1>2. Vouched /\ [Next]_vars => Vouched'
    BY StepWellFormed, StepTelescopes, StepSums, StepAddsUp, StepPasses DEF Vouched
  <1>3. Vouched => ValidIntervalPasses
    BY DEF Vouched
  <1> QED
    BY <1>1, <1>2, <1>3, PTL DEF Spec

-----------------------------------------------------------------------------
\* The heights contradicted are those at which an axis differs.
LEMMA ContradictedIs ==
  ASSUME WellFormed, Telescoped, LedgerInv, Completed
  PROVE  /\ Contradicted = BalanceDiffers \cup DeltaDiffers
         /\ \A h \in heights : Diverges(Row(h)) <=> h \in Contradicted
  <1>1. heights \subseteq Reckoned /\ heights \subseteq Summed
    BY DEF Reckoned, Summed
  <1>2. ASSUME NEW h \in heights, NEW p \in Pools
        PROVE  /\ BalanceAgreement(h, p) = "differs" <=> ev.records[h].balance[p] \notin {Absent, TrueBalance(h, p)}
               /\ DeltaAgreement(h, p) = "differs" <=> ev.records[h].delta[p] \notin {Absent, BlockTotal(h, p)}
    <2>1. expected[h][p] = TrueBalance(h, p) /\ ledger[h][p] = BlockTotal(h, p)
      BY <1>1, SumsAreBalances DEF BalancesAreExact, LedgerInv
    <2> QED
      BY <2>1 DEF BalanceAgreement, DeltaAgreement, Agreement
  <1>3. Contradicted = BalanceDiffers \cup DeltaDiffers
    BY <1>2 DEF Contradicted, BalanceDiffers, DeltaDiffers
  <1>4. ASSUME NEW h \in heights
        PROVE  Diverges(Row(h)) <=> h \in BalanceDiffers \cup DeltaDiffers
    <2>1. \A p \in Pools : Row(h).balances[p] = BalanceAgreement(h, p) /\ Row(h).deltas[p] = DeltaAgreement(h, p)
      BY DEF Row
    <2> QED
      BY <2>1 DEF Diverges, BalanceDiffers, DeltaDiffers
  <1> QED
    BY <1>3, <1>4

\* One row for every height, in order.
LEMMA RowsFacts ==
  ASSUME WellFormed
  PROVE  LET n == ev.end - ev.start + 1
         IN  /\ n \in Nat \ {0}
             /\ Rows \in Seq({Row(h) : h \in heights}) /\ Len(Rows) = n
             /\ \A i \in 1 .. n : ev.start + i - 1 \in heights /\ Rows[i] = Row(ev.start + i - 1)
             /\ \A h \in heights : h \in Nat /\ h - ev.start + 1 \in 1 .. n /\ Rows[h - ev.start + 1] = Row(h)
  <1> DEFINE n == ev.end - ev.start + 1
  <1>1. ev.start \in Nat /\ ev.end \in Nat /\ ev.start <= ev.end
    BY EvidenceFacts DEF WellFormed
  <1>2. n \in Nat \ {0} /\ heights = ev.start .. ev.end
    BY <1>1 DEF heights
  <1>3. Cardinality(heights) = n
    <2>1. \A a, b \in Int : Cardinality(a .. b) = IF a > b THEN 0 ELSE b - a + 1
      BY FS_Interval
    <2>2. ev.start \in Int /\ ev.end \in Int /\ ~ (ev.start > ev.end)
      BY <1>1
    <2> QED
      BY <1>2, <2>1, <2>2
  <1>4. \A i \in 1 .. n : ev.start + i - 1 \in heights
    BY <1>1, <1>2
  <1>5. \A h \in heights : h \in Nat /\ h - ev.start + 1 \in 1 .. n /\ ev.start + (h - ev.start + 1) - 1 = h
    BY <1>1, <1>2
  <1> HIDE DEF n
  <1>6. Rows = [i \in 1 .. n |-> Row(ev.start + i - 1)]
    BY <1>3 DEF Rows
  <1>7. Rows \in Seq({Row(h) : h \in heights}) /\ Len(Rows) = n
    <2>1. \A i \in 1 .. n : Row(ev.start + i - 1) \in {Row(h) : h \in heights}
      BY <1>4
    <2> QED
      BY <1>2, <1>6, <2>1
  <1>8. \A h \in heights : Rows[h - ev.start + 1] = Row(h)
    BY <1>5, <1>6
  <1> QED
    BY <1>2, <1>4, <1>5, <1>6, <1>7, <1>8 DEF n

\* The rows that diverge are counted, and the first of them found, as the
\* heights contradicted are.
LEMMA DivergingRows ==
  ASSUME WellFormed, Telescoped, LedgerInv, Completed
  PROVE  /\ Diverging(Rows) \in Seq({Row(h) : h \in heights})
         /\ Len(Diverging(Rows)) = Cardinality(Contradicted)
         /\ Contradicted = {} => Diverging(Rows) = <<>>
         /\ \A h \in Contradicted : (\A k \in Contradicted : h <= k) =>
              Diverging(Rows) # <<>> /\ Head(Diverging(Rows)) = Row(h)
  <1> DEFINE n == ev.end - ev.start + 1
             E == {Row(h) : h \in heights}
             kept == {row \in Range(Rows) : Diverges(row)}
             I == {i \in 1 .. Len(Rows) : Rows[i] \in kept}
             At(i) == ev.start + i - 1
  <1>1. /\ n \in Nat \ {0} /\ Rows \in Seq(E) /\ Len(Rows) = n
        /\ \A i \in 1 .. n : At(i) \in heights /\ Rows[i] = Row(At(i))
        /\ \A h \in heights : h \in Nat /\ h - ev.start + 1 \in 1 .. n /\ Rows[h - ev.start + 1] = Row(h)
    BY RowsFacts
  <1>2. ev.start \in Nat /\ Contradicted \subseteq heights
    BY EvidenceFacts DEF WellFormed, Contradicted
  <1>3. \A i \in 1 .. n : Rows[i] \in kept <=> At(i) \in Contradicted
    <2> SUFFICES ASSUME NEW i \in 1 .. n PROVE Rows[i] \in kept <=> At(i) \in Contradicted
      OBVIOUS
    <2>1. DOMAIN Rows = 1 .. n
      BY <1>1
    <2>2. Rows[i] \in Range(Rows)
      BY <2>1 DEF Range
    <2>3. Diverges(Rows[i]) <=> At(i) \in Contradicted
      BY <1>1, ContradictedIs
    <2> QED
      BY <2>2, <2>3
  <1>4. Diverging(Rows) = Retain(Rows, kept)
    BY DEF Diverging
  <1> HIDE DEF kept
  <1>5. Retain(Rows, kept) \in Seq(E) /\ Len(Retain(Rows, kept)) = Cardinality(I)
    <2> DEFINE list == Rows
    <2>1. list \in Seq(E)
      BY <1>1
    <2> HIDE DEF E, list
    <2>2. Retain(list, kept) \in Seq(E)
      BY <2>1, RetainCounts
    <2>3. Len(Retain(list, kept)) = Cardinality({i \in 1 .. Len(list) : list[i] \in kept})
      BY <2>1, RetainCounts
    <2> QED
      BY <2>2, <2>3 DEF list
  <1>6. Cardinality(I) = Cardinality(Contradicted)
    <2> DEFINE f == [i \in I |-> At(i)]
    <2>1. I \subseteq 1 .. n /\ \A i \in I : At(i) \in Contradicted
      BY <1>1, <1>3
    <2>2. f \in [I -> Contradicted]
      BY <2>1
    <2>3. \A i, j \in I : At(i) = At(j) => i = j
      BY <1>2, <2>1
    <2>4. \A h \in Contradicted : \E i \in I : At(i) = h
      <3> SUFFICES ASSUME NEW h \in Contradicted PROVE \E i \in I : At(i) = h
        OBVIOUS
      <3>1. h \in Nat /\ h - ev.start + 1 \in 1 .. n
        BY <1>1, <1>2
      <3>2. At(h - ev.start + 1) = h
        BY <1>2, <3>1
      <3> QED
        BY <1>1, <1>3, <3>1, <3>2
    <2> HIDE DEF At
    <2>5. f \in Bijection(I, Contradicted)
      BY <2>2, <2>3, <2>4 DEF Bijection, Injection, Surjection, IsInjective
    <2>6. ExistsBijection(I, Contradicted)
      BY <2>5 DEF ExistsBijection
    <2>7. IsFiniteSet(I)
      <3>1. IsFiniteSet(1 .. n)
        BY <1>1, FS_Interval
      <3> HIDE DEF I, n
      <3> QED
        BY <2>1, <3>1, FS_Subset
    <2> HIDE DEF I
    <2> QED
      BY <2>6, <2>7, FS_Bijection
  <1>7. Contradicted = {} => Diverging(Rows) = <<>>
    <2>1. Contradicted = {} => Len(Diverging(Rows)) = 0
      BY <1>4, <1>5, <1>6, FS_EmptySet
    <2> QED
      BY <1>4, <1>5, <2>1
  <1>8. ASSUME NEW h \in Contradicted, \A k \in Contradicted : h <= k
        PROVE  Diverging(Rows) # <<>> /\ Head(Diverging(Rows)) = Row(h)
    <2> DEFINE i == h - ev.start + 1
    <2>1. h \in Nat /\ i \in 1 .. n /\ Rows[i] = Row(h) /\ At(i) = h
      BY <1>1, <1>2
    <2>2. Rows[i] \in kept
      BY <1>3, <2>1
    <2>3. ASSUME NEW j \in 1 .. i - 1 PROVE Rows[j] \notin kept
      <3>1. j \in 1 .. n /\ At(j) < h /\ At(j) \in Nat
        BY <1>1, <1>2, <2>1
      <3>2. At(j) \notin Contradicted
        BY <1>8, <2>1, <3>1
      <3> QED
        BY <1>3, <3>1, <3>2
    <2>4. i \in 1 .. Len(Rows)
      BY <1>1, <2>1
    <2> HIDE DEF i, E
    <2>5. Retain(Rows, kept) # <<>> /\ Head(Retain(Rows, kept)) = Rows[i]
      BY <1>1, <2>2, <2>3, <2>4, RetainFirst
    <2> QED
      BY <1>4, <2>1, <2>5
  <1> QED
    BY <1>4, <1>5, <1>6, <1>7, <1>8

\* A check of an axis fails exactly when the axis differs somewhere.
LEMMA AxisChecks ==
  FailedChecks(BuiltReport) \cap {"per_height_balances_match", "per_height_deltas_match"} # {}
    <=> BalanceDiffers \cup DeltaDiffers # {}
  <1> DEFINE axes == {"per_height_balances_match", "per_height_deltas_match"}
             B == Condition("per_height_balances_match", BalanceDiffers = {})
             D == Condition("per_height_deltas_match", DeltaDiffers = {})
  <1>1. BuiltReport.checks = Registry
    BY DEF BuiltReport
  <1>2. B \in Registry /\ D \in Registry
    BY DEF Registry, AccountingChecks
  <1>3. ASSUME NEW c \in Registry, c.id \in axes PROVE c = B \/ c = D
    <2>1. \A s \in StructuralChecks : s.id \notin axes
      BY DEF StructuralChecks, Pass, Condition, Check
    <2>2. \A s \in ActivationChecks : s.id \notin axes
      BY DEF ActivationChecks, AnchorZero, NoIronwoodBefore, WithdrawalOnly, Pass, Condition, Check
    <2>3. ManifestAgreement.id \notin axes /\ Pass("canonical_report_generated").id \notin axes
      BY DEF ManifestAgreement, Pass, Condition, Check
    <2>4. c \in AccountingChecks
      BY <1>3, <2>1, <2>2, <2>3 DEF Registry
    <2> QED
      BY <1>3, <2>4 DEF AccountingChecks, Pass, Condition, Check
  <1>4. B.id \in axes /\ D.id \in axes /\ (B.status = "fail" <=> BalanceDiffers # {})
        /\ (D.status = "fail" <=> DeltaDiffers # {})
    BY DEF Condition, Check
  <1> HIDE DEF B, D
  <1> QED
    BY <1>1, <1>2, <1>3, <1>4 DEF FailedChecks

\* The verdict is that of the checks.
VerdictInv == Completed => phase = "done" /\ verdict = Overall(Registry)

LEMMA StepVerdict == WellFormed /\ VerdictInv /\ [Next]_vars => VerdictInv'
  <1> SUFFICES ASSUME WellFormed, VerdictInv, [Next]_vars PROVE VerdictInv'
    OBVIOUS
  <1>1. CASE Judge
    <2>1. Registry' = Registry
      <3>1. UNCHANGED <<ev, ledger, running, cumulative, flow, expected>>
        BY <1>1 DEF Judge, Conclude, totals
      <3>2. StructuralChecks' = StructuralChecks /\ ManifestAgreement' = ManifestAgreement
        BY <3>1 DEF StructuralChecks, ManifestAgreement, Reported, heights
      <3>3. ActivationChecks' = ActivationChecks
        BY <3>1 DEF ActivationChecks, AnchorZero, PreActivationIronwood, NoIronwoodBefore, WithdrawalOnly,
                    AddsToOrchard, Reported, heights
      <3>4. AccountingChecks' = AccountingChecks
        BY <3>1 DEF AccountingChecks, BalanceDiffers, DeltaDiffers, BalanceAgreement, DeltaAgreement,
                    Reported, heights
      <3> QED BY <3>2, <3>3, <3>4 DEF Registry
    <2> QED
      BY <1>1, <2>1 DEF Judge, Conclude, VerdictInv, Overall
  <1>2. CASE Reckon
    <2>1. verdict = "pending"
      BY <1>2 DEF Reckon, ReadAnchor, ReadBlock, SumTransaction, CloseBlock, RequireAnchor, Accumulate, NarrowTotals,
                  WellFormed, PositionInv
    <2>2. verdict' \in {"pending", "unsupported", "foreign", "unrepresentable", "incomplete"}
      BY <1>2, <2>1 DEF Reckon, ReadAnchor, ReadBlock, SumTransaction, CloseBlock, RequireAnchor, Accumulate,
                        NarrowTotals, Conclude, GoTo
    <2> QED
      BY <2>2 DEF VerdictInv, Completed
  <1>3. CASE UNCHANGED vars
    <2>1. UNCHANGED <<ev, phase, ledger, expected, verdict>>
      BY <1>3 DEF vars, position, totals
    <2>2. Registry' = Registry
      BY <2>1 DEF Registry, StructuralChecks, ManifestAgreement, ActivationChecks, AccountingChecks, AnchorZero,
                  PreActivationIronwood, NoIronwoodBefore, WithdrawalOnly, AddsToOrchard, BalanceDiffers,
                  DeltaDiffers, BalanceAgreement, DeltaAgreement, Reported, heights
    <2> QED
      BY <2>1, <2>2 DEF VerdictInv, Completed, Overall
  <1> QED
    BY <1>1, <1>2, <1>3 DEF Next

LEMMA ReportTells ==
  WellFormed /\ Telescoped /\ LedgerInv /\ VerdictInv => ReportTellsVerdict
  <1> SUFFICES ASSUME WellFormed, Telescoped, LedgerInv, VerdictInv, Completed PROVE ReportTellsVerdict
    BY DEF ReportTellsVerdict
  <1> DEFINE r == BuiltReport
             d == Diverging(Rows)
  <1>r. /\ r.start = ev.start /\ r.end = ev.end /\ r.rows = Rows /\ r.status = Overall(Registry)
        /\ r.expectedEnd = expected[ev.end] /\ r.reportedEnd = [p \in Pools |-> Reported(p)]
        /\ r.summary.compared = Len(Rows) /\ r.summary.diverging = Len(d)
        /\ r.summary.first = (IF d = <<>> THEN Absent ELSE Head(d).height)
    BY DEF BuiltReport, Summary
  <1>1. r.status = verdict
    BY <1>r DEF VerdictInv
  <1>2. r.summary.compared = r.end - r.start + 1
    BY <1>r, RowsFacts
  <1>3. r.summary.diverging = Cardinality(Contradicted)
    BY <1>r, DivergingRows
  <1>4. Contradicted = {} => r.summary.first = Absent
    BY <1>r, DivergingRows
  <1>5. ASSUME Contradicted # {}
        PROVE  /\ r.summary.first = CHOOSE h \in Contradicted : \A k \in Contradicted : h <= k
               /\ RenderedRows(r)[1].height = r.summary.first
    <2>1. Contradicted \in SUBSET Nat
      BY RowsFacts DEF Contradicted
    <2>2. PICK h \in Contradicted : \A k \in Contradicted : h <= k
      BY <1>5, <2>1, LeastNat
    <2>3. d # <<>> /\ Head(d) = Row(h) /\ d \in Seq({Row(k) : k \in heights})
      BY <2>2, DivergingRows
    <2>4. h = CHOOSE k \in Contradicted : \A l \in Contradicted : k <= l
      <3> DEFINE least(k) == \A l \in Contradicted : k <= l
      <3>1. \A k \in Contradicted : k \in Nat
        BY <2>1
      <3>2. \A k \in Contradicted : least(k) <=> k = h
        BY <2>2, <3>1
      <3> HIDE DEF least
      <3>3. h = CHOOSE k \in Contradicted : least(k)
        BY <3>2
      <3> QED
        BY <3>3 DEF least
    <2>5. r.summary.first = h
      BY <1>r, <2>3 DEF Row
    <2>6. RenderedRows(r)[1] = d[1]
      <3> DEFINE m == IF Len(d) < MaxRows THEN Len(d) ELSE MaxRows
      <3>1. RenderedRows(r) = SubSeq(d, 1, m)
        BY <1>r, <2>3 DEF RenderedRows
      <3> HIDE DEF d
      <3>2. Len(d) \in Nat \ {0}
        BY <2>3
      <3>3. m \in 1 .. Len(d)
        BY <3>2, RowsAssumption
      <3> HIDE DEF m
      <3>4. SubSeq(d, 1, m)[1] = d[1]
        BY <2>3, <3>2, <3>3
      <3> QED
        BY <3>1, <3>4
    <2>7. d[1] = Row(h)
      <3> HIDE DEF d
      <3> QED
        BY <2>3
    <2> QED
      BY <2>4, <2>5, <2>6, <2>7 DEF Row
  <1>6. FailedChecks(r) \cap {"per_height_balances_match", "per_height_deltas_match"} # {} <=> Contradicted # {}
    BY AxisChecks, ContradictedIs
  <1>7. ASSUME verdict \in Accepted
        PROVE  /\ r.summary.diverging = 0
               /\ r.rows[Len(r.rows)].expected = r.expectedEnd
               /\ r.reportedEnd = r.expectedEnd
    <2>1. \A c \in Registry : c.status # "fail"
      BY <1>7 DEF VerdictInv, Overall, Accepted
    <2>2. BalanceDiffers = {} /\ DeltaDiffers = {} /\ \A p \in Pools : Reported(p) = expected[ev.end][p]
      BY <2>1, ChecksPassed
    <2>3. r.summary.diverging = 0
      <3>1. Contradicted = {}
        BY <2>2, ContradictedIs
      <3> QED
        BY <1>3, <3>1, FS_EmptySet
    <2>4. ev.end \in heights
      BY EvidenceFacts DEF WellFormed, heights
    <2>5. r.rows[Len(r.rows)] = Row(ev.end)
      BY <1>r, <2>4, RowsFacts
    <2>6. r.reportedEnd = r.expectedEnd
      <3>1. expected[ev.end] \in [Pools -> Money]
        BY <2>4 DEF WellFormed, TypeOK
      <3> QED
        BY <1>r, <2>2, <3>1
    <2> QED
      BY <1>r, <2>3, <2>5, <2>6 DEF Row
  <1> HIDE DEF r
  <1> QED
    BY <1>1, <1>2, <1>3, <1>4, <1>5, <1>6, <1>7 DEF ReportTellsVerdict, r

\* Whatever the evidence, the report of a completed reconciliation tells what its
\* verdict rests on: it counts the heights the node contradicts, names and renders
\* the first of them, and an accepted one has none (builder.rs, markdown.rs).
THEOREM ReportIsTrue == Spec => []ReportTellsVerdict
  <1>1. Init => Telescoped
    BY DEF Init, Telescoped, RunningInv, StepInv, AxesInv, Reckoned, Completed
  <1>2. Init => LedgerInv /\ VerdictInv
    BY DEF Init, LedgerInv, VerdictInv, Summed, Completed
  <1> QED
    BY <1>1, <1>2, InitWellFormed, StepWellFormed, StepTelescopes, StepSums, StepVerdict, ReportTells, PTL DEF Spec
=============================================================================
