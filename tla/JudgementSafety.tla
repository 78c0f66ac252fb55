-------------------------- MODULE JudgementSafety --------------------------
(***************************************************************************)
(* What a verdict means, against sums taken over the whole interval.       *)
(***************************************************************************)
EXTENDS Judgement, FiniteSetsExt, Functions

\* A report was produced.
Completed == verdict \in {"failed", "warned", "passed"}

\* What every transaction of a block adds to a pool, and every block.
Gains(h, p) == [i \in DOMAIN ev.blocks[h] |-> - ev.blocks[h][i].value[p]]
BlockTotal(h, p) == SumFunction(Gains(h, p))
BlockTotals(p) == [h \in heights |-> BlockTotal(h, p)]
TrueBalance(h, p) == ev.anchor.balance[p] + SumFunctionOnSet(BlockTotals(p), ev.start .. h)

\* The heights whose balance has been reconstructed.
Reckoned ==
  {h \in heights : phase \in {"totals", "judge"} \/ Completed \/ (phase = "accumulate" /\ h < at)}

\* Every reconstructed balance is the anchor's and all the transactions since:
\* none is wrapped, counted twice or left out, whatever the order of heights
\* and errors (interval.rs, ledger.rs, zatoshi.rs).
BalancesAreExact == \A h \in Reckoned, p \in Pools : expected[h][p] = TrueBalance(h, p)

\* Exit code 0 vouches for the whole interval: every transaction belongs to
\* its branch, no pool goes below zero, none of them adds to Orchard once
\* withdrawal-only, the Ironwood pool is untouched before it exists and empty
\* at the boundary if the node reported it there, each figure the node gave is the true one, and
\* the manifest repeats the end balances (checks, main.rs, exit.rs).
AcceptedIsAccounted ==
  verdict \in Accepted =>
    /\ ev.linked /\ ev.anchorBlock
    /\ \A h \in heights :
         /\ \A i \in DOMAIN ev.blocks[h] :
              /\ ev.blocks[h][i].native
              /\ h >= Activation => ev.blocks[h][i].value["orchard"] >= 0
         /\ h < Activation => BlockTotal(h, "ironwood") = 0
         /\ h = Activation - 1 => ev.records[h].balance["ironwood"] \in {0, Absent}
         /\ \A p \in Pools :
              /\ TrueBalance(h, p) >= 0
              /\ ev.records[h].balance[p] \in {TrueBalance(h, p), Absent}
              /\ ev.records[h].delta[p] \in {BlockTotal(h, p), Absent}
    /\ ev.start = Activation => ev.anchor.balance["ironwood"] = 0
    /\ \A p \in Pools : ev.declared.end[p] = TrueBalance(ev.end, p) /\ Reported(p) # Absent

-----------------------------------------------------------------------------
\* The node's balance before a height.
Before(h, p) == IF h = ev.start THEN ev.anchor.balance[p] ELSE ev.records[h - 1].balance[p]

\* The node reports everything, and its delta is the difference of its own
\* balances (zebra, as interval.rs describes it).
NodeDerivesDeltas ==
  \A p \in Pools :
    /\ ev.anchor.balance[p] # Absent
    /\ \A h \in heights :
         /\ ev.records[h].balance[p] # Absent
         /\ ev.records[h].delta[p] = ev.records[h].balance[p] - Before(h, p)

\* The two axes are one comparison: against such a node, a pool agrees on its
\* balance up to a height exactly when it agrees on its delta up to there.  The
\* first divergence is therefore in the block that caused it (interval.rs).
AxesDivergeTogether ==
  Completed /\ NodeDerivesDeltas =>
    \A p \in Pools, h \in heights :
      (\A k \in ev.start .. h : BalanceAgreement(k, p) = "agrees")
        <=> (\A k \in ev.start .. h : DeltaAgreement(k, p) = "agrees")

\* The reconstructed balance before a height.
Preceding(h, p) == IF h = ev.start THEN ev.anchor.balance[p] ELSE expected[h - 1][p]

\* In an accepted interval the reconstructed Orchard balance never grows from
\* activation on, and the Ironwood balance never moves below it (activation.rs).
PoolsFollowActivation ==
  verdict \in Accepted =>
    \A h \in heights :
      IF h >= Activation THEN expected[h]["orchard"] <= Preceding(h, "orchard")
                         ELSE expected[h]["ironwood"] = Preceding(h, "ironwood")

-----------------------------------------------------------------------------
\* The evidence of an interval of a valid chain, from a node that is right.
Valid ==
  /\ ev.linked /\ ev.anchorBlock
  /\ ev.declared = [anchor |-> ev.anchor.balance, end |-> ev.records[ev.end].balance, activation |-> Activation]
  /\ NodeDerivesDeltas
  /\ \A h \in heights :
       /\ \A i \in DOMAIN ev.blocks[h] :
            /\ ev.blocks[h][i].native
            /\ \A p \in Pools : ev.blocks[h][i].value[p] \in Money
            /\ h >= Activation => ev.blocks[h][i].value["orchard"] >= 0
       /\ h < Activation => ev.records[h].balance["ironwood"] = 0
       /\ \A p \in Pools : ev.records[h].balance[p] = TrueBalance(h, p) /\ TrueBalance(h, p) \in 0 .. MaxMoney
  /\ ev.start <= Activation => ev.anchor.balance["ironwood"] = 0
  /\ \A p \in Pools : ev.anchor.balance[p] \in 0 .. MaxMoney
  /\ ev.anchor.delta \in [Pools -> Money \cup {Absent}]

\* The gross flows, which may exceed the supply over a long enough interval.
Flows(p) == [h \in heights |-> Flowing(p, BlockTotal(h, p))]
GrossFlow(p) == SumFunction(Flows(p))

\* The first transactions of a block never move more than 64 bits hold.  A
\* block of 2 MB has room for some hundreds of Orchard bundles, each of at
\* most MAX_MONEY, and it would take over four thousand.
Fits(h) == \A p \in Pools, n \in 0 .. Len(ev.blocks[h]) : SumFunctionOnSet(Gains(h, p), 1 .. n) \in Long

\* The evidence of a valid chain is never failed nor refused, provided that its
\* blocks are of the size consensus allows and its gross flows stay within the
\* money supply (interval.rs narrows them too).
ValidIntervalPasses ==
  phase = "done" /\ Valid /\ (\A h \in heights : Fits(h)) /\ (\A p \in Pools : GrossFlow(p) \in Money) =>
    verdict = (IF ev.unlisted THEN "warned" ELSE "passed")
=============================================================================
