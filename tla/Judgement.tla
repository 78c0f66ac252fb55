----------------------------- MODULE Judgement -----------------------------
(***************************************************************************)
(* The checks a completed reconciliation records, and the verdict drawn    *)
(* from them (src/checks, src/commands/reconcile.rs, src/report).          *)
(***************************************************************************)
EXTENDS Accounting

Check(id, status) == [id |-> id, status |-> status]
Pass(id) == Check(id, "pass")
Condition(id, passed) == Check(id, IF passed THEN "pass" ELSE "fail")

\* What the node says after the last block; it may have said nothing.
Reported(p) == ev.records[ev.end].balance[p]

-----------------------------------------------------------------------------
\* The two axes.  A figure the node did not report agrees with nothing and
\* differs from nothing.
Agreement(computed, reported) ==
  IF reported = Absent THEN "notReported" ELSE IF reported = computed THEN "agrees" ELSE "differs"

BalanceAgreement(h, p) == Agreement(expected[h][p], ev.records[h].balance[p])
DeltaAgreement(h, p) == Agreement(ledger[h][p], ev.records[h].delta[p])

BalanceDiffers == {h \in heights : \E p \in Pools : BalanceAgreement(h, p) = "differs"}
DeltaDiffers == {h \in heights : \E p \in Pools : DeltaAgreement(h, p) = "differs"}

AccountingChecks ==
  {Pass("orchard_deltas_reconstructed"),
   Pass("ironwood_deltas_reconstructed"),
   Pass("no_arithmetic_overflow"),
   Condition("no_negative_pool_balance", \A h \in heights, p \in Pools : expected[h][p] >= 0),
   Condition("per_height_balances_match", BalanceDiffers = {}),
   Condition("per_height_deltas_match", DeltaDiffers = {}),
   Condition("orchard_end_balance_matches", Reported("orchard") = expected[ev.end]["orchard"]),
   Condition("ironwood_end_balance_matches", Reported("ironwood") = expected[ev.end]["ironwood"]),
   Condition("end_balances_corroborated", \A p \in Pools : Reported(p) # Absent)}

-----------------------------------------------------------------------------
\* Slip: the activation block itself is left out.
IsAfterActivation(h) == h > Activation

IsPostActivation(h) == h >= Activation

\* Slip: the figure is read at activation.
IronwoodAtActivation == IF Activation \in heights THEN ev.records[Activation].balance["ironwood"] ELSE Absent

\* The last block before activation may be the anchor or lie in the interval;
\* without it, or without its figure, the check does not apply.
PreActivationIronwood ==
  LET boundary == Activation - 1
  IN IF boundary = ev.start - 1 THEN ev.anchor.balance["ironwood"]
     ELSE IF boundary \in heights THEN ev.records[boundary].balance["ironwood"]
     ELSE Absent

AnchorZero ==
  IF PreActivationIronwood = Absent THEN Check("ironwood_anchor_zero", "notApplicable")
  ELSE Condition("ironwood_anchor_zero", PreActivationIronwood = 0)

NoIronwoodBefore ==
  LET before == {h \in heights : ~ IsPostActivation(h)}
  IN IF before = {} THEN Check("no_ironwood_before_activation", "notApplicable")
     ELSE Condition("no_ironwood_before_activation", \A h \in before : ledger[h]["ironwood"] = 0)

\* Slip: the block total is tested.
GrowsOrchard(h) == ledger[h]["orchard"] > 0

\* ZIP 258 speaks of every transaction: a block total could net one away.
AddsToOrchard(h) ==
  \E i \in DOMAIN ev.blocks[h] : Delta(ev.blocks[h][i], "orchard") > 0

WithdrawalOnly ==
  LET after == {h \in heights : IsPostActivation(h)}
  IN IF after = {} THEN Check("orchard_withdrawal_only", "notApplicable")
     ELSE Condition("orchard_withdrawal_only", \A h \in after : ~ AddsToOrchard(h))

ActivationChecks ==
  {Condition("activation_context_valid", ev.declared.activation = Activation),
   AnchorZero, NoIronwoodBefore, WithdrawalOnly,
   Pass("consensus_branch_id_valid"),
   Pass("transaction_versions_recognized")}

-----------------------------------------------------------------------------
\* The walk of Verify has already refused damaged files and missing blocks.
StructuralChecks ==
  {Pass("manifest_schema_recognized"),
   Pass("evidence_hashes_valid"),
   Pass("network_matches"),
   Condition("anchor_block_present", ev.anchorBlock),
   Pass("block_sequence_complete"),
   Condition("previous_block_links_valid", ev.linked)}
    \cup (IF ev.unlisted THEN {Check("evidence_hashes_valid", "warn")} ELSE {})

ManifestAgreement ==
  Condition("manifest_matches_evidence",
            \A p \in Pools : ev.declared.anchor[p] = ev.anchor.balance[p] /\ ev.declared.end[p] = Reported(p))

Registry ==
  StructuralChecks \cup {ManifestAgreement} \cup ActivationChecks \cup AccountingChecks
    \cup {Pass("canonical_report_generated")}

\* overall_status of a registry; a check that does not apply counts for
\* nothing, and neither does the order of recording.
Overall(registry) ==
  IF \E c \in registry : c.status = "fail" THEN "failed"
  ELSE IF \E c \in registry : c.status = "warn" THEN "warned"
  ELSE "passed"

Judge == phase = "judge" /\ Conclude(Overall(Registry))

Next == Reckon \/ Judge

Spec == Init /\ [][Next]_vars
=============================================================================
