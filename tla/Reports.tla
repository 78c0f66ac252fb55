------------------------------- MODULE Reports -------------------------------
(***************************************************************************)
(* The report of a completed reconciliation: its row for every height, the *)
(* summary of the rows, its checks and status (src/report/builder.rs,      *)
(* src/report/schema.rs), and the rows its rendering shows                 *)
(* (src/report/markdown.rs).  The wording and the order of the checks,     *)
(* which a set of checks does not have, are left out.                      *)
(***************************************************************************)
EXTENDS JudgementSafety, Lists

CONSTANT MaxRows  \* MAX_RENDERED_ROWS

ASSUME RowsAssumption == MaxRows \in Nat \ {0}

\* HeightRow, from the outcome of a height.
Row(h) ==
  [height |-> h,
   delta |-> ledger[h],
   expected |-> expected[h],
   reported |-> ev.records[h].balance,
   balances |-> [p \in Pools |-> BalanceAgreement(h, p)],
   deltas |-> [p \in Pools |-> DeltaAgreement(h, p)]]

\* Slip: the axis that was added later is forgotten.
DivergesInBalance(row) == \E p \in Pools : row.balances[p] = "differs"

\* HeightRow::diverges.
Diverges(row) == \E p \in Pools : "differs" \in {row.balances[p], row.deltas[p]}

\* The rows filtered by HeightRow::diverges.
Diverging(rows) == Retain(rows, {row \in Range(rows) : Diverges(row)})

\* The rows of the interval, in ascending order of their heights.
Rows == [i \in 1 .. Cardinality(heights) |-> Row(ev.start + i - 1)]

\* PerHeightSummary; a height at which nothing was reported counts as compared.
Summary(rows) ==
  LET diverging == Diverging(rows)
  IN  [compared |-> Len(rows),
       diverging |-> Len(diverging),
       first |-> IF diverging = <<>> THEN Absent ELSE Head(diverging).height]

\* build.
BuiltReport ==
  [start |-> ev.start, end |-> ev.end,
   anchor |-> ev.anchor.balance,
   expectedEnd |-> expected[ev.end],
   reportedEnd |-> [p \in Pools |-> Reported(p)],
   rows |-> Rows,
   summary |-> Summary(Rows),
   checks |-> Registry,
   status |-> Overall(Registry)]

\* render_per_height: the first rows, of those that diverge if any does.
RenderedRows(r) ==
  LET diverging == Diverging(r.rows)
      shown == IF diverging = <<>> THEN r.rows ELSE diverging
  IN  SubSeq(shown, 1, IF Len(shown) < MaxRows THEN Len(shown) ELSE MaxRows)

-----------------------------------------------------------------------------
FailedChecks(r) == {c.id : c \in {c \in r.checks : c.status = "fail"}}

\* The heights at which the node contradicts what its blocks sum up to.
Contradicted ==
  {h \in heights : \E p \in Pools :
     \/ ev.records[h].balance[p] \notin {Absent, TrueBalance(h, p)}
     \/ ev.records[h].delta[p] \notin {Absent, BlockTotal(h, p)}}

\* What a reader is told first is what the verdict rests on: the summary counts the
\* heights the node contradicts and names the least of them, the rendering shows
\* that one, a check of an axis fails exactly when there is one, a report that is
\* accepted has none, and its last row is where the end balances come from
\* (src/report/builder.rs:58, src/report/markdown.rs:146, src/checks/accounting.rs:102).
ReportTellsVerdict ==
  Completed =>
    LET r == BuiltReport
    IN  /\ r.status = verdict
        /\ r.summary.compared = r.end - r.start + 1
        /\ r.summary.diverging = Cardinality(Contradicted)
        /\ IF Contradicted = {} THEN r.summary.first = Absent
           ELSE /\ r.summary.first = CHOOSE h \in Contradicted : \A k \in Contradicted : h <= k
                /\ RenderedRows(r)[1].height = r.summary.first
        /\ FailedChecks(r) \cap {"per_height_balances_match", "per_height_deltas_match"} # {}
             <=> Contradicted # {}
        /\ verdict \in Accepted =>
             /\ r.summary.diverging = 0
             /\ r.rows[Len(r.rows)].expected = r.expectedEnd
             /\ r.reportedEnd = r.expectedEnd
=============================================================================
