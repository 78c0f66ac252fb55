SPECIFICATION Spec
CONSTANTS
  Evidence <- MCEvidence
  MaxMoney = 2
  MaxLong = 3
  Activation = 2
  Absent = Absent
  MaxRows = 1
INVARIANTS TypeOK BalancesAreExact AcceptedIsAccounted AxesDivergeTogether PoolsFollowActivation ValidIntervalPasses ReportTellsVerdict
CHECK_DEADLOCK FALSE
