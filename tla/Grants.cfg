SPECIFICATION FairSpec
CONSTANTS
  Workers = {w1, w2}
  NumGrants = 2
  MaxUses = 2
  Unlimited = Unlimited
  Configs <- TwoGrants
  Requests <- TwoRequests
  Times <- Clock
  MaxEdits = 2
  Free = Free
  Absent = Absent
  Revocation = Revocation
INVARIANTS WithinBudget ReadsAreFresh
PROPERTIES NothingAfterRevocation ImplementsBudget NoUsableGrantHidden AlwaysAnswered
