SPECIFICATION Spec
CONSTANTS
  u1 = u1
  u2 = u2
  pro = pro
  plus = plus
  Free = free
  Daily = daily
  Code = code
  None = none
  TrialPlan = pro
  User = {u1}
  Payment = {1, 2}
  Sub = {11, 12, 13}
  Plan = {pro, plus}
  Worker = {w1}
  UserOf <- AllOfU1
  PlanOf <- Upgrade
  ProviderOf <- Gateway
  Coded = {}
  Period <- OneDay
  Price <- Prices
  TrialDays = 1
  GiftDays = 1
  GraceDays = 1
  ReviewTTL = 1
  MaxUses = 1
  Disorder = TRUE
  MaxTime = 0
  Unsolicited = {}
  Ops = {"settle", "refund"}
INVARIANTS
  CacheNeverUnderstates
\* The instance stops when its requests and its clock are used up.
CHECK_DEADLOCK FALSE
