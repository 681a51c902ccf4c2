SPECIFICATION Spec
CONSTANTS
  u1 = u1
  u2 = u2
  pro = pro
  plus = plus
  Free = free
  Daily = daily
  Code = code
  None = none
  TrialPlan = pro
  User = {u1}
  Payment = {1, 2}
  Sub = {11, 12}
  Plan = {pro, plus}
  Worker = {w1, w2}
  UserOf <- AllOfU1
  PlanOf <- Upgrade
  ProviderOf <- StarsThenCard
  Coded = {}
  Period <- OneDay
  Price <- Prices
  TrialDays = 1
  GiftDays = 1
  GraceDays = 1
  ReviewTTL = 1
  MaxUses = 1
  Disorder = FALSE
  MaxTime = 1
  Unsolicited = {"gateway", "stars", "card"}
  Ops = {"settle", "approve", "reject", "refund", "daily"}
PROPERTIES
  IsLedger
\* The instance stops when its requests and its clock are used up.
CHECK_DEADLOCK FALSE
