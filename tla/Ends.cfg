SPECIFICATION FairSpec
CONSTANTS
  u1 = u1
  u2 = u2
  pro = pro
  plus = plus
  Free = free
  Daily = daily
  Code = code
  None = none
  TrialPlan = pro
  User = {u1}
  Payment = {1}
  Sub = {11, 12}
  Plan = {pro}
  Worker = {w1, w2}
  UserOf <- AllOfU1
  PlanOf <- Upgrade
  ProviderOf <- Gateway
  Coded = {}
  Period <- OneDay
  Price <- Prices
  TrialDays = 1
  GiftDays = 1
  GraceDays = 1
  ReviewTTL = 1
  MaxUses = 1
  Disorder = TRUE
  MaxTime = 2
  Unsolicited = {"stars", "card"}
  Ops = {"settle", "refund", "gift", "daily"}
PROPERTIES
  RequestsEnd
  DueIsHandled
\* The instance stops when its requests and its clock are used up.
CHECK_DEADLOCK FALSE
