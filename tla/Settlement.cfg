SPECIFICATION Spec
CONSTANTS
  u1 = u1
  u2 = u2
  pro = pro
  plus = plus
  Free = free
  Daily = daily
  Code = code
  None = none
  TrialPlan = pro
  User = {u1}
  Payment = {1, 2}
  Sub = {11, 12}
  Plan = {pro, plus}
  Worker = {w1, w2}
  UserOf <- AllOfU1
  PlanOf <- Upgrade
  ProviderOf <- StarsThenCard
  Coded = {1}
  Period <- OneDay
  Price <- Prices
  TrialDays = 1
  GiftDays = 1
  GraceDays = 1
  ReviewTTL = 0
  MaxUses = 1
  Disorder = TRUE
  MaxTime = 0
  Unsolicited = {"stars", "card"}
  Ops = {"settle", "approve", "reject", "refund", "receipt", "daily", "crash"}
INVARIANTS
  TypeOK
  OneLivePerUser
  RefundedNotLive
PROPERTIES
  SettledStays
  ReceiptStopsDeadline
\* The instance stops when its requests and its clock are used up.
CHECK_DEADLOCK FALSE
