------------------------------- MODULE Billing -------------------------------
(***************************************************************************)
(* Payments and subscriptions: backend/app/services/subscriptions.py and   *)
(* the handlers that call it (bot/payments.py, api/routers/payments.py,    *)
(* api/routers/admin.py, workers/jobs.py).                                 *)
(*                                                                         *)
(* Every handler is one PostgreSQL transaction (db.py:session_scope) at    *)
(* READ COMMITTED.  The variables payment, user, sub and uses are the      *)
(* COMMITTED rows.  A transaction advances one statement at a time: it     *)
(* takes row locks, remembers what it read, and its writes become visible  *)
(* in the single step that commits it and drops its locks.  All rows it    *)
(* writes are locked by it first, so deferring the writes to the commit    *)
(* changes nothing another transaction could see.                          *)
(***************************************************************************)
EXTENDS Naturals, FiniteSets

CONSTANTS
  User,          \* user ids
  Payment,       \* payment ids, in the order the database hands them out
  Sub,           \* subscription ids, likewise
  Plan,          \* codes of the plans that are sold
  Free,          \* users.plan_code of a user without a subscription
  Worker,        \* concurrent request handlers
  Daily,         \* the daily job subscriptions_daily (arq runs one at a time)
  Code,          \* the row of the one discount code in use
  None           \* SQL NULL / not loaded

CONSTANTS
  UserOf,        \* [Payment -> User]      who checked out
  PlanOf,        \* [Payment -> Plan]      what
  ProviderOf,    \* [Payment -> Provider]  with which provider
  Coded,         \* payments whose checkout named the discount code
  Period,        \* [Plan -> days]
  Price,         \* [Plan -> IRR price], 0: not sold in IRR
  TrialPlan,     \* "pro_monthly" in start_trial and gift
  TrialDays, GiftDays, GraceDays, ReviewTTL, MaxUses

CONSTANTS
  Ops,           \* the requests the environment issues in this instance
  Unsolicited,   \* providers to whose callback route requests come that they did not send
  Disorder,      \* whether requests about one payment overlap or come late
  MaxTime        \* bound on the clock

Provider == {"gateway", "stars", "card"}

Statuses == {"absent", "pending", "pending_review", "paid", "failed",
             "rejected", "expired", "refunded"}
SubStatuses == {"absent", "trialing", "active", "grace", "expired", "canceled",
                "refunded"}
Sources == {"payment", "trial", "gift"}
AllOps == {"settle", "approve", "reject", "refund", "receipt", "trial", "gift", "daily",
           "crash"}

Row == Payment \cup User \cup Sub \cup {Code}   \* what a transaction can lock
Actor == Worker \cup {Daily}

ASSUME IdsAreNumbers == Payment \subseteq Nat /\ Sub \subseteq Nat
ASSUME OrdersAreTyped ==
  /\ UserOf \in [Payment -> User]
  /\ PlanOf \in [Payment -> Plan]
  /\ ProviderOf \in [Payment -> Provider]
  /\ Coded \subseteq Payment
ASSUME PlansAreTyped ==
  /\ Period \in [Plan -> Nat \ {0}]
  /\ Price \in [Plan -> Nat]
  /\ TrialPlan \in Plan
  /\ Free \notin Plan
ASSUME DaysAreNumbers ==
  /\ {TrialDays, GiftDays, ReviewTTL, MaxTime, MaxUses} \subseteq Nat
  /\ GiftDays > 0                   \* the admin route takes 1 to 3650 days
  /\ GraceDays \in Nat
ASSUME OpsAreKnown == Ops \subseteq AllOps /\ Disorder \in BOOLEAN
ASSUME CallbacksAreKnown == Unsolicited \subseteq Provider
ASSUME RowsAreDistinct ==
  /\ Payment \cap Sub = {}
  /\ User \cap (Payment \cup Sub) = {}
  /\ Code \notin Payment \cup User \cup Sub
  /\ Daily \notin Worker
ASSUME NoneIsNoValue ==
  None \notin User \cup Plan \cup Sub \cup Payment \cup Nat \cup Statuses \cup Sources \cup {Free}

VARIABLES
  now,           \* the clock, in days
  payment,       \* payments: status, receipt_file_id, review_due_at, reviewed_by
  gateway,       \* the provider's own record of each payment
  user,          \* users: plan_code, premium_until, trial_used
  sub,           \* subscriptions
  uses,          \* discount_codes.uses
  redeemed,      \* discount_redemptions, by payment_id
  tx,            \* the transaction each worker runs
  held,          \* row locks held by each actor
  job            \* the transaction of the daily job

db == <<payment, user, sub, uses, redeemed>>
vars == <<now, payment, gateway, user, sub, uses, redeemed, tx, held, job>>

------------------------------------------------------------------------------
\* Rows and locks.

LiveStatuses == {"active", "trialing", "grace"}
IsLive(s) == sub[s].status \in LiveStatuses
LiveSubs(u) == {s \in Sub : IsLive(s) /\ sub[s].user = u}

FreeFor(a, r) == \A b \in Actor \ {a} : r \notin held[b]

Take(a, r) == held' = [held EXCEPT ![a] = @ \cup {r}]

NoSub == [status |-> "absent", user |-> None, plan |-> None, source |-> None,
          payment |-> None, expires |-> 0, until |-> 0]
Idle == [op |-> "none", pc |-> "idle", pay |-> None, user |-> None,
         plan |-> None, seen |-> None, seenPlan |-> None, at |-> 0,
         live |-> None, todo |-> {}]
JobIdle == [pc |-> "idle", at |-> 0, todo |-> {}, graced |-> {}, lapsed |-> {},
            stale |-> {}]

\* Faulty variant of End: a session that is never closed.
EndUnclosed(w) == tx' = [tx EXCEPT ![w] = Idle] /\ UNCHANGED held

\* Commit or rollback: the session is closed and every lock is dropped.
End(w) ==
  /\ tx' = [tx EXCEPT ![w] = Idle]
  /\ held' = [held EXCEPT ![w] = {}]

Init ==
  /\ now = 0
  /\ payment = [p \in Payment |->
                  [status |-> "absent", receipt |-> FALSE, due |-> 0, reviewed |-> FALSE]]
  /\ gateway = [p \in Payment |-> "open"]
  /\ user = [u \in User |-> [plan |-> Free, until |-> None, trialUsed |-> FALSE]]
  /\ sub = [s \in Sub |-> NoSub]
  /\ uses = 0
  /\ redeemed = {}
  /\ tx = [w \in Worker |-> Idle]
  /\ held = [a \in Actor |-> {}]
  /\ job = JobIdle


------------------------------------------------------------------------------
\* What happens around the handlers.

Tick ==
  /\ now < MaxTime
  /\ now' = now + 1
  /\ UNCHANGED <<db, gateway, tx, held, job>>

(***************************************************************************)
(* start_checkout.  Its transaction inserts a row nobody else can see yet  *)
(* and writes nothing else, so it is one step.  A ProviderError is raised  *)
(* through session_scope: the row is rolled back and the step does not     *)
(* happen.  apply_discount reads uses without a lock.                      *)
(***************************************************************************)
start_checkout(p) ==
  /\ payment[p].status = "absent"
  /\ \A q \in Payment : q < p => payment[q].status # "absent"
  /\ p \in Coded => /\ uses < MaxUses
                    /\ \A q \in redeemed : UserOf[q] # UserOf[p]
  /\ payment' = [payment EXCEPT
       ![p].status = IF ProviderOf[p] = "card" THEN "pending_review" ELSE "pending",
       ![p].due = IF ProviderOf[p] = "card" THEN now + ReviewTTL ELSE 0]
  /\ UNCHANGED <<now, gateway, user, sub, uses, redeemed, tx, held, job>>

\* on_pre_checkout: Telegram charges only after this answer.
on_pre_checkout(p) ==
  /\ ProviderOf[p] = "stars"
  /\ gateway[p] = "open"
  /\ payment[p].status \in {"created", "pending"}
  /\ gateway' = [gateway EXCEPT ![p] = "agreed"]
  /\ UNCHANGED <<now, db, tx, held, job>>

\* The provider takes the user's money.
Capture(p) ==
  /\ payment[p].status # "absent"
  /\ \/ ProviderOf[p] = "gateway" /\ gateway[p] = "open"
     \/ ProviderOf[p] = "stars" /\ gateway[p] = "agreed"
  /\ gateway' = [gateway EXCEPT ![p] = "captured"]
  /\ UNCHANGED <<now, db, tx, held, job>>

------------------------------------------------------------------------------
\* Requests.

Idling(w, op) == tx[w].pc = "idle" /\ op \in Ops

\* Without Disorder requests about one payment come one after the other, nothing is
\* asked of a refunded one, and no admin approves a paid one.
MayTouch(op, p) ==
  /\ payment[p].status # "absent"
  /\ \/ Disorder
     \/ /\ \A w \in Worker : tx[w].pay # p
        /\ payment[p].status # "refunded"
        /\ op = "approve" => payment[p].status # "paid"

\* Bound: a subscription id is left for every transaction that may insert one.
Granting == {w \in Worker : tx[w].op \in {"settle", "approve", "trial", "gift"}}
Room == Cardinality({s \in Sub : sub[s].status = "absent"}) > Cardinality(Granting)

Begin(w, op, p, u, pl, seen, seenPlan, pc) ==
  /\ tx' = [tx EXCEPT ![w] = [Idle EXCEPT !.op = op, !.pay = p, !.user = u,
                 !.plan = pl, !.seen = seen, !.seenPlan = seenPlan,
                 !.at = IF op = "receipt" THEN now ELSE 0,
                 !.pc = pc]]
  /\ UNCHANGED <<now, db, gateway, held, job>>

(***************************************************************************)
(* settle_callback: _find_payment loads the row WITHOUT a lock into the    *)
(* session's identity map; a "paid" one ends here.  A callback names its   *)
(* payment by public_id, of whatever provider.  on_successful_payment is   *)
(* Telegram's word that it took the Stars of an invoice; it has loaded the *)
(* user, the same way, before.                                             *)
(***************************************************************************)
Callback(w, p, seenPlan) ==
  /\ Idling(w, "settle") /\ MayTouch("settle", p) /\ Room
  /\ payment[p].status # "paid"
  /\ Begin(w, "settle", p, UserOf[p], PlanOf[p], payment[p].status, seenPlan, "lockPay")

gateway_callback(w, p) ==
  /\ ProviderOf[p] = "gateway" \/ Unsolicited # {}
  /\ Callback(w, p, None)

on_successful_payment(w, p) ==
  /\ ProviderOf[p] = "stars" /\ gateway[p] = "captured"
  /\ Callback(w, p, user[UserOf[p]].plan)

settle_callback(w, p) == gateway_callback(w, p) \/ on_successful_payment(w, p)

\* approve, reject: an admin decides, from a page or a message of any age.  The queue
\* lists card payments, the handlers take any.
on_review_decision(w, op, p) ==
  /\ op \in {"approve", "reject"} /\ Idling(w, op) /\ MayTouch(op, p)
  /\ op = "approve" => Room
  /\ Begin(w, op, p, UserOf[p], PlanOf[p], None, None, "lockPay")

\* An admin's refund, or Telegram's refunded_payment, which has loaded the row before.
refund(w, p) ==
  /\ Idling(w, "refund") /\ MayTouch("refund", p)
  /\ \E seen \in {None} \cup (IF ProviderOf[p] = "stars" THEN {payment[p].status} ELSE {}) :
       Begin(w, "refund", p, UserOf[p], None, seen, None, "lockPay")

\* on_receipt_photo: pending_card_payment reads, without a lock, the newest one.
on_receipt_photo(w, p) ==
  /\ Idling(w, "receipt") /\ MayTouch("receipt", p)
  /\ LET waiting == {q \in Payment : /\ UserOf[q] = UserOf[p]
                                     /\ ProviderOf[q] = "card"
                                     /\ payment[q].status = "pending_review"}
     IN p \in waiting /\ \A q \in waiting : q <= p
  /\ Begin(w, "receipt", p, UserOf[p], None, payment[p].status, None, "lockPay")

start_trial(w, u) ==
  /\ Idling(w, "trial") /\ Room
  /\ Begin(w, "trial", None, u, TrialPlan, None, None, "lockUser")

gift(w, u, pl) ==
  /\ Idling(w, "gift") /\ Room
  /\ Begin(w, "gift", None, u, pl, None, None, "lockUser")

------------------------------------------------------------------------------
(***************************************************************************)
(* Statements on the payment row.  locked_payment selects FOR UPDATE, but  *)
(* an object already in the identity map keeps the attributes it was first *)
(* loaded with, and an attribute set to its loaded value is not written.   *)
(***************************************************************************)
Seen(w) == IF tx[w].seen = None THEN payment[tx[w].pay].status ELSE tx[w].seen

Written(w, status) ==
  IF Seen(w) = status THEN payment[tx[w].pay].status ELSE status

At(w, op, pc) == tx[w].op = op /\ tx[w].pc = pc

Advance(w, pc) == tx' = [tx EXCEPT ![w].pc = pc, ![w].seen = Seen(w)]

AfterPaid(p) == IF p \in Coded THEN "code" ELSE "lockUser"

\* Faulty variant of locked_payment: without FOR UPDATE.
locked_payment_unlocked(w) ==
  /\ tx[w].pc = "lockPay"
  /\ \/ tx[w].op = "settle" /\ Advance(w, "verify")
     \/ tx[w].op = "approve" /\ Advance(w, AfterPaid(tx[w].pay))
     \/ /\ tx[w].op = "refund" /\ Seen(w) = "paid"
        /\ tx' = [tx EXCEPT ![w].pc = "revoke", ![w].seen = Seen(w),
             ![w].todo = {s \in Sub : /\ sub[s].payment = tx[w].pay
                                      /\ sub[s].status # "refunded"}]
  /\ UNCHANGED <<now, db, gateway, held, job>>

locked_payment(w) ==
  /\ tx[w].pc = "lockPay" /\ FreeFor(w, tx[w].pay)
  /\ \/ /\ tx[w].op = "settle"
        /\ IF Seen(w) = "paid" THEN End(w)
           ELSE Advance(w, "verify") /\ Take(w, tx[w].pay)
     \/ /\ tx[w].op = "approve"
        /\ Advance(w, AfterPaid(tx[w].pay)) /\ Take(w, tx[w].pay)
     \/ /\ tx[w].op = "refund"
        /\ IF Seen(w) # "paid" THEN End(w)
           ELSE /\ tx' = [tx EXCEPT ![w].pc = "revoke", ![w].seen = Seen(w),
                     ![w].todo = {s \in Sub : /\ sub[s].payment = tx[w].pay
                                              /\ sub[s].status # "refunded"}]
                /\ Take(w, tx[w].pay)
  /\ UNCHANGED <<now, db, gateway, job>>

\* Faulty variant of reject_payment: without the test for "paid".
reject_payment_unguarded(w) ==
  /\ At(w, "reject", "lockPay") /\ FreeFor(w, tx[w].pay)
  /\ payment' = [payment EXCEPT ![tx[w].pay].status = "rejected",
                                 ![tx[w].pay].reviewed = TRUE]
  /\ End(w)
  /\ UNCHANGED <<now, gateway, user, sub, uses, redeemed, job>>

\* reject_payment locks, decides and commits with nothing to wait for in between.
reject_payment(w) ==
  /\ At(w, "reject", "lockPay") /\ FreeFor(w, tx[w].pay)
  /\ IF Seen(w) = "paid" THEN UNCHANGED payment
     ELSE payment' = [payment EXCEPT ![tx[w].pay].status = "rejected",
                                     ![tx[w].pay].reviewed = TRUE]
  /\ End(w)
  /\ UNCHANGED <<now, gateway, user, sub, uses, redeemed, job>>

\* attach_receipt writes two columns at the commit, whatever the status is by then.
attach_receipt(w) ==
  /\ At(w, "receipt", "lockPay") /\ FreeFor(w, tx[w].pay)
  /\ payment' = [payment EXCEPT ![tx[w].pay].receipt = TRUE,
                                 ![tx[w].pay].due = tx[w].at + ReviewTTL]
  /\ End(w)
  /\ UNCHANGED <<now, gateway, user, sub, uses, redeemed, job>>

(***************************************************************************)
(* provider.verify, with the row locked.  By which provider's route the    *)
(* callback came matters only now: settle_callback asks that provider, not *)
(* the payment's.                                                          *)
(*   gateway  asks the gateway about the reference in the callback, which  *)
(*            a callback of its own takes from the payment it names        *)
(*            (amounts are left out); captured is confirmed again and      *)
(*            again (code 101)                                             *)
(*   stars    takes the callback at its word, but refuses one without a    *)
(*            charge id, in another currency or of another amount          *)
(*   bot      a Telegram update, which has all of them                     *)
(*   card     always refuses                                               *)
(***************************************************************************)
Routes(w) ==
  IF tx[w].seenPlan # None THEN {"bot"}
  ELSE Unsolicited \cup {r \in {"gateway"} : ProviderOf[tx[w].pay] = r}

\* The payments whose reference the callback may carry.
Referred(w) == IF "gateway" \in Unsolicited THEN Payment ELSE {tx[w].pay}

\* Faulty variant of Confirmed: the callback's own status is believed.
ConfirmedUnasked(w) == TRUE

Confirmed(w) == \E p \in Referred(w) : ProviderOf[p] = "gateway" /\ gateway[p] = "captured"

verify_paid(w) ==
  /\ At(w, "settle", "verify")
  /\ \E r \in Routes(w) : r \in {"bot", "stars"} \/ (r = "gateway" /\ Confirmed(w))
  /\ tx' = [tx EXCEPT ![w].pc = AfterPaid(tx[w].pay)]
  /\ UNCHANGED <<now, db, gateway, held, job>>

\* Cancelled by the user, refused by the provider, or another amount: "failed".
verify_failed(w) ==
  /\ At(w, "settle", "verify")
  /\ Routes(w) # {"bot"}
  /\ payment' = [payment EXCEPT ![tx[w].pay].status = Written(w, "failed")]
  /\ End(w)
  /\ UNCHANGED <<now, gateway, user, sub, uses, redeemed, job>>

\* The gateway does not answer, or the callback cannot be read: rolled back, the payment
\* stays open.
verify_error(w) ==
  /\ At(w, "settle", "verify")
  /\ Routes(w) \cap {"gateway", "stars"} # {}
  /\ End(w)
  /\ UNCHANGED <<now, db, gateway, job>>

\* mark_paid counts the code; CHECK (uses <= max_uses) aborts the transaction.
charge_code(w) ==
  /\ tx[w].pc = "code" /\ FreeFor(w, Code)
  /\ IF uses < MaxUses
     THEN tx' = [tx EXCEPT ![w].pc = "lockUser"] /\ Take(w, Code)
     ELSE End(w)
  /\ UNCHANGED <<now, db, gateway, job>>

------------------------------------------------------------------------------
\* activate.

\* Faulty variants of lock_user: without FOR UPDATE; without the trial_used test.
lock_user_unlocked(w) ==
  /\ tx[w].pc = "lockUser"
  /\ tx' = [tx EXCEPT ![w].pc = "lockLive", ![w].at = now,
             ![w].seenPlan = IF @ = None THEN user[tx[w].user].plan ELSE @]
  /\ UNCHANGED <<now, db, gateway, held, job>>

lock_user_untested(w) ==
  LET u == tx[w].user IN
  /\ tx[w].pc = "lockUser" /\ FreeFor(w, u)
  /\ tx[w].op = "trial" => LiveSubs(u) = {}
  /\ tx' = [tx EXCEPT ![w].pc = "lockLive", ![w].at = now,
             ![w].seenPlan = IF @ = None THEN user[u].plan ELSE @]
  /\ Take(w, u)
  /\ UNCHANGED <<now, db, gateway, job>>

lock_user(w) ==
  LET u == tx[w].user IN
  /\ tx[w].pc = "lockUser" /\ FreeFor(w, u)
  /\ IF tx[w].op = "trial" /\ (user[u].trialUsed \/ LiveSubs(u) # {})
     THEN End(w)
     ELSE /\ tx' = [tx EXCEPT ![w].pc = "lockLive", ![w].at = now,
               ![w].seenPlan = IF @ = None THEN user[u].plan ELSE @]
          /\ Take(w, u)
  /\ UNCHANGED <<now, db, gateway, job>>

\* SELECT the live subscription FOR UPDATE.
lock_live(w) ==
  /\ tx[w].pc = "lockLive"
  /\ \/ /\ LiveSubs(tx[w].user) = {}
        /\ tx' = [tx EXCEPT ![w].pc = "grant"]
        /\ UNCHANGED held
     \/ \E s \in LiveSubs(tx[w].user) :
          /\ FreeFor(w, s) /\ Take(w, s)
          /\ tx' = [tx EXCEPT ![w].pc = "grant", ![w].live = s]
  /\ UNCHANGED <<now, db, gateway, job>>

Days(w) == CASE tx[w].op = "trial" -> TrialDays
             [] tx[w].op = "gift" -> GiftDays
             [] OTHER -> Period[tx[w].plan]

\* The unused days of one plan, in days of another, by their IRR prices.
Credit(old, new, days) ==
  IF Price[old] > 0 /\ Price[new] > 0
  THEN (days * Price[old] * Period[new]) \div (Period[old] * Price[new])
  ELSE 0

Later(a, b) == IF a > b THEN a ELSE b

\* Faulty variant of NewExpiry: a renewal starts today.
NewExpiryFromToday(w) == tx[w].at + Days(w)

NewExpiry(w) ==
  LET t == tx[w]
      old == sub[t.live]
  IN IF t.live = None THEN t.at + Days(w)
     ELSE IF old.plan = t.plan THEN Later(old.expires, t.at) + Days(w)
     ELSE t.at + Days(w) + Credit(old.plan, t.plan, Later(old.expires, t.at) - t.at)

\* Faulty variant of Source: the request's own name goes into subscriptions.source.
SourceUnmapped(op) == op

Source(op) == IF op \in {"settle", "approve"} THEN "payment" ELSE op

\* The end of activate, of whatever called it, and the commit.
activate(w) ==
  LET t == tx[w]
      row == [status |-> IF t.op = "trial" THEN "trialing" ELSE "active",
              user |-> t.user, plan |-> t.plan, source |-> Source(t.op),
              payment |-> t.pay, expires |-> NewExpiry(w), until |-> 0]
  IN
  /\ t.pc = "grant"
  /\ \E s \in Sub :
       /\ sub[s].status = "absent"
       /\ \A i \in Sub : i < s => sub[i].status # "absent"
       /\ sub' = [i \in Sub |-> IF i = s THEN row
                               ELSE IF i = t.live THEN [sub[i] EXCEPT !.status = "canceled"]
                               ELSE sub[i]]
  /\ user' = [user EXCEPT
       ![t.user].plan = IF t.seenPlan = t.plan THEN @ ELSE t.plan,
       ![t.user].until = NewExpiry(w),
       ![t.user].trialUsed = @ \/ t.op = "trial"]
  /\ IF t.pay = None THEN UNCHANGED <<payment, uses, redeemed>>
     ELSE /\ payment' = [payment EXCEPT ![t.pay].status = Written(w, "paid"),
                                        ![t.pay].reviewed = @ \/ t.op = "approve"]
          /\ uses' = IF t.pay \in Coded THEN uses + 1 ELSE uses
          /\ redeemed' = IF t.pay \in Coded THEN redeemed \cup {t.pay} ELSE redeemed
  /\ End(w)
  /\ UNCHANGED <<now, gateway, job>>

------------------------------------------------------------------------------
\* refund, after the payment row: its subscriptions, then the user.  The provider's
\* own refund call may fail; the code only logs that.

revoke(w, s) ==
  /\ At(w, "refund", "revoke")
  /\ s \in tx[w].todo /\ FreeFor(w, s)
  /\ tx' = [tx EXCEPT ![w].todo = @ \ {s}]
  /\ Take(w, s)
  /\ UNCHANGED <<now, db, gateway, job>>

finish_refund(w) ==
  LET t == tx[w] IN
  /\ At(w, "refund", "revoke") /\ t.todo = {}
  /\ FreeFor(w, t.user)
  /\ payment' = [payment EXCEPT ![t.pay].status = "refunded"]
  /\ sub' = [s \in Sub |-> IF s \in held[w]
                           THEN [sub[s] EXCEPT !.status = "refunded"] ELSE sub[s]]
  /\ user' = [user EXCEPT ![t.user].plan = Free, ![t.user].until = None]
  /\ End(w)
  /\ UNCHANGED <<now, gateway, uses, redeemed, job>>

------------------------------------------------------------------------------
(***************************************************************************)
(* The job: expire_due, then expire_stale_reviews, in one transaction.  An *)
(* UPDATE finds its rows when it starts, locks them one by one, and looks  *)
(* at a row again once it has the lock.                                    *)
(***************************************************************************)
JobGoto(pc, todo) == job' = [job EXCEPT !.pc = pc, !.todo = todo]

job_start ==
  /\ job.pc = "idle" /\ "daily" \in Ops
  /\ job' = [JobIdle EXCEPT !.pc = "grace", !.at = now,
       !.todo = {s \in Sub : sub[s].status \in {"active", "trialing"} /\ sub[s].expires <= now}]
  /\ UNCHANGED <<now, db, gateway, tx, held>>

\* Faulty variant of job_grace: the row is not looked at again under its lock.
job_grace_stale(s) ==
  /\ job.pc = "grace" /\ s \in job.todo /\ FreeFor(Daily, s)
  /\ job' = [job EXCEPT !.todo = @ \ {s}, !.graced = @ \cup {s}] /\ Take(Daily, s)
  /\ UNCHANGED <<now, db, gateway, tx>>

job_grace(s) ==
  /\ job.pc = "grace" /\ s \in job.todo /\ FreeFor(Daily, s)
  /\ IF sub[s].status \in {"active", "trialing"} /\ sub[s].expires <= job.at
     THEN job' = [job EXCEPT !.todo = @ \ {s}, !.graced = @ \cup {s}] /\ Take(Daily, s)
     ELSE job' = [job EXCEPT !.todo = @ \ {s}] /\ UNCHANGED held
  /\ UNCHANGED <<now, db, gateway, tx>>

\* Faulty variant of Lapsing: off by one.
LapsingLate(s) == sub[s].status = "grace" /\ sub[s].until < job.at

\* The second UPDATE sees what the first one wrote.
Lapsing(s) ==
  \/ s \in job.graced /\ GraceDays = 0
  \/ sub[s].status = "grace" /\ sub[s].until <= job.at

job_next_lapse ==
  /\ job.pc = "grace" /\ job.todo = {}
  /\ JobGoto("lapse", {s \in Sub : Lapsing(s)})
  /\ UNCHANGED <<now, db, gateway, tx, held>>

job_lapse(s) ==
  /\ job.pc = "lapse" /\ s \in job.todo /\ FreeFor(Daily, s)
  /\ IF Lapsing(s)
     THEN job' = [job EXCEPT !.todo = @ \ {s}, !.lapsed = @ \cup {s}] /\ Take(Daily, s)
     ELSE job' = [job EXCEPT !.todo = @ \ {s}] /\ UNCHANGED held
  /\ UNCHANGED <<now, db, gateway, tx>>

\* Faulty variant of Downgraded: users are not touched.
DowngradedNobody == {}

Downgraded == {sub[s].user : s \in job.lapsed}

job_next_users ==
  /\ job.pc = "lapse" /\ job.todo = {}
  /\ JobGoto("users", Downgraded)
  /\ UNCHANGED <<now, db, gateway, tx, held>>

job_user(u) ==
  /\ job.pc = "users" /\ u \in job.todo /\ FreeFor(Daily, u)
  /\ job' = [job EXCEPT !.todo = @ \ {u}] /\ Take(Daily, u)
  /\ UNCHANGED <<now, db, gateway, tx>>

Stale(p) ==
  /\ ProviderOf[p] = "card"
  /\ payment[p].status = "pending_review"
  /\ payment[p].due <= now
  /\ ~payment[p].receipt

job_next_reviews ==
  /\ job.pc = "users" /\ job.todo = {}
  /\ JobGoto("reviews", {p \in Payment : Stale(p)})
  /\ UNCHANGED <<now, db, gateway, tx, held>>

\* Faulty variant of job_review: the row is not looked at again under its lock.
job_review_stale(p) ==
  /\ job.pc = "reviews" /\ p \in job.todo /\ FreeFor(Daily, p)
  /\ job' = [job EXCEPT !.todo = @ \ {p}, !.stale = @ \cup {p}] /\ Take(Daily, p)
  /\ UNCHANGED <<now, db, gateway, tx>>

job_review(p) ==
  /\ job.pc = "reviews" /\ p \in job.todo /\ FreeFor(Daily, p)
  /\ IF Stale(p)
     THEN job' = [job EXCEPT !.todo = @ \ {p}, !.stale = @ \cup {p}] /\ Take(Daily, p)
     ELSE job' = [job EXCEPT !.todo = @ \ {p}] /\ UNCHANGED held
  /\ UNCHANGED <<now, db, gateway, tx>>

job_end == job' = JobIdle /\ held' = [held EXCEPT ![Daily] = {}]

job_commit ==
  /\ job.pc = "reviews" /\ job.todo = {}
  /\ sub' = [s \in Sub |->
       CASE s \in job.lapsed -> [sub[s] EXCEPT !.status = "expired"]
         [] s \in job.graced \ job.lapsed ->
              [sub[s] EXCEPT !.status = "grace", !.until = job.at + GraceDays]
         [] OTHER -> sub[s]]
  /\ user' = [u \in User |-> IF u \in Downgraded
                             THEN [user[u] EXCEPT !.plan = Free, !.until = None]
                             ELSE user[u]]
  /\ payment' = [p \in Payment |-> IF p \in job.stale
                                   THEN [payment[p] EXCEPT !.status = "expired"]
                                   ELSE payment[p]]
  /\ job_end
  /\ UNCHANGED <<now, gateway, uses, redeemed, tx>>


------------------------------------------------------------------------------
\* Deadlocks: who waits for whom, and the cycles PostgreSQL breaks.

Wants(a) ==
  IF a = Daily THEN job.todo
  ELSE CASE tx[a].pc = "lockPay" -> {tx[a].pay}
         [] tx[a].pc = "code" -> {Code}
         [] tx[a].pc = "lockUser" -> {tx[a].user}
         [] tx[a].pc = "lockLive" -> LiveSubs(tx[a].user)
         [] tx[a].pc = "revoke" -> IF tx[a].todo = {} THEN {tx[a].user} ELSE tx[a].todo
         [] OTHER -> {}

WaitsFor(a, b) == a # b /\ Wants(a) \cap held[b] # {}

Stuck(A) == A # {} /\ \A a \in A : \E b \in A : WaitsFor(a, b)

Deadlocked(a) ==
  \E A \in SUBSET Actor : a \in A /\ Stuck(A) /\ \A B \in SUBSET A : Stuck(B) => B = A

\* A lost connection or a killed process: where the instance has crashes.
Lost(a) == "crash" \in Ops \/ Deadlocked(a)

rollback(w) ==
  /\ tx[w].pc # "idle" /\ Lost(w)
  /\ End(w)
  /\ UNCHANGED <<now, db, gateway, job>>

job_rollback ==
  /\ job.pc # "idle" /\ Lost(Daily)
  /\ job_end
  /\ UNCHANGED <<now, db, gateway, tx>>

------------------------------------------------------------------------------
Step(w) ==
  \/ locked_payment(w) \/ reject_payment(w) \/ attach_receipt(w)
  \/ verify_paid(w) \/ verify_failed(w) \/ verify_error(w) \/ charge_code(w)
  \/ lock_user(w) \/ lock_live(w) \/ activate(w)
  \/ \E s \in Sub : revoke(w, s)
  \/ finish_refund(w)

Request(w) ==
  \/ \E p \in Payment : \/ settle_callback(w, p)
                        \/ \E op \in {"approve", "reject"} : on_review_decision(w, op, p)
                        \/ refund(w, p)
                        \/ on_receipt_photo(w, p)
  \/ \E u \in User : start_trial(w, u) \/ \E pl \in Plan : gift(w, u, pl)

Job ==
  \/ job_start \/ job_next_lapse \/ job_next_users \/ job_next_reviews \/ job_commit
  \/ \E s \in Sub : job_grace(s) \/ job_lapse(s)
  \/ \E u \in User : job_user(u)
  \/ \E p \in Payment : job_review(p)

Outside ==
  \/ Tick
  \/ \E p \in Payment : start_checkout(p) \/ on_pre_checkout(p) \/ Capture(p)

Next ==
  \/ Outside
  \/ \E w \in Worker : Request(w) \/ Step(w) \/ rollback(w)
  \/ Job \/ job_rollback

Spec == Init /\ [][Next]_vars

------------------------------------------------------------------------------
(***************************************************************************)
(* Fairness.  Row locks are queued, so a transaction that waits for one    *)
(* gets its turn (SF); cron starts the job and time passes; PostgreSQL     *)
(* breaks every deadlock.  Requests, captures and crashes are never owed.  *)
(***************************************************************************)
Fairness ==
  /\ WF_vars(Tick)
  /\ SF_vars(Job)
  /\ \A w \in Worker : SF_vars(Step(w))
  /\ WF_vars((\E w \in Worker : rollback(w)) \/ job_rollback)

FairSpec == Spec /\ Fairness

------------------------------------------------------------------------------
\* Properties.

RowsTyped ==
  /\ payment \in [Payment -> [status : Statuses, receipt : BOOLEAN, due : Nat,
                              reviewed : BOOLEAN]]
  /\ user \in [User -> [plan : Plan \cup {Free}, until : Nat \cup {None},
                        trialUsed : BOOLEAN]]
  /\ sub \in [Sub -> [status : SubStatuses, user : User \cup {None},
                      plan : Plan \cup {None}, source : Sources \cup {None},
                      payment : Payment \cup {None}, expires : Nat, until : Nat]]
  /\ uses \in Nat /\ redeemed \subseteq Payment

Transactions ==
  [op : (AllOps \ {"daily", "crash"}) \cup {"none"},
   pc : {"idle", "lockPay", "verify", "code", "lockUser", "lockLive", "grant", "revoke"},
   pay : Payment \cup {None}, user : User \cup {None}, plan : Plan \cup {None},
   seen : Statuses \cup {None}, seenPlan : Plan \cup {Free, None}, at : Nat,
   live : Sub \cup {None}, todo : SUBSET Sub]

WorkersTyped == tx \in [Worker -> Transactions]

JobTyped ==
  job \in [pc : {"idle", "grace", "lapse", "users", "reviews"}, at : Nat,
          todo : SUBSET (Sub \cup User \cup Payment), graced : SUBSET Sub,
          lapsed : SUBSET Sub, stale : SUBSET Payment]

\* Every variable keeps its type.
TypeOK ==
  /\ now \in Nat
  /\ gateway \in [Payment -> {"open", "agreed", "captured"}]
  /\ held \in [Actor -> SUBSET Row]
  /\ RowsTyped /\ WorkersTyped /\ JobTyped

(***************************************************************************)
(* A user never has two live subscriptions.  The row locks alone see to    *)
(* it: activate never runs into the unique index subscriptions_one_live    *)
(* (which this model leaves out), whatever runs next to it.                *)
(***************************************************************************)
OneLivePerUser ==
  \A s, t \in Sub : IsLive(s) /\ IsLive(t) /\ sub[s].user = sub[t].user => s = t

(***************************************************************************)
(* What refund cancels stays cancelled: while a payment is "refunded" no   *)
(* subscription it paid for is live, although approvals and callbacks of   *)
(* the same payment may be waiting for its row.                            *)
(***************************************************************************)
RefundedNotLive ==
  \A s \in Sub : /\ sub[s].payment # None
                 /\ payment[sub[s].payment].status = "refunded"
                 => ~IsLive(s)

(***************************************************************************)
(* A subscription bought with a payment belongs to that payment's user and *)
(* plan, and the provider took the money or an admin decided - whatever    *)
(* cancelled, repeated, refused or late callbacks, approvals, refunds and  *)
(* crashes come in between, as long as callbacks on the routes of stars    *)
(* and the gateways come from these (Unsolicited has neither).  Otherwise  *)
(* what base.py:8 asks of a provider is not so: CallbackBelieved.cfg.      *)
(***************************************************************************)
GrantBacked ==
  \A s \in Sub : LET p == sub[s].payment IN
    p # None => /\ sub[s].user = UserOf[p] /\ sub[s].plan = PlanOf[p]
                /\ payment[p].reviewed \/ gateway[p] = "captured"

\* Racing start_trial requests and gifts never give a user a second trial.
TrialOnce ==
  \A u \in User :
    LET trials == {s \in Sub : sub[s].source = "trial" /\ sub[s].user = u}
    IN /\ Cardinality(trials) <= 1
       /\ trials # {} => user[u].trialUsed

(***************************************************************************)
(* users.plan_code and premium_until, which every entitlement check reads, *)
(* never promise more than a live subscription does.  (Payments with stars *)
(* can leave plan_code of another plan: the user is loaded before the lock *)
(* of its row.)                                                            *)
(***************************************************************************)
CacheNeverOverstates ==
  \A u \in User :
    /\ user[u].until # None =>
         \E s \in LiveSubs(u) : sub[s].expires = user[u].until
    /\ user[u].plan # Free =>
         \E s \in LiveSubs(u) : sub[s].plan = user[u].plan

(***************************************************************************)
(* Nor less (DB.md:44 calls them denormalised from subscriptions).         *)
(***************************************************************************)
CacheNeverUnderstates ==
  \A s \in Sub : IsLive(s) => /\ user[sub[s].user].plan = sub[s].plan
                              /\ user[sub[s].user].until = sub[s].expires

(***************************************************************************)
(* A payment activates the subscription once (settle_callback's docstring; *)
(* ARCHITECTURE.md:454, "a repeated callback is a no-op").                 *)
(***************************************************************************)
ActivatesOnce ==
  \A p \in Payment : Cardinality({s \in Sub : sub[s].payment = p}) <= 1

(***************************************************************************)
(* Paid time is not lost: when one live subscription takes the place of    *)
(* another of the same plan, it ends no earlier.                           *)
(***************************************************************************)
RenewalKeepsTime ==
  [][\A old, new \in Sub :
       (/\ IsLive(old) /\ ~IsLive(old)'
        /\ ~IsLive(new) /\ IsLive(new)'
        /\ sub[old].user = sub'[new].user /\ sub[old].plan = sub'[new].plan)
       => sub'[new].expires > sub[old].expires]_vars

(***************************************************************************)
(* A settled payment is refunded or stays: no receipt, rejection, second   *)
(* approval, review deadline or crash that comes late takes "paid" back,   *)
(* and no callback that came after it - only the refusal of one that had   *)
(* loaded the row before it was settled and waited (LateRefusal).          *)
(***************************************************************************)
LateRefusal(p) ==
  /\ payment'[p].status = "failed"
  /\ \E w \in Worker : At(w, "settle", "verify") /\ tx[w].pay = p /\ tx[w].seen # "paid"

SettledStays ==
  [][\A p \in Payment : payment[p].status = "paid" =>
       payment'[p].status \in {"paid", "refunded"} \/ LateRefusal(p)]_vars

(***************************************************************************)
(* The same without that exception, which only holds where the requests    *)
(* about a payment do not overlap (settle_callback l.261, LateFailure.cfg).*)
(***************************************************************************)
SettledForGood ==
  [][\A p \in Payment : payment[p].status = "paid" =>
       payment'[p].status \in {"paid", "refunded"}]_vars

(***************************************************************************)
(* The review deadline never closes a card payment whose receipt arrived   *)
(* before the job reached its row (the job chose its rows earlier).        *)
(***************************************************************************)
ReceiptStopsDeadline ==
  [][\A p \in Payment : /\ payment[p].status # "expired"
                        /\ payment'[p].status = "expired"
                        => ~payment[p].receipt]_vars

(***************************************************************************)
(* A callback the gateway confirmed still settles (test_payment_providers, *)
(* "a retried callback must still settle"): the discount code's use limit  *)
(* was the checkout's business.                                            *)
(***************************************************************************)
ConfirmedSettles == \A w \in Worker : tx[w].pc = "code" => uses < MaxUses

\* Every request ends, whatever deadlocks settlements, refunds and the job run into.
RequestsEnd == \A w \in Worker : tx[w].pc # "idle" ~> tx[w].pc = "idle"

(***************************************************************************)
(* The job gets to every subscription whose time is over, and again when   *)
(* its grace is over, in spite of the deadlocks it may lose - once the     *)
(* requests that make it lose them pause.                                  *)
(***************************************************************************)
Pause == <>[][\A w \in Worker : ~Request(w)]_vars

DueIsHandled ==
  Pause => \A s \in Sub :
    /\ sub[s].status \in {"active", "trialing"} /\ sub[s].expires <= now
         ~> sub[s].status \notin {"active", "trialing"}
    /\ sub[s].status = "grace" /\ sub[s].until <= now ~> sub[s].status # "grace"

==============================================================================
