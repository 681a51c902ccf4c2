---------------------------- MODULE BillingProofs ----------------------------
(***************************************************************************)
(* Proofs that the row locks of backend/app/services/subscriptions.py keep *)
(* OneLivePerUser and RefundedNotLive for any numbers of users, payments,  *)
(* plans and concurrent requests.                                          *)
(***************************************************************************)
EXTENDS BillingInv, TLAPS

\* The constants' assumptions that most leaves need.
LEMMA Constants ==
  /\ None \notin User /\ None \notin Payment /\ None \notin Sub /\ None \notin Plan
  /\ None \notin Statuses
  /\ Daily \notin Worker
  /\ UserOf \in [Payment -> User] /\ PlanOf \in [Payment -> Plan]
  /\ TrialPlan \in Plan
BY NoneIsNoValue, RowsAreDistinct, OrdersAreTyped, PlansAreTyped

\* Integer division of naturals stays natural.
LEMMA DivNat == \A a \in Nat, b \in Nat : b > 0 => a \div b \in Nat
OBVIOUS

LEMMA InitIInv == Init => IInv
<1> SUFFICES ASSUME Init PROVE IInv
  OBVIOUS
<1>1. TypeOK
  BY Constants DEF Init, TypeOK, RowsTyped, WorkersTyped, Transactions, JobTyped, NoSub, Idle, JobIdle,
     Statuses, SubStatuses, AllOps, Actor
<1>2. Exclusive
  BY DEF Init, Exclusive
<1>3. Shape
  BY DEF Init, Shape, Idle
<1>4. /\ RowsComplete /\ Present /\ PaymentHeld /\ UserHeld /\ LiveKnown /\ StatusKnown
      /\ RefundCovers /\ JobKnown
  BY DEF Init, RowsComplete, Present, NoSub, PaymentHeld, UserHeld, LiveKnown, StatusKnown,
     RefundCovers, JobKnown, Idle, JobIdle, AfterPayLock, AfterUserLock
<1>5. OneLivePerUser /\ RefundedNotLive
  BY DEF Init, OneLivePerUser, RefundedNotLive, IsLive, NoSub, LiveStatuses
<1> QED
  BY <1>1, <1>2, <1>3, <1>4, <1>5 DEF IInv

------------------------------------------------------------------------------
\* Frames: what keeps when a step leaves the committed rows alone.

LEMMA RowsFrame ==
  ASSUME RowsTyped, RowsComplete, OneLivePerUser, RefundedNotLive, UNCHANGED db
  PROVE  RowsTyped' /\ RowsComplete' /\ OneLivePerUser' /\ RefundedNotLive'
BY DEF db, RowsTyped, RowsComplete, OneLivePerUser, RefundedNotLive, IsLive

\* A handler begins: it holds nothing and knows at most a status read without a lock.
LEMMA BeginIInv ==
  ASSUME IInv, NEW w \in Worker, tx[w].pc = "idle",
         NEW op, NEW p, NEW u \in User, NEW pl \in Plan \cup {None},
         NEW seen \in Statuses \cup {None}, NEW seenPlan \in Plan \cup {Free, None},
         NEW pc, Begin(w, op, p, u, pl, seen, seenPlan, pc),
         \/ /\ pc = "lockPay" /\ p \in Payment /\ payment[p].status # "absent"
            /\ op \in {"settle", "approve", "reject", "refund", "receipt"}
            /\ op \in {"settle", "approve"} => pl \in Plan
            /\ op = "settle" => seen \notin {None, "paid"}
            /\ op = "approve" => seen = None
         \/ /\ pc = "lockUser" /\ op \in {"trial", "gift"} /\ p = None
            /\ pl \in Plan /\ seen = None
  PROVE  IInv'
<1> DEFINE t == [Idle EXCEPT !.op = op, !.pay = p, !.user = u, !.plan = pl, !.seen = seen,
                   !.seenPlan = seenPlan, !.at = IF op = "receipt" THEN now ELSE 0, !.pc = pc]
<1>1. /\ tx' = [tx EXCEPT ![w] = t]
      /\ UNCHANGED <<now, db, gateway, held, job>>
  BY DEF Begin
<1>2. /\ t.op = op /\ t.pay = p /\ t.user = u /\ t.plan = pl /\ t.seen = seen
      /\ t.pc = pc /\ t.live = None /\ t.todo = {}
  BY DEF Idle
<1>3. /\ tx'[w] = t
      /\ \A v \in Worker : v # w => tx'[v] = tx[v]
  BY <1>1 DEF IInv, TypeOK, WorkersTyped
<1>t. t \in Transactions
  BY DEF Idle, AllOps, IInv, TypeOK, Transactions
<1> HIDE DEF t
<1>4. TypeOK'
  <2>1. WorkersTyped'
    BY <1>1, <1>t DEF IInv, TypeOK, WorkersTyped
  <2>2. RowsTyped'
    BY <1>1 DEF db, IInv, TypeOK, RowsTyped
  <2> QED
    BY <1>1, <2>1, <2>2 DEF IInv, TypeOK, JobTyped
<1>5. Exclusive'
  BY <1>1 DEF IInv, Exclusive
<1>6. Shape'
  BY <1>1, <1>2, <1>3 DEF IInv, Shape, db
<1>7. RowsComplete' /\ OneLivePerUser' /\ RefundedNotLive'
  BY <1>1, RowsFrame DEF IInv, TypeOK
<1>p. Present'
  BY <1>1, <1>2, <1>3 DEF IInv, Present, db
<1>8. PaymentHeld' /\ UserHeld'
  BY <1>1, <1>2, <1>3 DEF IInv, PaymentHeld, UserHeld, AfterPayLock, AfterUserLock
<1>9. LiveKnown' /\ RefundCovers'
  BY <1>1, <1>2, <1>3 DEF IInv, LiveKnown, RefundCovers, db, IsLive
<1>10. StatusKnown'
  BY <1>1, <1>2, <1>3 DEF IInv, StatusKnown, db, AfterPayLock
<1>11. JobKnown'
  BY <1>1 DEF IInv, JobKnown, db, IsLive
<1> QED
  BY <1>4, <1>5, <1>6, <1>7, <1>p, <1>8, <1>9, <1>10, <1>11 DEF IInv

LEMMA RequestIInv ==
  ASSUME IInv, NEW w \in Worker, Request(w)
  PROVE  IInv'
<1> USE Constants DEF IInv, TypeOK, RowsTyped
<1>1. ASSUME NEW p \in Payment, settle_callback(w, p)
      PROVE  IInv'
  BY <1>1, BeginIInv
     DEF settle_callback, gateway_callback, on_successful_payment, Callback, Idling, MayTouch, Statuses
<1>2. ASSUME NEW p \in Payment, NEW op \in {"approve", "reject"}, on_review_decision(w, op, p)
      PROVE  IInv'
  BY <1>2, BeginIInv DEF on_review_decision, Idling, MayTouch
<1>3. ASSUME NEW p \in Payment, refund(w, p)
      PROVE  IInv'
  <2>1. PICK seen \in {None} \cup (IF ProviderOf[p] = "stars" THEN {payment[p].status} ELSE {}) :
          Begin(w, "refund", p, UserOf[p], None, seen, None, "lockPay")
    BY <1>3 DEF refund
  <2>2. seen \in Statuses \cup {None}
    BY <2>1
  <2> QED
    BY <1>3, <2>1, <2>2, BeginIInv DEF refund, Idling, MayTouch
<1>4. ASSUME NEW p \in Payment, on_receipt_photo(w, p)
      PROVE  IInv'
  BY <1>4, BeginIInv DEF on_receipt_photo, Idling, MayTouch
<1>5. ASSUME NEW u \in User, start_trial(w, u)
      PROVE  IInv'
  BY <1>5, BeginIInv DEF start_trial, Idling
<1>6. ASSUME NEW u \in User, NEW pl \in Plan, gift(w, u, pl)
      PROVE  IInv'
  BY <1>6, BeginIInv DEF gift, Idling
<1> QED
  BY <1>1, <1>2, <1>3, <1>4, <1>5, <1>6 DEF Request

\* A transaction that ends without having written anything.
LEMMA EndIInv ==
  ASSUME IInv, NEW w \in Worker, End(w), UNCHANGED <<now, db, gateway, job>>
  PROVE  IInv'
<1>1. /\ tx' = [tx EXCEPT ![w] = Idle]
      /\ held' = [held EXCEPT ![w] = {}]
      /\ UNCHANGED <<now, db, gateway, job>>
  BY DEF End
<1>2. /\ Idle.op = "none" /\ Idle.pay = None /\ Idle.pc = "idle" /\ Idle.seen = None
      /\ Idle.live = None /\ Idle.todo = {}
  BY DEF Idle
<1>3. /\ tx'[w] = Idle
      /\ \A v \in Worker : v # w => tx'[v] = tx[v]
      /\ \A a \in Actor : held'[a] \subseteq held[a]
      /\ \A a \in Actor : a # w => held'[a] = held[a]
  BY <1>1 DEF IInv, TypeOK, WorkersTyped, Actor
<1>4. TypeOK'
  <2>1. Idle \in Transactions
    BY DEF Idle, Transactions
  <2>2. WorkersTyped'
    BY <1>1, <2>1 DEF IInv, TypeOK, WorkersTyped
  <2>3. RowsTyped'
    BY <1>1 DEF db, IInv, TypeOK, RowsTyped
  <2> QED
    BY <1>1, <2>2, <2>3 DEF IInv, TypeOK, JobTyped
<1>5. Exclusive'
  BY <1>1, <1>3 DEF IInv, Exclusive
<1>6. Shape'
  BY <1>1, <1>2, <1>3 DEF IInv, Shape, db
<1>7. RowsComplete' /\ OneLivePerUser' /\ RefundedNotLive'
  BY <1>1, RowsFrame DEF IInv, TypeOK
<1>p. Present'
  BY <1>1, <1>2, <1>3 DEF IInv, Present, db
<1>8. PaymentHeld' /\ UserHeld'
  BY <1>1, <1>2, <1>3 DEF IInv, PaymentHeld, UserHeld, AfterPayLock, AfterUserLock, Actor
<1>9. LiveKnown' /\ RefundCovers'
  BY <1>1, <1>2, <1>3 DEF IInv, LiveKnown, RefundCovers, db, IsLive, Actor
<1>10. StatusKnown'
  BY <1>1, <1>2, <1>3 DEF IInv, StatusKnown, db, AfterPayLock
<1>11. JobKnown'
  BY <1>1, <1>3, Constants DEF IInv, JobKnown, db, IsLive, Actor
<1> QED
  BY <1>4, <1>5, <1>6, <1>7, <1>p, <1>8, <1>9, <1>10, <1>11 DEF IInv

------------------------------------------------------------------------------
\* Statements that lock a row, or none, and remember something.

\* All that a transaction t which holds the rows h relies on after its first lock.
Reliable(t, h) ==
  /\ t.pc \notin {"idle", "lockPay"}
  /\ t.pc = "verify" => t.op = "settle"
  /\ t.pc = "code" => t.op \in {"settle", "approve"}
  /\ t.pc \in {"lockUser", "lockLive", "grant"} =>
       t.op \in {"settle", "approve", "trial", "gift"}
  /\ t.pc = "revoke" => t.op = "refund"
  /\ t.pc # "grant" => t.live = None
  /\ t.pay # None => t.pay \in h
  /\ t.pc \in AfterUserLock => t.user \in h
  /\ t.pc = "grant" =>
       /\ t.live # None => t.live \in h /\ IsLive(t.live)
       /\ \A s \in Sub : IsLive(s) /\ sub[s].user = t.user => s = t.live
  /\ t.op = "settle" => t.seen \notin {None, "paid"}
  /\ t.op = "approve" => t.seen = payment[t.pay].status
  /\ t.pc = "revoke" =>
       \A s \in Sub : sub[s].payment = t.pay /\ sub[s].status # "refunded"
                      => s \in t.todo \/ s \in h
  /\ \A s \in Sub : s \in t.todo \cup h => sub[s].status # "absent"

\* What the invariant says of one transaction.
LEMMA ReliableNow ==
  ASSUME IInv, NEW w \in Worker, tx[w].pc \notin {"idle", "lockPay"}
  PROVE  /\ Reliable(tx[w], held[w]) /\ tx[w].user \in User /\ tx[w] \in Transactions
         /\ tx[w].op \in {"settle", "approve"} => tx[w].pay \in Payment
BY DEF IInv, TypeOK, WorkersTyped, Transactions, Shape, PaymentHeld, UserHeld, LiveKnown,
   StatusKnown, RefundCovers, Present, Actor, AfterPayLock, AfterUserLock, Reliable

\* A transaction moves to its next statement: what it then relies on is all there is to show.
LEMMA LockIInv ==
  ASSUME IInv, NEW w \in Worker, NEW t \in Transactions, NEW R \in SUBSET Row,
         tx' = [tx EXCEPT ![w] = t], held' = [held EXCEPT ![w] = @ \cup R],
         \A r \in R : FreeFor(w, r),
         UNCHANGED <<now, db, gateway, job>>,
         t.op = tx[w].op, t.pay = tx[w].pay, t.user = tx[w].user, t.plan = tx[w].plan,
         tx[w].pc # "idle",
         Reliable(t, held[w] \cup R)
  PROVE  IInv'
<1>1. /\ tx'[w] = t
      /\ \A v \in Worker : v # w => tx'[v] = tx[v]
      /\ held'[w] = held[w] \cup R
      /\ \A a \in Actor : held[a] \subseteq held'[a]
      /\ \A a \in Actor : a # w => held'[a] = held[a]
  BY DEF IInv, TypeOK, WorkersTyped, Actor
<1>2. TypeOK'
  <2>1. WorkersTyped'
    BY DEF IInv, TypeOK, WorkersTyped
  <2>2. RowsTyped'
    BY DEF db, IInv, TypeOK, RowsTyped
  <2>3. (held \in [Actor -> SUBSET Row])'
    BY DEF IInv, TypeOK
  <2> QED
    BY <2>1, <2>2, <2>3 DEF IInv, TypeOK, JobTyped
<1>3. Exclusive'
  BY <1>1 DEF IInv, Exclusive, FreeFor
<1>4. Shape'
  BY <1>1 DEF IInv, Shape, db, Reliable
<1>5. RowsComplete' /\ OneLivePerUser' /\ RefundedNotLive'
  BY RowsFrame DEF IInv, TypeOK
<1>p. Present'
  BY <1>1 DEF IInv, Present, db, Actor, Reliable
<1>6. PaymentHeld' /\ UserHeld'
  BY <1>1 DEF IInv, PaymentHeld, UserHeld, Actor, Reliable
<1>7. LiveKnown' /\ RefundCovers'
  BY <1>1 DEF IInv, LiveKnown, RefundCovers, db, IsLive, Actor, Reliable
<1>8. StatusKnown'
  BY <1>1 DEF IInv, StatusKnown, db, Reliable
<1>9. JobKnown'
  BY <1>1 DEF IInv, JobKnown, db, IsLive, Actor
<1> QED
  BY <1>2, <1>3, <1>4, <1>5, <1>p, <1>6, <1>7, <1>8, <1>9 DEF IInv

LEMMA LockedPaymentIInv ==
  ASSUME IInv, NEW w \in Worker, locked_payment(w)
  PROVE  IInv'
<1> DEFINE t == tx[w]
           P == {tx[w].pay}
<1>1. /\ t \in Transactions /\ t.pc = "lockPay" /\ t.live = None
      /\ t.op \in {"settle", "approve", "reject", "refund", "receipt"}
      /\ t.pay \in Payment /\ P \in SUBSET Row /\ \A r \in P : FreeFor(w, r)
      /\ Seen(w) \in Statuses
  BY Constants DEF IInv, TypeOK, RowsTyped, WorkersTyped, Transactions, Shape,
     locked_payment, Row, Seen
<1>p. \A s \in Sub : s \in held[w] \cup P => sub[s].status # "absent"
  BY <1>1, RowsAreDistinct DEF IInv, Present, Actor
<1>2. CASE End(w)
  BY <1>2, EndIInv DEF locked_payment
<1>3. ASSUME NEW pc \in {"verify", "code", "lockUser"},
             t.op \in {"settle", "approve"}, t.op = "settle" => Seen(w) # "paid",
             pc = "verify" => t.op = "settle",
             Advance(w, pc), Take(w, t.pay)
      PROVE  IInv'
  <2> DEFINE n == [t EXCEPT !.pc = pc, !.seen = Seen(w)]
  <2>1. tx' = [tx EXCEPT ![w] = n]
    BY <1>3 DEF Advance, IInv, TypeOK, WorkersTyped, Transactions
  <2>2. held' = [held EXCEPT ![w] = @ \cup P] /\ UNCHANGED <<now, db, gateway, job>>
    BY <1>3 DEF Take, locked_payment
  <2>3. /\ n \in Transactions /\ n.op = t.op /\ n.pay = t.pay /\ n.user = t.user
        /\ n.plan = t.plan /\ n.seen = Seen(w) /\ n.live = None /\ n.pc = pc
        /\ n.todo = t.todo
    BY <1>1, <1>3 DEF Transactions
  <2>4. t.op = "settle" => Seen(w) \notin {None, "paid"}
    BY <1>1, <1>3, Constants
  <2>p. \A s \in Sub : s \in t.todo => sub[s].status # "absent"
    BY DEF IInv, Present
  <2>5. t.op = "approve" => Seen(w) = payment[t.pay].status
    BY <1>1 DEF IInv, StatusKnown, Seen
  <2> HIDE DEF n
  <2>6. Reliable(n, held[w] \cup P)
    BY <1>1, <1>p, <1>3, <2>3, <2>p, <2>4, <2>5 DEF Reliable, AfterUserLock
  <2> QED
    BY <1>1, <2>1, <2>2, <2>3, <2>6, LockIInv
<1>4. ASSUME t.op = "refund", Take(w, t.pay),
             tx' = [tx EXCEPT ![w].pc = "revoke", ![w].seen = Seen(w),
                ![w].todo = {s \in Sub : /\ sub[s].payment = t.pay
                                         /\ sub[s].status # "refunded"}]
      PROVE  IInv'
  <2> DEFINE n == [t EXCEPT !.pc = "revoke", !.seen = Seen(w),
                     !.todo = {s \in Sub : /\ sub[s].payment = t.pay
                                           /\ sub[s].status # "refunded"}]
  <2>1. tx' = [tx EXCEPT ![w] = n]
    BY <1>4 DEF IInv, TypeOK, WorkersTyped, Transactions
  <2>2. held' = [held EXCEPT ![w] = @ \cup P] /\ UNCHANGED <<now, db, gateway, job>>
    BY <1>4 DEF Take, locked_payment
  <2>3. /\ n \in Transactions /\ n.op = t.op /\ n.pay = t.pay /\ n.user = t.user
        /\ n.plan = t.plan /\ n.pc = "revoke" /\ n.live = None
        /\ n.todo = {s \in Sub : sub[s].payment = t.pay /\ sub[s].status # "refunded"}
    BY <1>1 DEF Transactions
  <2> HIDE DEF n
  <2>4. Reliable(n, held[w] \cup P)
    BY <1>1, <1>p, <1>4, <2>3, Constants DEF IInv, RowsComplete, Reliable, AfterUserLock
  <2> QED
    BY <1>1, <2>1, <2>2, <2>3, <2>4, LockIInv
<1> QED
  BY <1>1, <1>2, <1>3, <1>4 DEF locked_payment, AfterPaid

LEMMA VerifyPaidIInv ==
  ASSUME IInv, NEW w \in Worker, verify_paid(w)
  PROVE  IInv'
<1> DEFINE t == tx[w]
           n == [t EXCEPT !.pc = AfterPaid(t.pay)]
<1>R. PICK R \in SUBSET Row : R = {}
  OBVIOUS
<1>1. t.pc = "verify" /\ t.op = "settle" /\ Reliable(t, held[w]) /\ t \in Transactions
  BY ReliableNow DEF verify_paid, At
<1>2. /\ tx' = [tx EXCEPT ![w] = n] /\ held' = [held EXCEPT ![w] = @ \cup R]
      /\ UNCHANGED <<now, db, gateway, job>>
  BY <1>R DEF verify_paid, IInv, TypeOK, WorkersTyped, Transactions
<1>3. /\ n \in Transactions /\ n.op = t.op /\ n.pay = t.pay /\ n.user = t.user
      /\ n.plan = t.plan /\ n.seen = t.seen /\ n.live = t.live /\ n.todo = t.todo
      /\ n.pc \in {"code", "lockUser"}
  BY <1>1 DEF Transactions, AfterPaid
<1> HIDE DEF n
<1>4. Reliable(n, held[w] \cup R)
  BY <1>1, <1>3, <1>R DEF Reliable, AfterUserLock
<1> QED
  BY <1>1, <1>2, <1>3, <1>4, <1>R, LockIInv

LEMMA ChargeCodeIInv ==
  ASSUME IInv, NEW w \in Worker, charge_code(w)
  PROVE  IInv'
<1> DEFINE t == tx[w]
           n == [t EXCEPT !.pc = "lockUser"]
<1>1. CASE End(w)
  BY <1>1, EndIInv DEF charge_code
<1>2. CASE tx' = [tx EXCEPT ![w].pc = "lockUser"] /\ Take(w, Code)
  <2>1. t.pc = "code" /\ Reliable(t, held[w]) /\ t \in Transactions
    BY ReliableNow DEF charge_code
  <2>2. /\ tx' = [tx EXCEPT ![w] = n] /\ held' = [held EXCEPT ![w] = @ \cup {Code}]
        /\ {Code} \in SUBSET Row /\ \A r \in {Code} : FreeFor(w, r)
        /\ UNCHANGED <<now, db, gateway, job>>
    BY <1>2 DEF charge_code, IInv, TypeOK, WorkersTyped, Transactions, Take, Row
  <2>3. /\ n \in Transactions /\ n.op = t.op /\ n.pay = t.pay /\ n.user = t.user
        /\ n.plan = t.plan /\ n.seen = t.seen /\ n.live = t.live /\ n.todo = t.todo /\ n.pc = "lockUser"
    BY <2>1 DEF Transactions
  <2> HIDE DEF n
  <2>4. Reliable(n, held[w] \cup {Code})
    BY <2>1, <2>3, RowsAreDistinct DEF Reliable, AfterUserLock
  <2> QED
    BY <2>1, <2>2, <2>3, <2>4, LockIInv
<1> QED
  BY <1>1, <1>2 DEF charge_code

LEMMA LockUserIInv ==
  ASSUME IInv, NEW w \in Worker, lock_user(w)
  PROVE  IInv'
<1> DEFINE t == tx[w]
           plan == IF t.seenPlan = None THEN user[t.user].plan ELSE t.seenPlan
           n == [t EXCEPT !.pc = "lockLive", !.at = now, !.seenPlan = plan]
<1>1. CASE End(w)
  BY <1>1, EndIInv DEF lock_user
<1>2. CASE /\ tx' = [tx EXCEPT ![w].pc = "lockLive", ![w].at = now,
                ![w].seenPlan = IF @ = None THEN user[t.user].plan ELSE @]
           /\ Take(w, t.user)
  <2>1. /\ t.pc = "lockUser" /\ Reliable(t, held[w]) /\ t \in Transactions
        /\ t.user \in User
    BY ReliableNow DEF lock_user
  <2>2. tx' = [tx EXCEPT ![w] = n]
    BY <1>2, <2>1 DEF IInv, TypeOK, WorkersTyped, Transactions
  <2>3. /\ held' = [held EXCEPT ![w] = @ \cup {t.user}]
        /\ {t.user} \in SUBSET Row /\ \A r \in {t.user} : FreeFor(w, r)
        /\ UNCHANGED <<now, db, gateway, job>>
    BY <1>2, <2>1 DEF lock_user, Take, Row
  <2>4. now \in Nat /\ plan \in Plan \cup {Free, None}
    BY <2>1 DEF IInv, TypeOK, RowsTyped, Transactions
  <2> HIDE DEF plan
  <2>5. /\ n \in Transactions /\ n.op = t.op /\ n.pay = t.pay /\ n.user = t.user
        /\ n.plan = t.plan /\ n.seen = t.seen /\ n.live = t.live /\ n.todo = t.todo /\ n.pc = "lockLive"
    BY <2>1, <2>4 DEF Transactions
  <2> HIDE DEF n
  <2>6. Reliable(n, held[w] \cup {t.user})
    BY <2>1, <2>5, RowsAreDistinct DEF Reliable, AfterUserLock
  <2> QED
    BY <2>1, <2>2, <2>3, <2>5, <2>6, LockIInv
<1> QED
  BY <1>1, <1>2 DEF lock_user

LEMMA LockLiveIInv ==
  ASSUME IInv, NEW w \in Worker, lock_live(w)
  PROVE  IInv'
<1> DEFINE t == tx[w]
<1>1. /\ t.pc = "lockLive" /\ Reliable(t, held[w]) /\ t \in Transactions
      /\ t.user \in User /\ UNCHANGED <<now, db, gateway, job>>
  BY ReliableNow DEF lock_live
<1>2. CASE LiveSubs(t.user) = {} /\ tx' = [tx EXCEPT ![w].pc = "grant"] /\ UNCHANGED held
  <2> DEFINE n == [t EXCEPT !.pc = "grant"]
  <2>R. PICK R \in SUBSET Row : R = {}
    OBVIOUS
  <2>1. tx' = [tx EXCEPT ![w] = n] /\ held' = [held EXCEPT ![w] = @ \cup R]
    BY <1>2, <2>R DEF IInv, TypeOK, WorkersTyped, Transactions
  <2>2. /\ n \in Transactions /\ n.op = t.op /\ n.pay = t.pay /\ n.user = t.user
        /\ n.plan = t.plan /\ n.seen = t.seen /\ n.pc = "grant" /\ n.live = t.live /\ n.todo = t.todo
    BY <1>1 DEF Transactions
  <2> HIDE DEF n
  <2>3. Reliable(n, held[w] \cup R)
    BY <1>1, <1>2, <2>2, <2>R DEF Reliable, AfterUserLock, LiveSubs
  <2> QED
    BY <1>1, <2>1, <2>2, <2>3, <2>R, LockIInv
<1>3. ASSUME NEW s \in LiveSubs(t.user), FreeFor(w, s), Take(w, s),
             tx' = [tx EXCEPT ![w].pc = "grant", ![w].live = s]
      PROVE  IInv'
  <2> DEFINE n == [t EXCEPT !.pc = "grant", !.live = s]
  <2>1. /\ s \in Sub /\ IsLive(s) /\ sub[s].user = t.user
    BY <1>3 DEF LiveSubs
  <2>2. /\ tx' = [tx EXCEPT ![w] = n] /\ held' = [held EXCEPT ![w] = @ \cup {s}]
        /\ {s} \in SUBSET Row /\ \A r \in {s} : FreeFor(w, r)
    BY <1>3, <2>1 DEF IInv, TypeOK, WorkersTyped, Transactions, Take, Row
  <2>3. /\ n \in Transactions /\ n.op = t.op /\ n.pay = t.pay /\ n.user = t.user
        /\ n.plan = t.plan /\ n.seen = t.seen /\ n.pc = "grant" /\ n.live = s
        /\ n.todo = t.todo
    BY <1>1, <2>1 DEF Transactions
  <2>4. \A i \in Sub : IsLive(i) /\ sub[i].user = t.user => i = s
    BY <2>1 DEF IInv, OneLivePerUser
  <2> HIDE DEF n
  <2>5. Reliable(n, held[w] \cup {s})
    BY <1>1, <2>1, <2>3, <2>4 DEF Reliable, AfterUserLock, IsLive, LiveStatuses
  <2> QED
    BY <1>1, <2>2, <2>3, <2>5, LockIInv
<1> QED
  BY <1>2, <1>3 DEF lock_live

LEMMA RevokeIInv ==
  ASSUME IInv, NEW w \in Worker, NEW s \in Sub, revoke(w, s)
  PROVE  IInv'
<1> DEFINE t == tx[w]
           n == [t EXCEPT !.todo = @ \ {s}]
<1>1. /\ t.pc = "revoke" /\ t.op = "refund" /\ Reliable(t, held[w]) /\ t \in Transactions
  BY ReliableNow DEF revoke, At
<1>2. /\ tx' = [tx EXCEPT ![w] = n] /\ held' = [held EXCEPT ![w] = @ \cup {s}]
      /\ {s} \in SUBSET Row /\ \A r \in {s} : FreeFor(w, r)
      /\ UNCHANGED <<now, db, gateway, job>>
  BY DEF revoke, IInv, TypeOK, WorkersTyped, Transactions, Take, Row
<1>3. /\ n \in Transactions /\ n.op = t.op /\ n.pay = t.pay /\ n.user = t.user
      /\ n.plan = t.plan /\ n.seen = t.seen /\ n.live = t.live /\ n.pc = "revoke"
      /\ n.todo = t.todo \ {s} /\ s \in t.todo
  BY <1>1 DEF Transactions, revoke
<1> HIDE DEF n
<1>4. Reliable(n, held[w] \cup {s})
  BY <1>1, <1>3 DEF Reliable, AfterUserLock
<1> QED
  BY <1>1, <1>2, <1>3, <1>4, LockIInv

------------------------------------------------------------------------------
\* Commits.

\* A row an actor holds is nobody else's.
LEMMA HeldFree ==
  ASSUME IInv, NEW a \in Actor, NEW r \in Row, r \in held[a]
  PROVE  FreeFor(a, r)
BY DEF IInv, Exclusive, FreeFor

\* A commit that only writes rows nobody else holds, and inserts only under a locked
\* user and payment, takes nothing away from what others rely on.
LEMMA CommitIInv ==
  ASSUME IInv, NEW a \in Actor, TypeOK', OneLivePerUser', RefundedNotLive',
         held' = [held EXCEPT ![a] = {}],
         \/ /\ a \in Worker /\ tx' = [tx EXCEPT ![a] = Idle] /\ job' = job
         \/ /\ a = Daily /\ tx' = tx /\ job' = JobIdle,
         \A p \in Payment :
           /\ payment'[p].status = "absent" <=> payment[p].status = "absent"
           /\ payment'[p].status # payment[p].status => FreeFor(a, p),
         \A s \in Sub : sub[s].status # "absent" =>
           /\ sub'[s].status # "absent"
           /\ sub'[s].user = sub[s].user /\ sub'[s].plan = sub[s].plan
           /\ sub'[s].payment = sub[s].payment
           /\ IsLive(s)' => IsLive(s)
           /\ sub[s].status = "refunded" => sub'[s].status = "refunded"
           /\ sub'[s].status # sub[s].status => FreeFor(a, s),
         \A s \in Sub : sub[s].status = "absent" =>
           \/ sub'[s] = sub[s]
           \/ /\ sub'[s].status # "absent"
              /\ sub'[s].user \in User /\ sub'[s].user \in held[a] /\ sub'[s].plan \in Plan
              /\ sub'[s].payment # None =>
                   sub'[s].payment \in Payment /\ sub'[s].payment \in held[a]
  PROVE  IInv'
<1>1. /\ \A v \in Worker : v # a => tx'[v] = tx[v]
      /\ a \in Worker => tx'[a] = Idle
      /\ \A b \in Actor : b # a => held'[b] = held[b]
      /\ \A b \in Actor : held'[b] \subseteq held[b]
      /\ Idle.op = "none" /\ Idle.pc = "idle" /\ Idle.seen = None /\ Idle.live = None
      /\ Idle.todo = {} /\ Idle.pay = None
  BY Constants DEF IInv, TypeOK, WorkersTyped, Idle
<1>2. \A r \in Row, b \in Actor : b # a /\ r \in held[b] => r \notin held[a] /\ ~FreeFor(a, r)
  BY DEF IInv, Exclusive, FreeFor
<1>3. Exclusive'
  BY <1>1 DEF IInv, Exclusive
<1>4. Shape'
  BY <1>1 DEF IInv, Shape
<1>5. RowsComplete' /\ Present'
  <2>1. RowsComplete'
    BY DEF IInv, RowsComplete
  <2>2. Present'
    BY <1>1 DEF IInv, Present
  <2> QED
    BY <2>1, <2>2
<1>6. PaymentHeld' /\ UserHeld'
  BY <1>1 DEF IInv, PaymentHeld, UserHeld, AfterPayLock, AfterUserLock, Actor
<1>7. LiveKnown'
  <2> SUFFICES ASSUME NEW v \in Worker, tx'[v].pc = "grant"
               PROVE  /\ tx'[v].live # None => /\ tx'[v].live \in held'[v]
                                               /\ sub'[tx'[v].live].status \in LiveStatuses
                      /\ \A s \in Sub : IsLive(s)' /\ sub'[s].user = tx'[v].user => s = tx'[v].live
    BY DEF LiveKnown, IsLive
  <2>1. /\ v # a /\ v \in Actor /\ tx'[v] = tx[v] /\ held'[v] = held[v]
        /\ tx[v].user \in held[v] /\ tx[v].user \in Row /\ tx[v].live \in Sub \cup {None}
    BY <1>1 DEF IInv, UserHeld, AfterUserLock, Actor, TypeOK, WorkersTyped, Transactions,
       Shape, Row
  <2>2. /\ tx[v].live # None => tx[v].live \in held[v] /\ IsLive(tx[v].live)
        /\ \A s \in Sub : IsLive(s) /\ sub[s].user = tx[v].user => s = tx[v].live
    BY <2>1 DEF IInv, LiveKnown
  <2>3. ASSUME tx[v].live # None
        PROVE  tx[v].live \in held[v] /\ sub'[tx[v].live].status \in LiveStatuses
    BY <1>2, <2>1, <2>2, <2>3 DEF Row, IsLive, LiveStatuses
  <2>4. ASSUME NEW s \in Sub, IsLive(s)', sub'[s].user = tx[v].user
        PROVE  s = tx[v].live
    <3>1. CASE sub[s].status = "absent"
      BY <1>2, <2>1, <2>4, <3>1 DEF IsLive, LiveStatuses
    <3>2. CASE sub[s].status # "absent"
      BY <2>2, <2>4, <3>2
    <3> QED
      BY <3>1, <3>2
  <2> QED
    BY <2>1, <2>3, <2>4
<1>8. StatusKnown'
  <2>1. ASSUME NEW v \in Worker, tx[v].op = "approve", tx[v].pc \in AfterPayLock, v # a
        PROVE  payment'[tx[v].pay].status = payment[tx[v].pay].status
    <3>1. tx[v].pay \in Payment /\ tx[v].pay \in held[v] /\ tx[v].pay \in Row /\ v \in Actor
      BY <2>1, Constants DEF IInv, PaymentHeld, Shape, Actor, Row
    <3> QED
      BY <1>2, <2>1, <3>1
  <2> QED
    BY <1>1, <2>1 DEF IInv, StatusKnown
<1>9. RefundCovers'
  <2> SUFFICES ASSUME NEW v \in Worker, tx'[v].pc = "revoke", NEW s \in Sub,
                      sub'[s].payment = tx'[v].pay, sub'[s].status # "refunded"
               PROVE  s \in tx'[v].todo \/ s \in held'[v]
    BY DEF RefundCovers
  <2>1. /\ v # a /\ v \in Actor /\ tx'[v] = tx[v] /\ held'[v] = held[v]
        /\ tx[v].pay \in Payment /\ tx[v].pay \in Row /\ tx[v].pay \in held[v]
    BY <1>1, Constants DEF IInv, PaymentHeld, AfterPayLock, Actor, Shape, Row
  <2>2. sub[s].payment = tx[v].pay /\ sub[s].status # "refunded"
    BY <1>2, <2>1, Constants
  <2> QED
    BY <2>1, <2>2 DEF IInv, RefundCovers
<1>10. JobKnown'
  BY <1>1, <1>2, Constants DEF IInv, JobKnown, JobIdle, IsLive, Actor, Row, TypeOK, JobTyped,
     LiveStatuses
<1> QED
  BY <1>3, <1>4, <1>5, <1>6, <1>7, <1>8, <1>9, <1>10 DEF IInv

\* A worker's commit that changes its payment only, to a status other than "refunded".
LEMMA PaymentIInv ==
  ASSUME IInv, NEW w \in Worker, End(w), NEW p \in Payment, FreeFor(w, p),
         payment[p].status # "absent",
         NEW row \in [status : Statuses \ {"absent"}, receipt : BOOLEAN, due : Nat,
                      reviewed : BOOLEAN],
         row.status = "refunded" => payment[p].status = "refunded",
         payment' = [payment EXCEPT ![p] = row],
         UNCHANGED <<now, gateway, user, sub, uses, redeemed, job>>
  PROVE  IInv'
<1>1. /\ payment'[p] = row
      /\ \A q \in Payment : q # p => payment'[q] = payment[q]
  BY DEF IInv, TypeOK, RowsTyped
<1>2. TypeOK'
  <2>1. RowsTyped'
    BY DEF IInv, TypeOK, RowsTyped
  <2>2. WorkersTyped'
    BY DEF IInv, TypeOK, WorkersTyped, Transactions, Idle, End
  <2> QED
    BY <2>1, <2>2 DEF IInv, TypeOK, JobTyped, End
<1>3. OneLivePerUser'
  BY DEF IInv, OneLivePerUser, IsLive
<1>4. RefundedNotLive'
  BY <1>1 DEF IInv, RefundedNotLive, IsLive, TypeOK, RowsTyped
<1>5. /\ held' = [held EXCEPT ![w] = {}] /\ tx' = [tx EXCEPT ![w] = Idle] /\ job' = job
      /\ w \in Actor
  BY DEF End, Actor
<1> QED
  BY <1>1, <1>2, <1>3, <1>4, <1>5, CommitIInv DEF IsLive

\* The status that a settlement or an approval writes.
LEMMA WrittenStatus ==
  ASSUME IInv, NEW w \in Worker, tx[w].op \in {"settle", "approve"},
         tx[w].pc \in AfterPayLock
  PROVE  /\ Written(w, "paid") = "paid"
         /\ Written(w, "failed") \in Statuses \ {"absent"}
         /\ Written(w, "failed") = "refunded" => payment[tx[w].pay].status = "refunded"
<1>1. /\ tx[w].pay \in Payment /\ payment[tx[w].pay].status \in Statuses \ {"absent", None}
      /\ tx[w].op = "settle" => tx[w].seen \notin {None, "paid"}
      /\ tx[w].op = "approve" => tx[w].seen = payment[tx[w].pay].status
  BY Constants DEF IInv, TypeOK, RowsTyped, Shape, StatusKnown
<1> QED
  BY <1>1 DEF Written, Seen, Statuses

LEMMA RejectIInv ==
  ASSUME IInv, NEW w \in Worker, reject_payment(w)
  PROVE  IInv'
<1> DEFINE p == tx[w].pay
           row == [payment[p] EXCEPT !.status = "rejected", !.reviewed = TRUE]
<1>1. /\ p \in Payment /\ payment[p].status # "absent" /\ FreeFor(w, p)
      /\ End(w) /\ UNCHANGED <<now, gateway, user, sub, uses, redeemed, job>>
  BY DEF IInv, Shape, reject_payment, At
<1>2. CASE UNCHANGED payment
  BY <1>1, <1>2, EndIInv DEF db
<1>3. CASE payment' = [payment EXCEPT ![p].status = "rejected", ![p].reviewed = TRUE]
  <2>1. /\ row \in [status : Statuses \ {"absent"}, receipt : BOOLEAN, due : Nat,
                     reviewed : BOOLEAN]
        /\ row.status = "rejected"
    <3>1. payment[p] \in [status : Statuses, receipt : BOOLEAN, due : Nat, reviewed : BOOLEAN]
      BY <1>1 DEF IInv, TypeOK, RowsTyped
    <3>2. "rejected" \in Statuses \ {"absent"}
      BY DEF Statuses
    <3> QED
      BY <3>1, <3>2
  <2>2. payment' = [payment EXCEPT ![p] = row]
    BY <1>1, <1>3 DEF IInv, TypeOK, RowsTyped
  <2> HIDE DEF row, p
  <2> QED
    BY <1>1, <2>1, <2>2, PaymentIInv
<1> QED
  BY <1>2, <1>3 DEF reject_payment

LEMMA ReceiptIInv ==
  ASSUME IInv, NEW w \in Worker, attach_receipt(w)
  PROVE  IInv'
<1> DEFINE p == tx[w].pay
           row == [payment[p] EXCEPT !.receipt = TRUE, !.due = tx[w].at + ReviewTTL]
<1>1. /\ p \in Payment /\ payment[p].status # "absent" /\ FreeFor(w, p)
      /\ End(w) /\ UNCHANGED <<now, gateway, user, sub, uses, redeemed, job>>
  BY DEF IInv, Shape, attach_receipt, At
<1>2. tx[w].at + ReviewTTL \in Nat
  BY DaysAreNumbers DEF IInv, TypeOK, WorkersTyped, Transactions
<1>3. /\ row \in [status : Statuses \ {"absent"}, receipt : BOOLEAN, due : Nat,
                   reviewed : BOOLEAN]
      /\ row.status = payment[p].status
  BY <1>1, <1>2 DEF IInv, TypeOK, RowsTyped
<1>4. payment' = [payment EXCEPT ![p] = row]
  BY <1>1 DEF attach_receipt, IInv, TypeOK, RowsTyped
<1> HIDE DEF row, p
<1> QED
  BY <1>1, <1>3, <1>4, PaymentIInv

LEMMA VerifyFailedIInv ==
  ASSUME IInv, NEW w \in Worker, verify_failed(w)
  PROVE  IInv'
<1> DEFINE p == tx[w].pay
           row == [payment[p] EXCEPT !.status = Written(w, "failed")]
<1>1. /\ p \in Payment /\ payment[p].status # "absent" /\ p \in held[w] /\ p \in Row
      /\ w \in Actor /\ tx[w].op = "settle" /\ tx[w].pc \in AfterPayLock
      /\ End(w) /\ UNCHANGED <<now, gateway, user, sub, uses, redeemed, job>>
  BY Constants DEF IInv, Shape, verify_failed, At, PaymentHeld, AfterPayLock, Row, Actor
<1>2. FreeFor(w, p)
  BY <1>1, HeldFree
<1>3. /\ row \in [status : Statuses \ {"absent"}, receipt : BOOLEAN, due : Nat,
                   reviewed : BOOLEAN]
      /\ row.status = Written(w, "failed")
  BY <1>1, WrittenStatus DEF IInv, TypeOK, RowsTyped
<1>4. payment' = [payment EXCEPT ![p] = row]
  BY <1>1 DEF verify_failed, IInv, TypeOK, RowsTyped
<1>5. row.status = "refunded" => payment[p].status = "refunded"
  BY <1>1, <1>3, WrittenStatus
<1> HIDE DEF row, p
<1> QED
  BY <1>1, <1>2, <1>3, <1>4, <1>5, PaymentIInv

LEMMA FinishRefundIInv ==
  ASSUME IInv, NEW w \in Worker, finish_refund(w)
  PROVE  IInv'
<1> DEFINE t == tx[w]
<1>1. /\ t.pc = "revoke" /\ t.todo = {} /\ t.op = "refund" /\ t.pay \in Payment
      /\ t.user \in User /\ t.pay \in held[w] /\ t.pay \in Row /\ w \in Actor
      /\ payment[t.pay].status # "absent"
  BY Constants DEF IInv, Shape, finish_refund, At, PaymentHeld, AfterPayLock, Row, Actor
<1>2. /\ payment' = [payment EXCEPT ![t.pay].status = "refunded"]
      /\ sub' = [s \in Sub |-> IF s \in held[w]
                               THEN [sub[s] EXCEPT !.status = "refunded"] ELSE sub[s]]
      /\ user' = [user EXCEPT ![t.user].plan = Free, ![t.user].until = None]
      /\ tx' = [tx EXCEPT ![w] = Idle] /\ held' = [held EXCEPT ![w] = {}]
      /\ UNCHANGED <<now, gateway, uses, redeemed, job>>
  BY DEF finish_refund, End
<1>3. /\ payment'[t.pay].status = "refunded"
      /\ \A q \in Payment : q # t.pay => payment'[q] = payment[q]
  BY <1>1, <1>2 DEF IInv, TypeOK, RowsTyped
<1>4. \A s \in Sub : /\ sub'[s].user = sub[s].user /\ sub'[s].plan = sub[s].plan
                     /\ sub'[s].payment = sub[s].payment
                     /\ s \in held[w] => sub'[s].status = "refunded"
                     /\ s \notin held[w] => sub'[s] = sub[s]
  BY <1>2 DEF IInv, TypeOK, RowsTyped
<1>5. TypeOK'
  <2>1. RowsTyped'
    <3>1. (payment \in [Payment -> [status : Statuses, receipt : BOOLEAN, due : Nat,
                              reviewed : BOOLEAN]])'
      BY <1>2 DEF IInv, TypeOK, RowsTyped, Statuses
    <3>2. (user \in [User -> [plan : Plan \cup {Free}, until : Nat \cup {None},
                        trialUsed : BOOLEAN]])'
      BY <1>2 DEF IInv, TypeOK, RowsTyped
    <3>3. (sub \in [Sub -> [status : SubStatuses, user : User \cup {None},
                      plan : Plan \cup {None}, source : Sources \cup {None},
                      payment : Payment \cup {None}, expires : Nat, until : Nat]])'
      <4>1. "refunded" \in SubStatuses
        BY DEF SubStatuses
      <4> QED
        BY <1>2, <4>1 DEF IInv, TypeOK, RowsTyped
    <3> QED
      BY <1>2, <3>1, <3>2, <3>3 DEF IInv, TypeOK, RowsTyped
  <2>2. WorkersTyped'
    BY <1>2 DEF IInv, TypeOK, WorkersTyped, Transactions, Idle
  <2> QED
    BY <1>2, <2>1, <2>2 DEF IInv, TypeOK, JobTyped
<1>6. OneLivePerUser'
  BY <1>4 DEF IInv, OneLivePerUser, IsLive, LiveStatuses
<1>7. RefundedNotLive'
  <2> SUFFICES ASSUME NEW s \in Sub, sub'[s].payment # None,
                      payment'[sub'[s].payment].status = "refunded"
               PROVE  ~IsLive(s)'
    BY DEF RefundedNotLive
  <2>1. sub[s].payment \in Payment /\ sub[s].payment = sub'[s].payment
    BY <1>4 DEF IInv, TypeOK, RowsTyped
  <2>2. CASE sub[s].payment = t.pay
    BY <1>1, <1>4, <2>1, <2>2 DEF IInv, RefundCovers, IsLive, LiveStatuses
  <2>3. CASE sub[s].payment # t.pay
    BY <1>3, <1>4, <2>1, <2>3 DEF IInv, RefundedNotLive, IsLive, LiveStatuses
  <2> QED
    BY <2>2, <2>3
<1>8. /\ FreeFor(w, t.pay) /\ \A s \in Sub : s \in held[w] => FreeFor(w, s)
  BY <1>1, HeldFree DEF Row
<1>9. \A s \in Sub : sub[s].status # "absent" =>
           /\ sub'[s].status # "absent"
           /\ IsLive(s)' => IsLive(s)
           /\ sub[s].status = "refunded" => sub'[s].status = "refunded"
           /\ sub'[s].status # sub[s].status => FreeFor(w, s)
  BY <1>4, <1>8 DEF IsLive, LiveStatuses
<1>10. \A s \in Sub : sub[s].status = "absent" => sub'[s] = sub[s]
  BY <1>1, <1>4 DEF IInv, Present
<1>11. \A p \in Payment :
           /\ payment'[p].status = "absent" <=> payment[p].status = "absent"
           /\ payment'[p].status # payment[p].status => FreeFor(w, p)
  BY <1>1, <1>3, <1>8
<1> QED
  BY <1>1, <1>2, <1>4, <1>5, <1>6, <1>7, <1>9, <1>10, <1>11, CommitIInv

------------------------------------------------------------------------------
\* activate.

LEMMA MulNat ==
  /\ \A a \in Nat, b \in Nat : a * b \in Nat
  /\ \A a \in Nat \ {0}, b \in Nat \ {0} : a * b \in Nat \ {0}
OBVIOUS

\* The credit for unused days is a number of days.
LEMMA CreditNat ==
  ASSUME NEW old \in Plan, NEW new \in Plan, NEW days \in Nat
  PROVE  Credit(old, new, days) \in Nat
<1>1. /\ Period[old] \in Nat \ {0} /\ Period[new] \in Nat \ {0}
      /\ Price[old] \in Nat /\ Price[new] \in Nat
  BY PlansAreTyped
<1>2. CASE Price[old] > 0 /\ Price[new] > 0
  <2>1. Period[old] * Price[new] \in Nat \ {0}
    BY <1>1, <1>2, MulNat
  <2>2. days * Price[old] * Period[new] \in Nat
    <3>1. days * Price[old] \in Nat
      BY <1>1, MulNat
    <3> QED
      BY <1>1, <3>1, MulNat
  <2> DEFINE a == days * Price[old] * Period[new]
             b == Period[old] * Price[new]
  <2>3. Credit(old, new, days) = a \div b
    BY <1>2 DEF Credit
  <2>4. a \in Nat /\ b \in Nat /\ b > 0
    BY <2>1, <2>2
  <2> HIDE DEF a, b
  <2> QED
    BY <2>3, <2>4, DivNat
<1>3. CASE ~(Price[old] > 0 /\ Price[new] > 0)
  BY <1>3 DEF Credit
<1> QED
  BY <1>2, <1>3

LEMMA NewExpiryNat ==
  ASSUME IInv, NEW w \in Worker, tx[w].pc = "grant"
  PROVE  NewExpiry(w) \in Nat
<1> DEFINE t == tx[w]
<1>1. /\ t.at \in Nat /\ t.plan \in Plan /\ t.live \in Sub \cup {None}
      /\ t.live # None => IsLive(t.live)
  BY DEF IInv, TypeOK, WorkersTyped, Transactions, Shape, LiveKnown
<1>2. Days(w) \in Nat
  BY <1>1, PlansAreTyped, DaysAreNumbers DEF Days
<1>3. CASE t.live = None
  BY <1>1, <1>2, <1>3 DEF NewExpiry
<1>4. CASE t.live # None
  <2> DEFINE old == sub[t.live]
             ends == Later(old.expires, t.at)
  <2>1. old.expires \in Nat /\ old.plan \in Plan
    BY <1>1, <1>4 DEF IInv, TypeOK, RowsTyped, RowsComplete, IsLive, LiveStatuses
  <2>2. ends \in Nat /\ ends - t.at \in Nat
    BY <1>1, <2>1 DEF Later
  <2>3. Credit(old.plan, t.plan, ends - t.at) \in Nat
    BY <1>1, <2>1, <2>2, CreditNat
  <2>4. NewExpiry(w) = IF old.plan = t.plan THEN ends + Days(w)
                       ELSE t.at + Days(w) + Credit(old.plan, t.plan, ends - t.at)
    BY <1>4 DEF NewExpiry
  <2> HIDE DEF old, ends
  <2> QED
    BY <1>1, <1>2, <2>2, <2>3, <2>4
<1> QED
  BY <1>3, <1>4

LEMMA ActivateIInv ==
  ASSUME IInv, NEW w \in Worker, activate(w)
  PROVE  IInv'
<1> DEFINE t == tx[w]
           row == [status |-> IF t.op = "trial" THEN "trialing" ELSE "active",
                   user |-> t.user, plan |-> t.plan, source |-> Source(t.op),
                   payment |-> t.pay, expires |-> NewExpiry(w), until |-> 0]
<1>1. /\ t.pc = "grant" /\ t.op \in {"settle", "approve", "trial", "gift"}
      /\ t.user \in User /\ t.user \in held[w] /\ t.plan \in Plan
      /\ t.op \in {"trial", "gift"} => t.pay = None
      /\ t.op \in {"settle", "approve"} => /\ t.pay \in Payment /\ t.pay \in held[w]
                                           /\ payment[t.pay].status # "absent"
      /\ t.live # None => t.live \in Sub /\ t.live \in held[w] /\ IsLive(t.live)
      /\ \A s \in Sub : IsLive(s) /\ sub[s].user = t.user => s = t.live
      /\ w \in Actor
  BY Constants DEF IInv, TypeOK, WorkersTyped, Transactions, Shape, activate, PaymentHeld,
     UserHeld, AfterPayLock, AfterUserLock, LiveKnown, Actor
<1>2. PICK s \in Sub :
        /\ sub[s].status = "absent"
        /\ sub' = [i \in Sub |-> IF i = s THEN row
                                ELSE IF i = t.live THEN [sub[i] EXCEPT !.status = "canceled"]
                                ELSE sub[i]]
  BY DEF activate
<1>3. /\ user' = [user EXCEPT ![t.user].plan = IF t.seenPlan = t.plan THEN @ ELSE t.plan,
                              ![t.user].until = NewExpiry(w),
                              ![t.user].trialUsed = @ \/ t.op = "trial"]
      /\ IF t.pay = None THEN UNCHANGED <<payment, uses, redeemed>>
         ELSE /\ payment' = [payment EXCEPT ![t.pay].status = Written(w, "paid"),
                                            ![t.pay].reviewed = @ \/ t.op = "approve"]
              /\ uses' = IF t.pay \in Coded THEN uses + 1 ELSE uses
              /\ redeemed' = IF t.pay \in Coded THEN redeemed \cup {t.pay} ELSE redeemed
      /\ tx' = [tx EXCEPT ![w] = Idle] /\ held' = [held EXCEPT ![w] = {}]
      /\ UNCHANGED <<now, gateway, job>>
  BY DEF activate, End
<1>4. /\ NewExpiry(w) \in Nat
      /\ t.pay # None => t.pay \in Payment /\ Written(w, "paid") = "paid"
  BY <1>1, NewExpiryNat, WrittenStatus DEF AfterPayLock
<1>5. /\ row.status \in {"trialing", "active"} /\ row.user = t.user /\ row.plan = t.plan
      /\ row.payment = t.pay
      /\ row \in [status : SubStatuses, user : User \cup {None},
                  plan : Plan \cup {None}, source : Sources \cup {None},
                  payment : Payment \cup {None}, expires : Nat, until : Nat]
  <2>1. Source(t.op) \in Sources
    BY <1>1 DEF Source, Sources
  <2>2. t.pay \in Payment \cup {None}
    BY <1>4
  <2> QED
    BY <1>1, <1>4, <2>1, <2>2 DEF SubStatuses
<1> HIDE DEF row
<1>6. /\ sub'[s] = row /\ s # t.live
      /\ \A i \in Sub : i # s /\ i # t.live => sub'[i] = sub[i]
      /\ t.live # None => sub'[t.live] = [sub[t.live] EXCEPT !.status = "canceled"]
  <2>1. s # t.live
    BY <1>1, <1>2, Constants DEF IsLive, LiveStatuses
  <2>2. \A i \in Sub : sub'[i] = IF i = s THEN row
                                ELSE IF i = t.live THEN [sub[i] EXCEPT !.status = "canceled"]
                                ELSE sub[i]
    BY <1>2
  <2> QED
    BY <1>1, <2>1, <2>2
<1>7. t.live # None => /\ sub'[t.live].status = "canceled"
                       /\ sub'[t.live].user = sub[t.live].user
                       /\ sub'[t.live].plan = sub[t.live].plan
                       /\ sub'[t.live].payment = sub[t.live].payment
  BY <1>1, <1>6 DEF IInv, TypeOK, RowsTyped
<1>8. /\ t.pay # None => payment'[t.pay].status = "paid"
      /\ \A q \in Payment : q # t.pay => payment'[q] = payment[q]
  BY <1>3, <1>4 DEF IInv, TypeOK, RowsTyped
<1>9. TypeOK'
  <2>1. (payment \in [Payment -> [status : Statuses, receipt : BOOLEAN, due : Nat,
                              reviewed : BOOLEAN]])'
    <3>1. "paid" \in Statuses
      BY DEF Statuses
    <3> QED
      BY <1>3, <1>4, <3>1 DEF IInv, TypeOK, RowsTyped
  <2>2. (user \in [User -> [plan : Plan \cup {Free}, until : Nat \cup {None},
                        trialUsed : BOOLEAN]])'
    BY <1>1, <1>3, <1>4 DEF IInv, TypeOK, RowsTyped
  <2>3. (sub \in [Sub -> [status : SubStatuses, user : User \cup {None},
                      plan : Plan \cup {None}, source : Sources \cup {None},
                      payment : Payment \cup {None}, expires : Nat, until : Nat]])'
    <3>1. "canceled" \in SubStatuses
      BY DEF SubStatuses
    <3> QED
      BY <1>2, <1>5, <3>1 DEF IInv, TypeOK, RowsTyped
  <2>4. (uses \in Nat /\ redeemed \subseteq Payment)'
    BY <1>3, <1>4 DEF IInv, TypeOK, RowsTyped
  <2>5. WorkersTyped'
    BY <1>3 DEF IInv, TypeOK, WorkersTyped, Transactions, Idle
  <2> QED
    BY <1>3, <2>1, <2>2, <2>3, <2>4, <2>5 DEF IInv, TypeOK, RowsTyped, JobTyped
<1>10. OneLivePerUser'
  <2> SUFFICES ASSUME NEW i \in Sub, NEW j \in Sub, sub'[i].status \in LiveStatuses,
                      sub'[j].status \in LiveStatuses, sub'[i].user = sub'[j].user
               PROVE  i = j
    BY DEF OneLivePerUser, IsLive
  <2>1. \A k \in Sub : sub'[k].status \in LiveStatuses /\ k # s =>
          IsLive(k) /\ sub'[k].user = sub[k].user /\ k # t.live
    BY <1>6, <1>7, Constants DEF IsLive, LiveStatuses
  <2>2. \A k \in Sub : sub'[k].status \in LiveStatuses /\ k # s => sub'[k].user # t.user
    BY <1>1, <2>1
  <2> QED
    BY <1>5, <1>6, <2>1, <2>2 DEF IInv, OneLivePerUser
<1>11. RefundedNotLive'
  <2> SUFFICES ASSUME NEW i \in Sub, sub'[i].payment # None,
                      payment'[sub'[i].payment].status = "refunded"
               PROVE  sub'[i].status \notin LiveStatuses
    BY DEF RefundedNotLive, IsLive
  <2>1. i # s
    BY <1>5, <1>6, <1>8
  <2>2. CASE i = t.live
    BY <1>1, <1>7, <2>2, Constants DEF LiveStatuses
  <2>3. CASE i # t.live
    BY <1>6, <1>8, <2>1, <2>3 DEF IInv, RefundedNotLive, IsLive, TypeOK, RowsTyped
  <2> QED
    BY <2>2, <2>3
<1>12. /\ t.pay # None => FreeFor(w, t.pay)
       /\ t.live # None => FreeFor(w, t.live)
  BY <1>1, HeldFree DEF Row
<1>13. \A p \in Payment :
           /\ payment'[p].status = "absent" <=> payment[p].status = "absent"
           /\ payment'[p].status # payment[p].status => FreeFor(w, p)
  BY <1>1, <1>8, <1>12, Constants
<1>14. \A i \in Sub : sub[i].status # "absent" =>
           /\ sub'[i].status # "absent"
           /\ sub'[i].user = sub[i].user /\ sub'[i].plan = sub[i].plan
           /\ sub'[i].payment = sub[i].payment
           /\ IsLive(i)' => IsLive(i)
           /\ sub[i].status = "refunded" => sub'[i].status = "refunded"
           /\ sub'[i].status # sub[i].status => FreeFor(w, i)
  <2> TAKE i \in Sub
  <2>1. CASE i = t.live
    BY <1>1, <1>7, <1>12, <2>1, Constants DEF IsLive, LiveStatuses
  <2>2. CASE i # t.live
    BY <1>2, <1>6, <2>2 DEF IsLive
  <2> QED
    BY <2>1, <2>2
<1>15. \A i \in Sub : sub[i].status = "absent" =>
           \/ sub'[i] = sub[i]
           \/ /\ sub'[i].status # "absent"
              /\ sub'[i].user \in User /\ sub'[i].user \in held[w] /\ sub'[i].plan \in Plan
              /\ sub'[i].payment # None =>
                   sub'[i].payment \in Payment /\ sub'[i].payment \in held[w]
  <2> TAKE i \in Sub
  <2>1. CASE i = s
    BY <1>1, <1>5, <1>6, <2>1
  <2>2. CASE i # s
    BY <1>1, <1>6, <2>2, Constants DEF IsLive, LiveStatuses
  <2> QED
    BY <2>1, <2>2
<1> QED
  BY <1>1, <1>3, <1>9, <1>10, <1>11, <1>13, <1>14, <1>15, CommitIInv

------------------------------------------------------------------------------
\* Outside the handlers.

LEMMA OutsideIInv ==
  ASSUME IInv, Outside
  PROVE  IInv'
<1>1. CASE Tick
  <2>1. UNCHANGED <<db, gateway, tx, held, job>> /\ now' = now + 1
    BY <1>1 DEF Tick
  <2>2. TypeOK'
    BY <2>1 DEF IInv, TypeOK, RowsTyped, WorkersTyped, JobTyped, db
  <2>3. RowsComplete' /\ OneLivePerUser' /\ RefundedNotLive'
    BY <2>1, RowsFrame DEF IInv, TypeOK
  <2>4. Exclusive' /\ Shape' /\ Present' /\ PaymentHeld' /\ UserHeld'
    BY <2>1 DEF db, IInv, Exclusive, Shape, Present, PaymentHeld, UserHeld
  <2>5. LiveKnown' /\ StatusKnown' /\ RefundCovers' /\ JobKnown'
    BY <2>1 DEF db, IInv, LiveKnown, StatusKnown, RefundCovers, JobKnown, IsLive
  <2> QED
    BY <2>2, <2>3, <2>4, <2>5 DEF IInv
<1>2. ASSUME NEW p \in Payment, start_checkout(p)
      PROVE  IInv'
  <2>1. /\ payment[p].status = "absent" /\ payment'[p].status \in {"pending", "pending_review"}
        /\ \A q \in Payment : q # p => payment'[q] = payment[q]
        /\ UNCHANGED <<now, gateway, user, sub, uses, redeemed, tx, held, job>>
    BY <1>2 DEF start_checkout, IInv, TypeOK, RowsTyped
  <2>2. TypeOK'
    <3>1. (payment \in [Payment -> [status : Statuses, receipt : BOOLEAN, due : Nat,
                                    reviewed : BOOLEAN]])'
      <4> DEFINE status == IF ProviderOf[p] = "card" THEN "pending_review" ELSE "pending"
                 due == IF ProviderOf[p] = "card" THEN now + ReviewTTL ELSE 0
      <4>1. status \in Statuses /\ due \in Nat
        BY DaysAreNumbers DEF IInv, TypeOK, Statuses
      <4>2. payment' = [payment EXCEPT ![p].status = status, ![p].due = due]
        BY <1>2 DEF start_checkout
      <4> HIDE DEF status, due
      <4> QED
        BY <4>1, <4>2 DEF IInv, TypeOK, RowsTyped
    <3> QED
      BY <2>1, <3>1 DEF IInv, TypeOK, RowsTyped, WorkersTyped, JobTyped
  <2>3. RowsComplete' /\ OneLivePerUser' /\ RefundedNotLive'
    BY <2>1 DEF IInv, TypeOK, RowsTyped, RowsComplete, OneLivePerUser, RefundedNotLive, IsLive
  <2>4. Exclusive' /\ Present' /\ PaymentHeld' /\ UserHeld'
    BY <2>1 DEF IInv, Exclusive, Present, PaymentHeld, UserHeld
  <2>5. Shape' /\ StatusKnown'
    BY <2>1 DEF IInv, Shape, StatusKnown
  <2>6. LiveKnown' /\ RefundCovers' /\ JobKnown'
    BY <2>1 DEF IInv, LiveKnown, RefundCovers, JobKnown, IsLive, TypeOK, JobTyped
  <2> QED
    BY <2>2, <2>3, <2>4, <2>5, <2>6 DEF IInv
<1>3. ASSUME NEW p \in Payment, on_pre_checkout(p) \/ Capture(p)
      PROVE  IInv'
  <2>1. /\ UNCHANGED <<now, db, tx, held, job>>
        /\ gateway' \in [Payment -> {"open", "agreed", "captured"}]
    BY <1>3 DEF on_pre_checkout, Capture, IInv, TypeOK
  <2>2. TypeOK'
    BY <2>1 DEF IInv, TypeOK, RowsTyped, WorkersTyped, JobTyped, db
  <2>3. RowsComplete' /\ OneLivePerUser' /\ RefundedNotLive'
    BY <2>1, RowsFrame DEF IInv, TypeOK
  <2>4. Exclusive' /\ Shape' /\ Present' /\ PaymentHeld' /\ UserHeld'
    BY <2>1 DEF db, IInv, Exclusive, Shape, Present, PaymentHeld, UserHeld
  <2>5. LiveKnown' /\ StatusKnown' /\ RefundCovers' /\ JobKnown'
    BY <2>1 DEF db, IInv, LiveKnown, StatusKnown, RefundCovers, JobKnown, IsLive
  <2> QED
    BY <2>2, <2>3, <2>4, <2>5 DEF IInv
<1> QED
  BY <1>1, <1>2, <1>3 DEF Outside

------------------------------------------------------------------------------
\* The daily job.

JobRecords ==
  [pc : {"idle", "grace", "lapse", "users", "reviews"}, at : Nat,
   todo : SUBSET (Sub \cup User \cup Payment), graced : SUBSET Sub,
   lapsed : SUBSET Sub, stale : SUBSET Payment]

\* What the job j relies on when it holds the rows h.
JobRelies(j, h) ==
  /\ \A s \in j.graced : s \in h /\ sub[s].status \in {"active", "trialing"}
  /\ \A s \in j.lapsed : s \in h /\ IsLive(s)
  /\ \A p \in j.stale : p \in h /\ payment[p].status = "pending_review"

\* The job locks free rows that exist and notes what it found under the locks.
LEMMA JobLockIInv ==
  ASSUME IInv, NEW R \in SUBSET Row, job' \in JobRecords,
         held' = [held EXCEPT ![Daily] = @ \cup R],
         UNCHANGED <<now, db, gateway, tx>>,
         \A r \in R : FreeFor(Daily, r) /\ (r \in Sub => sub[r].status # "absent"),
         JobRelies(job', held[Daily] \cup R)
  PROVE  IInv'
<1>1. /\ held'[Daily] = held[Daily] \cup R
      /\ \A b \in Actor : b # Daily => held'[b] = held[b]
      /\ \A w \in Worker : held'[w] = held[w]
      /\ Daily \in Actor
  BY Constants DEF IInv, TypeOK, Actor
<1>2. TypeOK'
  <2>1. (held \in [Actor -> SUBSET Row])'
    BY DEF IInv, TypeOK
  <2>2. RowsTyped' /\ WorkersTyped' /\ JobTyped'
    BY DEF IInv, TypeOK, RowsTyped, WorkersTyped, JobTyped, JobRecords, db
  <2> QED
    BY <2>1, <2>2 DEF IInv, TypeOK
<1>3. Exclusive'
  BY <1>1 DEF IInv, Exclusive, FreeFor
<1>4. Shape' /\ StatusKnown'
  BY DEF IInv, Shape, StatusKnown, db
<1>5. RowsComplete' /\ OneLivePerUser' /\ RefundedNotLive'
  BY RowsFrame DEF IInv, TypeOK
<1>6. Present'
  BY <1>1 DEF IInv, Present, db
<1>7. PaymentHeld' /\ UserHeld' /\ LiveKnown' /\ RefundCovers'
  BY <1>1 DEF IInv, PaymentHeld, UserHeld, LiveKnown, RefundCovers, db, IsLive
<1>8. JobKnown'
  BY <1>1 DEF JobKnown, JobRelies, db, IsLive
<1> QED
  BY <1>2, <1>3, <1>4, <1>5, <1>6, <1>7, <1>8 DEF IInv

LEMMA JobNow ==
  ASSUME IInv
  PROVE  /\ job \in JobRecords /\ JobKnown /\ Daily \in Actor
         /\ held = [held EXCEPT ![Daily] = @ \cup {}]
         /\ JobRelies(job, held[Daily])
BY DEF IInv, TypeOK, JobTyped, JobRecords, JobKnown, JobRelies, Actor

\* From one UPDATE of the job to the next.
LEMMA JobNextIInv ==
  ASSUME IInv,
         job_start \/ job_next_lapse \/ job_next_users \/ job_next_reviews
  PROVE  IInv'
<1> PICK R \in SUBSET Row : R = {}
  OBVIOUS
<1>1. /\ held' = [held EXCEPT ![Daily] = @ \cup R]
      /\ UNCHANGED <<now, db, gateway, tx>>
  BY JobNow DEF job_start, job_next_lapse, job_next_users, job_next_reviews
<1>2. /\ job' \in JobRecords
      /\ job'.graced \subseteq job.graced /\ job'.lapsed \subseteq job.lapsed
      /\ job'.stale \subseteq job.stale
  <2>1. CASE job_start
    BY <2>1 DEF job_start, JobIdle, JobRecords, IInv, TypeOK
  <2>2. CASE job_next_lapse
    BY <2>2, JobNow DEF job_next_lapse, JobGoto, JobRecords
  <2>3. CASE job_next_users
    <3>1. Downgraded \subseteq User
      BY JobNow DEF Downgraded, JobKnown, IInv, RowsComplete, IsLive, LiveStatuses, JobRecords
    <3> QED
      BY <2>3, <3>1, JobNow DEF job_next_users, JobGoto, JobRecords
  <2>4. CASE job_next_reviews
    BY <2>4, JobNow DEF job_next_reviews, JobGoto, JobRecords
  <2> QED
    BY <2>1, <2>2, <2>3, <2>4
<1>3. JobRelies(job', held[Daily] \cup R)
  BY <1>2, JobNow DEF JobRelies
<1> QED
  BY <1>1, <1>2, <1>3, JobLockIInv

\* One row of one UPDATE.
LEMMA JobRowIInv ==
  ASSUME IInv,
         \/ \E s \in Sub : job_grace(s) \/ job_lapse(s)
         \/ \E u \in User : job_user(u)
         \/ \E p \in Payment : job_review(p)
  PROVE  IInv'
<1> DEFINE Left(x) == [job EXCEPT !.todo = @ \ {x}]
<1>1. ASSUME NEW x, job' = Left(x), UNCHANGED <<held, now, db, gateway, tx>>
      PROVE  IInv'
  <2> PICK R \in SUBSET Row : R = {}
    OBVIOUS
  <2>1. /\ job' \in JobRecords /\ job'.graced = job.graced /\ job'.lapsed = job.lapsed
        /\ job'.stale = job.stale
    BY <1>1, JobNow DEF JobRecords
  <2>2. held' = [held EXCEPT ![Daily] = @ \cup R]
    BY <1>1, JobNow
  <2>3. JobRelies(job', held[Daily] \cup R)
    BY <2>1, JobNow DEF JobRelies
  <2> QED
    BY <1>1, <2>1, <2>2, <2>3, JobLockIInv
<1>2. ASSUME NEW s \in Sub, job_grace(s)
      PROVE  IInv'
  <2>1. CASE job' = Left(s) /\ UNCHANGED held
    BY <1>1, <1>2, <2>1 DEF job_grace
  <2>2. CASE /\ sub[s].status \in {"active", "trialing"} /\ Take(Daily, s)
             /\ job' = [job EXCEPT !.todo = @ \ {s}, !.graced = @ \cup {s}]
    <3>1. /\ job' \in JobRecords /\ job'.graced = job.graced \cup {s}
          /\ job'.lapsed = job.lapsed /\ job'.stale = job.stale
      BY <2>2, JobNow DEF JobRecords
    <3>2. /\ held' = [held EXCEPT ![Daily] = @ \cup {s}] /\ FreeFor(Daily, s)
          /\ {s} \in SUBSET Row /\ UNCHANGED <<now, db, gateway, tx>>
      BY <1>2, <2>2 DEF job_grace, Take, Row
    <3>3. JobRelies(job', held[Daily] \cup {s})
      BY <2>2, <3>1, JobNow DEF JobRelies
    <3> QED
      BY <2>2, <3>1, <3>2, <3>3, JobLockIInv
  <2> QED
    BY <1>2, <2>1, <2>2 DEF job_grace
<1>3. ASSUME NEW s \in Sub, job_lapse(s)
      PROVE  IInv'
  <2>1. CASE job' = Left(s) /\ UNCHANGED held
    BY <1>1, <1>3, <2>1 DEF job_lapse
  <2>2. CASE /\ Lapsing(s) /\ Take(Daily, s)
             /\ job' = [job EXCEPT !.todo = @ \ {s}, !.lapsed = @ \cup {s}]
    <3>1. /\ job' \in JobRecords /\ job'.graced = job.graced
          /\ job'.lapsed = job.lapsed \cup {s} /\ job'.stale = job.stale
      BY <2>2, JobNow DEF JobRecords
    <3>2. /\ held' = [held EXCEPT ![Daily] = @ \cup {s}] /\ FreeFor(Daily, s)
          /\ {s} \in SUBSET Row /\ UNCHANGED <<now, db, gateway, tx>>
      BY <1>3, <2>2 DEF job_lapse, Take, Row
    <3>3. IsLive(s)
      BY <2>2, JobNow DEF Lapsing, JobKnown, IsLive, LiveStatuses
    <3>4. sub[s].status # "absent"
      BY <3>3 DEF IsLive, LiveStatuses
    <3>5. JobRelies(job', held[Daily] \cup {s})
      BY <3>1, <3>3, JobNow DEF JobRelies
    <3> QED
      BY <3>1, <3>2, <3>4, <3>5, JobLockIInv
  <2> QED
    BY <1>3, <2>1, <2>2 DEF job_lapse
<1>4. ASSUME NEW u \in User, job_user(u)
      PROVE  IInv'
  <2>1. /\ job' \in JobRecords /\ job'.graced = job.graced
        /\ job'.lapsed = job.lapsed /\ job'.stale = job.stale
    BY <1>4, JobNow DEF JobRecords, job_user
  <2>2. /\ held' = [held EXCEPT ![Daily] = @ \cup {u}] /\ FreeFor(Daily, u)
        /\ {u} \in SUBSET Row /\ UNCHANGED <<now, db, gateway, tx>> /\ u \notin Sub
    BY <1>4, RowsAreDistinct DEF job_user, Take, Row
  <2>3. JobRelies(job', held[Daily] \cup {u})
    BY <2>1, JobNow DEF JobRelies
  <2> QED
    BY <2>1, <2>2, <2>3, JobLockIInv
<1>5. ASSUME NEW p \in Payment, job_review(p)
      PROVE  IInv'
  <2>1. CASE job' = Left(p) /\ UNCHANGED held
    BY <1>1, <1>5, <2>1 DEF job_review
  <2>2. CASE /\ Stale(p) /\ Take(Daily, p)
             /\ job' = [job EXCEPT !.todo = @ \ {p}, !.stale = @ \cup {p}]
    <3>1. /\ job' \in JobRecords /\ job'.graced = job.graced
          /\ job'.lapsed = job.lapsed /\ job'.stale = job.stale \cup {p}
      BY <2>2, JobNow DEF JobRecords
    <3>2. /\ held' = [held EXCEPT ![Daily] = @ \cup {p}] /\ FreeFor(Daily, p)
          /\ {p} \in SUBSET Row /\ UNCHANGED <<now, db, gateway, tx>> /\ p \notin Sub
      BY <1>5, <2>2, RowsAreDistinct DEF job_review, Take, Row
    <3>3. JobRelies(job', held[Daily] \cup {p})
      BY <2>2, <3>1, JobNow DEF JobRelies, Stale
    <3> QED
      BY <3>1, <3>2, <3>3, JobLockIInv
  <2> QED
    BY <1>5, <2>1, <2>2 DEF job_review
<1> QED
  BY <1>2, <1>3, <1>4, <1>5

\* The job's transaction is lost: everything it would have written is forgotten.
LEMMA JobRollbackIInv ==
  ASSUME IInv, job_rollback
  PROVE  IInv'
<1>1. /\ job' = JobIdle /\ held' = [held EXCEPT ![Daily] = {}] /\ Daily \in Actor
      /\ UNCHANGED <<now, db, gateway, tx>>
  BY DEF job_rollback, job_end, Actor
<1>2. TypeOK'
  BY <1>1 DEF IInv, TypeOK, RowsTyped, WorkersTyped, JobTyped, JobIdle, db
<1>3. OneLivePerUser' /\ RefundedNotLive'
  BY <1>1, RowsFrame DEF IInv, TypeOK
<1>4. payment' = payment /\ sub' = sub
  BY <1>1 DEF db
<1> QED
  BY <1>1, <1>2, <1>3, <1>4, CommitIInv DEF IsLive

LEMMA JobCommitIInv ==
  ASSUME IInv, job_commit
  PROVE  IInv'
<1>1. /\ sub' = [s \in Sub |->
           CASE s \in job.lapsed -> [sub[s] EXCEPT !.status = "expired"]
             [] s \in job.graced \ job.lapsed ->
                  [sub[s] EXCEPT !.status = "grace", !.until = job.at + GraceDays]
             [] OTHER -> sub[s]]
      /\ user' = [u \in User |-> IF u \in Downgraded
                                 THEN [user[u] EXCEPT !.plan = Free, !.until = None]
                                 ELSE user[u]]
      /\ payment' = [p \in Payment |-> IF p \in job.stale
                                       THEN [payment[p] EXCEPT !.status = "expired"]
                                       ELSE payment[p]]
      /\ job' = JobIdle /\ held' = [held EXCEPT ![Daily] = {}]
      /\ UNCHANGED <<now, gateway, uses, redeemed, tx>>
  BY DEF job_commit, job_end
<1>2. /\ job \in JobRecords /\ Daily \in Actor
      /\ \A s \in job.graced : FreeFor(Daily, s) /\ sub[s].status \in {"active", "trialing"}
      /\ \A s \in job.lapsed : FreeFor(Daily, s) /\ IsLive(s)
      /\ \A p \in job.stale : FreeFor(Daily, p) /\ payment[p].status = "pending_review"
  BY JobNow, HeldFree DEF JobKnown, JobRecords, Row
<1>3. \A s \in Sub :
        /\ sub'[s].user = sub[s].user /\ sub'[s].plan = sub[s].plan
        /\ sub'[s].payment = sub[s].payment
        /\ s \in job.lapsed => sub'[s].status = "expired"
        /\ s \in job.graced \ job.lapsed => sub'[s].status = "grace"
        /\ s \notin job.graced \cup job.lapsed => sub'[s] = sub[s]
  BY <1>1 DEF IInv, TypeOK, RowsTyped
<1>4. \A p \in Payment : /\ p \in job.stale => payment'[p].status = "expired"
                         /\ p \notin job.stale => payment'[p] = payment[p]
  BY <1>1 DEF IInv, TypeOK, RowsTyped
<1>5. TypeOK'
  <2>1. (payment \in [Payment -> [status : Statuses, receipt : BOOLEAN, due : Nat,
                              reviewed : BOOLEAN]])'
    <3>1. "expired" \in Statuses
      BY DEF Statuses
    <3> QED
      BY <1>1, <3>1 DEF IInv, TypeOK, RowsTyped
  <2>2. (user \in [User -> [plan : Plan \cup {Free}, until : Nat \cup {None},
                        trialUsed : BOOLEAN]])'
    BY <1>1 DEF IInv, TypeOK, RowsTyped
  <2>3. (sub \in [Sub -> [status : SubStatuses, user : User \cup {None},
                      plan : Plan \cup {None}, source : Sources \cup {None},
                      payment : Payment \cup {None}, expires : Nat, until : Nat]])'
    <3>1. /\ {"expired", "grace"} \subseteq SubStatuses
          /\ job.at + GraceDays \in Nat
      BY <1>2, DaysAreNumbers DEF SubStatuses, JobRecords
    <3> QED
      BY <1>1, <3>1 DEF IInv, TypeOK, RowsTyped
  <2>4. WorkersTyped' /\ JobTyped'
    BY <1>1 DEF IInv, TypeOK, WorkersTyped, JobTyped, JobIdle
  <2> QED
    BY <1>1, <2>1, <2>2, <2>3, <2>4 DEF IInv, TypeOK, RowsTyped
<1>6. \A s \in Sub : IsLive(s)' => IsLive(s)
  BY <1>2, <1>3 DEF IsLive, LiveStatuses
<1>7. OneLivePerUser'
  BY <1>3, <1>6 DEF IInv, OneLivePerUser
<1>8. RefundedNotLive'
  BY <1>3, <1>4, <1>6 DEF IInv, RefundedNotLive, TypeOK, RowsTyped
<1>9. \A p \in Payment :
           /\ payment'[p].status = "absent" <=> payment[p].status = "absent"
           /\ payment'[p].status # payment[p].status => FreeFor(Daily, p)
  BY <1>2, <1>4
<1>10. \A s \in Sub : sub[s].status # "absent" =>
           /\ sub'[s].status # "absent"
           /\ sub[s].status = "refunded" => sub'[s].status = "refunded"
           /\ sub'[s].status # sub[s].status => FreeFor(Daily, s)
  BY <1>2, <1>3 DEF IsLive, LiveStatuses
<1>11. \A s \in Sub : sub[s].status = "absent" => sub'[s] = sub[s]
  BY <1>2, <1>3 DEF IsLive, LiveStatuses
<1> QED
  BY <1>1, <1>2, <1>3, <1>5, <1>6, <1>7, <1>8, <1>9, <1>10, <1>11, CommitIInv

------------------------------------------------------------------------------
\* Every step.

LEMMA NextIInv ==
  ASSUME IInv, [Next]_vars
  PROVE  IInv'
<1>1. ASSUME NEW w \in Worker, Step(w)
      PROVE  IInv'
  <2>1. CASE locked_payment(w)
    BY <2>1, LockedPaymentIInv
  <2>2. CASE reject_payment(w)
    BY <2>2, RejectIInv
  <2>3. CASE attach_receipt(w)
    BY <2>3, ReceiptIInv
  <2>4. CASE verify_paid(w)
    BY <2>4, VerifyPaidIInv
  <2>5. CASE verify_failed(w)
    BY <2>5, VerifyFailedIInv
  <2>6. CASE verify_error(w)
    BY <2>6, EndIInv DEF verify_error
  <2>7. CASE charge_code(w)
    BY <2>7, ChargeCodeIInv
  <2>8. CASE lock_user(w)
    BY <2>8, LockUserIInv
  <2>9. CASE lock_live(w)
    BY <2>9, LockLiveIInv
  <2>10. CASE activate(w)
    BY <2>10, ActivateIInv
  <2>11. CASE \E s \in Sub : revoke(w, s)
    BY <2>11, RevokeIInv
  <2>12. CASE finish_refund(w)
    BY <2>12, FinishRefundIInv
  <2> QED
    BY <1>1, <2>1, <2>2, <2>3, <2>4, <2>5, <2>6, <2>7, <2>8, <2>9, <2>10, <2>11, <2>12 DEF Step
<1>2. ASSUME NEW w \in Worker, rollback(w)
      PROVE  IInv'
  BY <1>2, EndIInv DEF rollback
<1>3. CASE Job
  BY <1>3, JobNextIInv, JobRowIInv, JobCommitIInv DEF Job
<1>4. CASE UNCHANGED vars
  <2>1. UNCHANGED <<now, db, gateway, tx, held, job>>
    BY <1>4 DEF vars, db
  <2>2. TypeOK'
    BY <2>1 DEF IInv, TypeOK, RowsTyped, WorkersTyped, JobTyped, db
  <2>3. RowsComplete' /\ OneLivePerUser' /\ RefundedNotLive'
    BY <2>1, RowsFrame DEF IInv, TypeOK
  <2>4. Exclusive' /\ Shape' /\ Present' /\ PaymentHeld' /\ UserHeld'
    BY <2>1 DEF db, IInv, Exclusive, Shape, Present, PaymentHeld, UserHeld
  <2>5. LiveKnown' /\ StatusKnown' /\ RefundCovers' /\ JobKnown'
    BY <2>1 DEF db, IInv, LiveKnown, StatusKnown, RefundCovers, JobKnown, IsLive
  <2> QED
    BY <2>2, <2>3, <2>4, <2>5 DEF IInv
<1> QED
  BY <1>1, <1>2, <1>3, <1>4, OutsideIInv, RequestIInv, JobRollbackIInv DEF Next

(***************************************************************************)
(* IInv is inductive: the row locks make it hold in every reachable state. *)
(***************************************************************************)
THEOREM Inductive == Spec => []IInv
<1>1. Init => IInv
  BY InitIInv
<1>2. IInv /\ [Next]_vars => IInv'
  BY NextIInv
<1> QED
  BY <1>1, <1>2, PTL DEF Spec

\* Every variable keeps its type.
THEOREM TypeCorrect == Spec => []TypeOK
<1>1. IInv => TypeOK
  BY DEF IInv
<1> QED
  BY <1>1, Inductive, PTL

(***************************************************************************)
(* A user never has two live subscriptions, for any number of users, plans,*)
(* concurrent requests, crashes and deadlocks: FOR UPDATE on users and on  *)
(* the live subscription in activate is enough, and the unique index       *)
(* subscriptions_one_live only a second line of defence.                   *)
(***************************************************************************)
THEOREM AtMostOneLive == Spec => []OneLivePerUser
<1>1. IInv => OneLivePerUser
  BY DEF IInv
<1> QED
  BY <1>1, Inductive, PTL

(***************************************************************************)
(* No subscription is live while the payment that bought it is "refunded", *)
(* whatever approvals, callbacks and refunds of it compete for its row.    *)
(***************************************************************************)
THEOREM RefundsHold == Spec => []RefundedNotLive
<1>1. IInv => RefundedNotLive
  BY DEF IInv
<1> QED
  BY <1>1, Inductive, PTL
===============================================================================
