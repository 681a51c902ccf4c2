----------------------------- MODULE GrantProofs -----------------------------
(***************************************************************************)
(* Proofs about grants: nothing is granted unpaid, a trial is given once,  *)
(* the user's row promises what a live subscription backs, no less where   *)
(* nobody is refunded, a renewal adds time, and a review that is asked for *)
(* stops the deadline.  They follow from the invariant of BillingProofs    *)
(* and what a transaction still knows of its payment and its user's rows   *)
(* when it writes.                                                         *)
(***************************************************************************)
EXTENDS BillingProofs, FiniteSetTheorems

\* Where nobody but a provider and its payer comes to the routes of stars and the gateways.
Solicited == Unsolicited \subseteq {"card"}

\* The provider took the money of a settlement that is past its verification, and of every
\* one that Telegram itself asks for.
Vouched(w) ==
  /\ tx[w].op = "settle"
  /\ tx[w].pc \in {"code", "lockUser", "lockLive", "grant"} \/ tx[w].seenPlan # None
  => gateway[tx[w].pay] = "captured"

\* What a transaction carries from its first statement to its last.
Knows(w) ==
  /\ tx[w].op \in {"settle", "approve"} =>
       tx[w].user = UserOf[tx[w].pay] /\ tx[w].plan = PlanOf[tx[w].pay]
  /\ Solicited => Vouched(w)
  /\ tx[w].op = "trial" /\ tx[w].pc \in {"lockLive", "grant"} => ~user[tx[w].user].trialUsed

Trial(s) == sub[s].source = "trial"

TrialsMarked ==
  /\ \A s, t \in Sub : Trial(s) /\ Trial(t) /\ sub[s].user = sub[t].user => s = t
  /\ \A s \in Sub : Trial(s) => sub[s].user \in User /\ user[sub[s].user].trialUsed

\* A row that was bought is its payment's user's, and of its plan.
Owned ==
  \A s \in Sub : LET p == sub[s].payment IN
    p # None => sub[s].user = UserOf[p] /\ sub[s].plan = PlanOf[p]

GInv == Owned /\ (Solicited => GrantBacked) /\ TrialsMarked /\ \A w \in Worker : Knows(w)

\* The rows a step leaves as far as these properties see them.
Kept ==
  /\ \A s \in Sub : /\ sub'[s].source = sub[s].source /\ sub'[s].user = sub[s].user
                    /\ sub'[s].plan = sub[s].plan /\ sub'[s].payment = sub[s].payment
  /\ \A u \in User : user'[u].trialUsed = user[u].trialUsed
  /\ \A p \in Payment : /\ payment[p].reviewed => payment'[p].reviewed
                        /\ gateway[p] = "captured" => gateway'[p] = "captured"

------------------------------------------------------------------------------

\* Initially no row is bought, none is a trial and no transaction runs.
LEMMA InitGInv == Init => GInv
<1> SUFFICES ASSUME Init PROVE GInv
  OBVIOUS
<1>1. \A s \in Sub : sub[s].payment = None /\ sub[s].source # "trial"
  <2>1. \A s \in Sub : sub[s].payment = None /\ sub[s].source = None
    BY DEF Init, NoSub
  <2>2. None # "trial"
    BY NoneIsNoValue DEF Sources
  <2> QED
    BY <2>1, <2>2
<1>2. Owned /\ GrantBacked /\ TrialsMarked
  BY <1>1 DEF Owned, GrantBacked, TrialsMarked, Trial
<1>3. \A w \in Worker : tx[w].op = "none"
  BY DEF Init, Idle
<1> QED
  BY <1>2, <1>3 DEF GInv, Knows, Vouched

\* Where a step keeps owners, plans, marks and backing, both row invariants stay.
LEMMA RowsGInv ==
  ASSUME IInv, GInv, Kept
  PROVE  Owned' /\ (Solicited' => GrantBacked') /\ TrialsMarked'
<1>1. \A s \in Sub : sub[s].payment \in Payment \cup {None}
  BY DEF IInv, TypeOK, RowsTyped
<1>2. Owned' /\ (Solicited' => GrantBacked')
  BY <1>1 DEF GInv, Owned, GrantBacked, Kept, Solicited
<1>3. TrialsMarked'
  BY DEF GInv, TrialsMarked, Trial, Kept
<1> QED
  BY <1>2, <1>3

\* A transaction that goes on as it was, among rows that were kept.
LEMMA StillKnows ==
  ASSUME IInv, GInv, Kept, NEW w \in Worker, tx'[w] = tx[w]
  PROVE  Knows(w)'
<1>1. tx[w].op \in {"settle", "approve"} => tx[w].pay \in Payment
  BY DEF IInv, Shape
<1>2. tx[w].op = "trial" /\ tx[w].pc \in {"lockLive", "grant"} => tx[w].user \in User
  BY DEF IInv, Shape
<1> QED
  BY <1>1, <1>2 DEF GInv, Knows, Vouched, Solicited, Kept

\* The step of one transaction that changes no row, or ends.
LEMMA StepGInv ==
  ASSUME IInv, GInv, Kept, NEW w \in Worker, \A v \in Worker \ {w} : tx'[v] = tx[v], Knows(w)'
  PROVE  GInv'
BY RowsGInv, StillKnows DEF GInv

\* A transaction that ends knows nothing.
LEMMA EndGInv ==
  ASSUME IInv, GInv, Kept, NEW w \in Worker, End(w)
  PROVE  GInv'
<1>1. tx'[w] = Idle /\ \A v \in Worker \ {w} : tx'[v] = tx[v]
  BY DEF End, IInv, TypeOK, WorkersTyped
<1>2. Knows(w)'
  BY <1>1 DEF Knows, Vouched, Idle
<1> QED
  BY <1>1, <1>2, StepGInv

\* A step that writes to none of the rows keeps them.
LEMMA SameRowsKept ==
  ASSUME UNCHANGED <<payment, gateway, user, sub>>
  PROVE  Kept
BY DEF Kept

\* Requests begin with the payment's own user and plan.
LEMMA RequestGInv ==
  ASSUME IInv, GInv, NEW w \in Worker, Request(w)
  PROVE  GInv'
<1>1. ASSUME NEW op, NEW p, NEW u, NEW pl, NEW seen, NEW sp, NEW pc,
             Begin(w, op, p, u, pl, seen, sp, pc), pc \in {"lockPay", "lockUser"},
             op \in {"settle", "approve"} => u = UserOf[p] /\ pl = PlanOf[p] /\ pc = "lockPay",
             op = "settle" /\ sp # None => gateway[p] = "captured"
      PROVE  GInv'
  <2>1. /\ tx'[w].op = op /\ tx'[w].pay = p /\ tx'[w].user = u /\ tx'[w].plan = pl
        /\ tx'[w].pc = pc /\ tx'[w].seenPlan = sp /\ \A v \in Worker \ {w} : tx'[v] = tx[v]
    BY <1>1 DEF Begin, Idle, IInv, TypeOK, WorkersTyped
  <2>2. Kept /\ gateway' = gateway
    BY <1>1, SameRowsKept DEF Begin, db
  <2>3. Knows(w)'
    BY <1>1, <2>1, <2>2 DEF Knows, Vouched
  <2> QED
    BY <2>1, <2>2, <2>3, StepGInv
<1>2. ASSUME NEW p \in Payment, settle_callback(w, p) PROVE GInv'
  BY <1>1, <1>2 DEF settle_callback, gateway_callback, on_successful_payment, Callback
<1>3. ASSUME NEW p \in Payment, NEW op \in {"approve", "reject"}, on_review_decision(w, op, p)
      PROVE  GInv'
  BY <1>1, <1>3 DEF on_review_decision
<1>4. ASSUME NEW p \in Payment, refund(w, p) PROVE GInv'
  BY <1>1, <1>4 DEF refund
<1>5. ASSUME NEW p \in Payment, on_receipt_photo(w, p) PROVE GInv'
  BY <1>1, <1>5 DEF on_receipt_photo
<1>6. ASSUME NEW u \in User, start_trial(w, u) PROVE GInv'
  BY <1>1, <1>6 DEF start_trial
<1>7. ASSUME NEW u \in User, NEW pl \in Plan, gift(w, u, pl) PROVE GInv'
  BY <1>1, <1>7 DEF gift
<1> QED
  BY <1>2, <1>3, <1>4, <1>5, <1>6, <1>7 DEF Request

\* Statements that only take a lock and go on.
LEMMA OnwardGInv ==
  ASSUME IInv, GInv, NEW w \in Worker, UNCHANGED <<payment, gateway, user, sub>>,
         \A v \in Worker \ {w} : tx'[v] = tx[v],
         tx'[w].op = tx[w].op, tx'[w].pay = tx[w].pay, tx'[w].user = tx[w].user,
         tx'[w].plan = tx[w].plan,
         Solicited => Vouched(w)',
         tx[w].op = "trial" /\ tx'[w].pc \in {"lockLive", "grant"} =>
           ~user[tx[w].user].trialUsed
  PROVE  GInv'
<1>1. Knows(w)'
  BY DEF GInv, Knows, Solicited
<1> QED
  BY <1>1, SameRowsKept, StepGInv

\* Each statement that locks, verifies or reads leaves its transaction what it knows.
LEMMA LocksGInv ==
  ASSUME IInv, GInv, NEW w \in Worker,
         \/ locked_payment(w) \/ verify_paid(w) \/ verify_error(w) \/ charge_code(w)
         \/ lock_user(w) \/ lock_live(w) \/ \E s \in Sub : revoke(w, s)
  PROVE  GInv'
<1>1. tx \in [Worker -> Transactions] /\ Knows(w)
  BY DEF IInv, TypeOK, WorkersTyped, GInv
<1>2. CASE locked_payment(w)
  <2>1. UNCHANGED <<payment, gateway, user, sub>>
    BY <1>2 DEF locked_payment, db
  <2>2. CASE End(w)
    BY <2>1, <2>2, SameRowsKept, EndGInv
  <2>3. CASE tx[w].op = "settle" /\ Advance(w, "verify")
    BY <1>1, <2>1, <2>3, OnwardGInv DEF Advance, Transactions, Knows, Vouched
  <2>4. CASE tx[w].op = "approve" /\ Advance(w, AfterPaid(tx[w].pay))
    BY <1>1, <2>1, <2>4, OnwardGInv DEF Advance, Transactions, Vouched
  <2>5. CASE /\ tx[w].op = "refund"
             /\ tx' = [tx EXCEPT ![w].pc = "revoke", ![w].seen = Seen(w),
                  ![w].todo = {s \in Sub : /\ sub[s].payment = tx[w].pay
                                           /\ sub[s].status # "refunded"}]
    BY <1>1, <2>1, <2>5, OnwardGInv DEF Transactions, Vouched
  <2> QED
    BY <1>2, <2>2, <2>3, <2>4, <2>5 DEF locked_payment
<1>3. CASE verify_paid(w)
  <2>1. /\ UNCHANGED <<payment, gateway, user, sub>> /\ tx[w].op = "settle"
        /\ tx' = [tx EXCEPT ![w].pc = AfterPaid(tx[w].pay)]
    BY <1>3 DEF verify_paid, At, db
  <2>2. ASSUME Solicited PROVE gateway[tx[w].pay] = "captured"
    <3>1. CASE tx[w].seenPlan # None
      BY <1>1, <2>1, <2>2, <3>1 DEF Knows, Vouched
    <3>2. CASE tx[w].seenPlan = None
      BY <1>3, <2>2, <3>2 DEF verify_paid, Routes, Referred, Confirmed, Solicited
    <3> QED
      BY <3>1, <3>2
  <2> QED
    BY <1>1, <2>1, <2>2, OnwardGInv DEF Vouched, Transactions
<1>4. CASE verify_error(w)
  BY <1>4, SameRowsKept, EndGInv DEF verify_error, db
<1>5. CASE charge_code(w)
  <2>1. UNCHANGED <<payment, gateway, user, sub>> /\ tx[w].pc = "code"
    BY <1>5 DEF charge_code, db
  <2>2. tx[w].op \in {"settle", "approve"}
    BY <2>1 DEF IInv, Shape
  <2>3. CASE End(w)
    BY <2>1, <2>3, SameRowsKept, EndGInv
  <2>4. CASE tx' = [tx EXCEPT ![w].pc = "lockUser"]
    BY <1>1, <2>1, <2>2, <2>4, OnwardGInv DEF Knows, Vouched, Transactions
  <2> QED
    BY <1>5, <2>3, <2>4 DEF charge_code
<1>6. CASE lock_user(w)
  <2>1. UNCHANGED <<payment, gateway, user, sub>> /\ tx[w].pc = "lockUser"
    BY <1>6 DEF lock_user, db
  <2>2. CASE End(w)
    BY <2>1, <2>2, SameRowsKept, EndGInv
  <2>3. CASE /\ ~(tx[w].op = "trial" /\ (user[tx[w].user].trialUsed \/ LiveSubs(tx[w].user) # {}))
             /\ tx' = [tx EXCEPT ![w].pc = "lockLive", ![w].at = now,
                         ![w].seenPlan = IF @ = None THEN user[tx[w].user].plan ELSE @]
    BY <1>1, <2>1, <2>3, OnwardGInv DEF Knows, Vouched, Transactions
  <2> QED
    BY <1>6, <2>2, <2>3 DEF lock_user
<1>7. CASE lock_live(w)
  <2>1. UNCHANGED <<payment, gateway, user, sub>> /\ tx[w].pc = "lockLive"
    BY <1>7 DEF lock_live, db
  <2>2. \/ tx' = [tx EXCEPT ![w].pc = "grant"]
        \/ \E s \in Sub : tx' = [tx EXCEPT ![w].pc = "grant", ![w].live = s]
    BY <1>7 DEF lock_live, LiveSubs
  <2>3. /\ \A v \in Worker \ {w} : tx'[v] = tx[v]
        /\ tx'[w].op = tx[w].op /\ tx'[w].pay = tx[w].pay /\ tx'[w].user = tx[w].user
        /\ tx'[w].plan = tx[w].plan
    BY <1>1, <2>2 DEF Transactions
  <2> QED
    BY <1>1, <2>1, <2>3, OnwardGInv DEF Knows, Vouched
<1>8. ASSUME NEW s \in Sub, revoke(w, s) PROVE GInv'
  BY <1>1, <1>8, OnwardGInv DEF revoke, At, db, Transactions, Vouched
<1> QED
  BY <1>2, <1>3, <1>4, <1>5, <1>6, <1>7, <1>8

\* Commits that write to the payment, or to the statuses of subscriptions.
LEMMA WritesGInv ==
  ASSUME IInv, GInv, NEW w \in Worker,
         \/ reject_payment(w) \/ attach_receipt(w) \/ verify_failed(w) \/ finish_refund(w)
  PROVE  GInv'
<1>1. /\ payment \in [Payment -> [status : Statuses, receipt : BOOLEAN, due : Nat,
                                  reviewed : BOOLEAN]]
      /\ user \in [User -> [plan : Plan \cup {Free}, until : Nat \cup {None},
                            trialUsed : BOOLEAN]]
      /\ sub \in [Sub -> [status : SubStatuses, user : User \cup {None},
                          plan : Plan \cup {None}, source : Sources \cup {None},
                          payment : Payment \cup {None}, expires : Nat, until : Nat]]
  BY DEF IInv, TypeOK, RowsTyped
<1>2. CASE reject_payment(w)
  <2>1. Kept
    BY <1>1, <1>2 DEF reject_payment, Kept
  <2> QED
    BY <1>2, <2>1, EndGInv DEF reject_payment
<1>3. CASE attach_receipt(w)
  <2>1. Kept
    BY <1>1, <1>3 DEF attach_receipt, Kept
  <2> QED
    BY <1>3, <2>1, EndGInv DEF attach_receipt
<1>4. CASE verify_failed(w)
  <2>1. Kept
    BY <1>1, <1>4 DEF verify_failed, Kept
  <2> QED
    BY <1>4, <2>1, EndGInv DEF verify_failed
<1>5. CASE finish_refund(w)
  <2>1. Kept
    BY <1>1, <1>5 DEF finish_refund, Kept
  <2> QED
    BY <1>5, <2>1, EndGInv DEF finish_refund
<1> QED
  BY <1>2, <1>3, <1>4, <1>5

\* The grant itself: one new row, and the mark of a trial with it.
LEMMA ActivateGInv ==
  ASSUME IInv, GInv, NEW w \in Worker, activate(w)
  PROVE  GInv'
<1> DEFINE t == tx[w]
<1>1. /\ t.pc = "grant" /\ t.op \in {"settle", "approve", "trial", "gift"}
      /\ t.user \in User /\ t \in Transactions
      /\ t.op \in {"settle", "approve"} => t.pay \in Payment
      /\ t.op \in {"trial", "gift"} => t.pay = None
  BY DEF activate, IInv, Shape, TypeOK, WorkersTyped
<1>2. PICK s \in Sub :
        /\ sub[s].status = "absent"
        /\ sub' = [i \in Sub |->
             IF i = s
             THEN [status |-> IF t.op = "trial" THEN "trialing" ELSE "active",
                   user |-> t.user, plan |-> t.plan, source |-> Source(t.op),
                   payment |-> t.pay, expires |-> NewExpiry(w), until |-> 0]
             ELSE IF i = t.live THEN [sub[i] EXCEPT !.status = "canceled"]
             ELSE sub[i]]
  BY DEF activate
<1>3. /\ sub'[s].user = t.user /\ sub'[s].plan = t.plan
      /\ sub'[s].source = Source(t.op) /\ sub'[s].payment = t.pay
  BY <1>2
<1>4. \A i \in Sub \ {s} :
        /\ sub'[i].source = sub[i].source /\ sub'[i].user = sub[i].user
        /\ sub'[i].plan = sub[i].plan /\ sub'[i].payment = sub[i].payment
  BY <1>2 DEF IInv, TypeOK, RowsTyped
<1>5. \A u \in User : user'[u].trialUsed =
        IF u = t.user THEN user[u].trialUsed \/ t.op = "trial" ELSE user[u].trialUsed
  BY <1>1 DEF activate, IInv, TypeOK, RowsTyped
<1>6. /\ gateway' = gateway
      /\ \A p \in Payment : payment[p].reviewed => payment'[p].reviewed
      /\ t.op = "approve" => payment'[t.pay].reviewed
  <2>1. gateway' = gateway
    BY DEF activate
  <2>2. CASE t.pay = None
    BY <1>1, <2>1, <2>2, NoneIsNoValue DEF activate
  <2>3. CASE t.pay # None
    <3>1. t.pay \in Payment /\ payment' = [payment EXCEPT ![t.pay].status = Written(w, "paid"),
                                                        ![t.pay].reviewed = @ \/ t.op = "approve"]
      BY <1>1, <2>3 DEF activate
    <3> QED
      BY <2>1, <3>1 DEF IInv, TypeOK, RowsTyped
  <2> QED
    BY <2>2, <2>3
<1>7. /\ t.op \in {"settle", "approve"} => t.user = UserOf[t.pay] /\ t.plan = PlanOf[t.pay]
      /\ Solicited /\ t.op = "settle" => gateway[t.pay] = "captured"
      /\ t.op = "trial" => ~user[t.user].trialUsed
  BY <1>1 DEF GInv, Knows, Vouched
<1> HIDE DEF t
<1>8. Owned' /\ (Solicited' => GrantBacked')
  <2>1. ASSUME NEW i \in Sub, sub'[i].payment # None
        PROVE  LET p == sub'[i].payment IN
               /\ sub'[i].user = UserOf[p] /\ sub'[i].plan = PlanOf[p]
               /\ Solicited => payment'[p].reviewed \/ gateway'[p] = "captured"
    <3>1. CASE i = s
      BY <1>1, <1>3, <1>6, <1>7, <2>1, <3>1
    <3>2. CASE i # s
      <4>1. sub[i].payment \in Payment
        BY <1>4, <2>1, <3>2 DEF IInv, TypeOK, RowsTyped
      <4> QED
        BY <1>4, <1>6, <2>1, <3>2, <4>1 DEF GInv, Owned, GrantBacked
    <3> QED
      BY <3>1, <3>2
  <2> QED
    BY <2>1 DEF Owned, GrantBacked, Solicited
<1>9. TrialsMarked'
  <2>1. Source(t.op) = "trial" <=> t.op = "trial"
    BY <1>1 DEF Source
  <2>2. \A i \in Sub \ {s} : Trial(i)' <=> Trial(i)
    BY <1>4 DEF Trial
  <2>3. Trial(s)' <=> t.op = "trial"
    BY <1>3, <2>1 DEF Trial
  <2>4. \A i \in Sub \ {s} : Trial(i) /\ t.op = "trial" => sub[i].user # t.user
    BY <1>7 DEF GInv, TrialsMarked
  <2>5. ASSUME NEW i \in Sub, NEW j \in Sub, Trial(i)', Trial(j)', sub'[i].user = sub'[j].user
        PROVE  i = j
    <3>1. CASE i # s /\ j # s
      BY <1>4, <2>2, <2>5, <3>1 DEF GInv, TrialsMarked
    <3>2. CASE i = s /\ j # s
      BY <1>3, <1>4, <2>2, <2>3, <2>4, <2>5, <3>2
    <3>3. CASE i # s /\ j = s
      BY <1>3, <1>4, <2>2, <2>3, <2>4, <2>5, <3>3
    <3> QED
      BY <3>1, <3>2, <3>3
  <2>6. ASSUME NEW i \in Sub, Trial(i)'
        PROVE  sub'[i].user \in User /\ user'[sub'[i].user].trialUsed
    <3>1. CASE i = s
      BY <1>1, <1>3, <1>5, <2>3, <2>6, <3>1 DEF t
    <3>2. CASE i # s
      BY <1>4, <1>5, <2>2, <2>6, <3>2 DEF GInv, TrialsMarked
    <3> QED
      BY <3>1, <3>2
  <2> QED
    BY <2>5, <2>6 DEF TrialsMarked
<1>10. ASSUME NEW v \in Worker PROVE Knows(v)'
  <2>1. CASE v = w
    <3>1. tx'[v] = Idle
      BY <2>1 DEF activate, End, IInv, TypeOK, WorkersTyped
    <3> QED
      BY <3>1 DEF Knows, Vouched, Idle
  <2>2. CASE v # w
    <3>1. tx'[v] = tx[v]
      BY <2>2 DEF activate, End, IInv, TypeOK, WorkersTyped
    <3>2. tx[v].op = "trial" /\ tx[v].pc \in {"lockLive", "grant"} =>
            tx[v].user \in User /\ tx[v].user # t.user
      <4> SUFFICES ASSUME tx[v].op = "trial", tx[v].pc \in {"lockLive", "grant"}
                   PROVE  tx[v].user \in User /\ tx[v].user # t.user
        OBVIOUS
      <4>1. tx[v].user \in held[v] /\ tx[v].user \in User
        BY DEF IInv, UserHeld, AfterUserLock, Shape
      <4>2. t.user \in held[w]
        BY <1>1 DEF IInv, UserHeld, AfterUserLock, t
      <4> QED
        BY <1>1, <2>2, <4>1, <4>2 DEF IInv, Exclusive, Actor, Row
    <3> QED
      BY <1>5, <1>6, <3>1, <3>2 DEF GInv, Knows, Vouched, Solicited
  <2> QED
    BY <2>1, <2>2
<1> QED
  BY <1>8, <1>9, <1>10 DEF GInv

\* Time, checkouts, the provider, the job, and nothing at all.
LEMMA OthersGInv ==
  ASSUME IInv, GInv, Outside \/ Job \/ job_rollback \/ UNCHANGED vars
  PROVE  GInv'
<1>1. /\ payment \in [Payment -> [status : Statuses, receipt : BOOLEAN, due : Nat,
                                  reviewed : BOOLEAN]]
      /\ gateway \in [Payment -> {"open", "agreed", "captured"}]
      /\ user \in [User -> [plan : Plan \cup {Free}, until : Nat \cup {None},
                            trialUsed : BOOLEAN]]
      /\ sub \in [Sub -> [status : SubStatuses, user : User \cup {None},
                          plan : Plan \cup {None}, source : Sources \cup {None},
                          payment : Payment \cup {None}, expires : Nat, until : Nat]]
  BY DEF IInv, TypeOK, RowsTyped
<1>2. ASSUME Kept, tx' = tx PROVE GInv'
  BY <1>2, RowsGInv, StillKnows DEF GInv
<1>3. CASE Outside
  <2>1. CASE Tick
    BY <1>2, <2>1, SameRowsKept DEF Tick, db
  <2>2. ASSUME NEW p \in Payment, start_checkout(p) PROVE GInv'
    <3>1. Kept
      BY <1>1, <2>2 DEF start_checkout, Kept
    <3> QED
      BY <1>2, <2>2, <3>1 DEF start_checkout
  <2>3. ASSUME NEW p \in Payment, on_pre_checkout(p) PROVE GInv'
    <3>1. Kept
      BY <1>1, <2>3 DEF on_pre_checkout, db, Kept
    <3> QED
      BY <1>2, <2>3, <3>1 DEF on_pre_checkout
  <2>4. ASSUME NEW p \in Payment, Capture(p) PROVE GInv'
    <3>1. Kept
      BY <1>1, <2>4 DEF Capture, db, Kept
    <3> QED
      BY <1>2, <2>4, <3>1 DEF Capture
  <2> QED
    BY <1>3, <2>1, <2>2, <2>3, <2>4 DEF Outside
<1>4. CASE job_commit
  <2>1. \A s \in Sub :
          /\ sub'[s].source = sub[s].source /\ sub'[s].user = sub[s].user
          /\ sub'[s].plan = sub[s].plan /\ sub'[s].payment = sub[s].payment
    BY <1>1, <1>4 DEF job_commit
  <2>2. \A u \in User : user'[u].trialUsed = user[u].trialUsed
    BY <1>1, <1>4 DEF job_commit
  <2>3. \A p \in Payment : payment[p].reviewed => payment'[p].reviewed
    BY <1>1, <1>4 DEF job_commit
  <2>4. Kept
    BY <1>4, <2>1, <2>2, <2>3 DEF job_commit, Kept
  <2> QED
    BY <1>2, <1>4, <2>4 DEF job_commit
<1>5. CASE UNCHANGED <<payment, gateway, user, sub, tx>>
  BY <1>2, <1>5, SameRowsKept
<1>6. Job => job_commit \/ UNCHANGED <<payment, gateway, user, sub, tx>>
  BY DEF Job, job_start, job_next_lapse, job_next_users, job_next_reviews, job_grace, job_lapse,
         job_user, job_review, db
<1>7. job_rollback \/ UNCHANGED vars => UNCHANGED <<payment, gateway, user, sub, tx>>
  BY DEF job_rollback, vars, db
<1> QED
  BY <1>3, <1>4, <1>5, <1>6, <1>7

\* Every step keeps GInv.
LEMMA NextGInv ==
  ASSUME IInv, GInv, [Next]_vars
  PROVE  GInv'
<1>1. ASSUME NEW w \in Worker, Step(w) PROVE GInv'
  BY <1>1, LocksGInv, WritesGInv, ActivateGInv DEF Step
<1>2. ASSUME NEW w \in Worker, rollback(w) PROVE GInv'
  BY <1>2, SameRowsKept, EndGInv DEF rollback, db
<1> QED
  BY <1>1, <1>2, OthersGInv, RequestGInv DEF Next

------------------------------------------------------------------------------
\* With the invariant of BillingProofs, GInv is inductive.
THEOREM GrantsInductive == Spec => []GInv
<1>1. Init => GInv
  BY InitGInv
<1>2. IInv /\ GInv /\ [Next]_vars => GInv'
  BY NextGInv
<1> QED
  BY <1>1, <1>2, Inductive, PTL DEF Spec

\* A subscription bought with a payment is its user's and its plan's, and the provider took
\* the money or an admin decided, whatever callbacks, approvals and refunds overlap
\* (settle_callback, approve_payment, activate) - where only the payers and the provider come
\* to the callback routes of stars and the gateways.  verify itself does not see to that: a
\* route believes what it is told of, or asks its provider about, another payment
\* (CallbackBelieved.cfg), so the hypothesis is about who calls.
THEOREM NothingUnpaid ==
  ASSUME Solicited
  PROVE  Spec => []GrantBacked
<1>1. GInv => GrantBacked
  BY DEF GInv
<1> QED
  BY <1>1, GrantsInductive, PTL

\* However many trials and gifts of a user race, one trial is given, and trial_used says so:
\* it is read and written under the lock of the user's row (start_trial, activate).
THEOREM OneTrial == Spec => []TrialOnce
<1>1. GInv => TrialOnce
  <2> SUFFICES ASSUME GInv, NEW u \in User
               PROVE  LET trials == {s \in Sub : sub[s].source = "trial" /\ sub[s].user = u}
                      IN Cardinality(trials) <= 1 /\ (trials # {} => user[u].trialUsed)
    BY DEF TrialOnce
  <2> DEFINE trials == {s \in Sub : sub[s].source = "trial" /\ sub[s].user = u}
  <2>1. \A s, t \in trials : s = t
    BY DEF GInv, TrialsMarked, Trial
  <2>2. trials # {} => user[u].trialUsed
    BY DEF GInv, TrialsMarked, Trial
  <2> HIDE DEF trials
  <2>3. trials = {} \/ \E s \in trials : trials = {s}
    BY <2>1
  <2>4. Cardinality(trials) <= 1
    <3>1. CASE trials = {}
      <4>1. Cardinality(trials) = 0
        BY <3>1, FS_EmptySet
      <4> QED
        BY <4>1
    <3>2. ASSUME NEW s \in trials, trials = {s} PROVE Cardinality(trials) <= 1
      <4>1. Cardinality({s}) = 1
        BY FS_Singleton
      <4> QED
        BY <3>2, <4>1
    <3> QED
      BY <2>3, <3>1, <3>2
  <2> QED
    BY <2>2, <2>4 DEF trials
<1> QED
  BY <1>1, GrantsInductive, PTL

------------------------------------------------------------------------------
(***************************************************************************)
(* What the user's row promises, and what a renewal is worth.              *)
(***************************************************************************)

NoStars == \A p \in Payment : ProviderOf[p] # "stars"

\* The rows a transaction holds are its user's and its payment's, and under the lock of the
\* user's row what it read there is still so.
Carries(w) ==
  /\ tx[w].op = "trial" /\ tx[w].pc \in AfterUserLock => LiveSubs(tx[w].user) = {}
  /\ tx[w].pc = "grant" /\ tx[w].live # None => sub[tx[w].live].user = tx[w].user
  /\ tx[w].op = "refund" => tx[w].user = UserOf[tx[w].pay]
  /\ \A s \in Sub : s \in held[w] => tx[w].pc \in {"grant", "revoke"}
  /\ tx[w].pc = "revoke" =>
       \A s \in Sub : s \in tx[w].todo \/ s \in held[w] => sub[s].payment = tx[w].pay
  /\ NoStars => tx[w].seenPlan = IF tx[w].pc \in AfterUserLock THEN user[tx[w].user].plan
                                 ELSE None

\* The job downgrades users whose rows it holds.
DowngradesHeld ==
  /\ job.pc = "users" => \A u \in Downgraded : u \in job.todo \/ u \in held[Daily]
  /\ job.pc = "reviews" => Downgraded \subseteq held[Daily]

\* The two halves of CacheNeverOverstates.
EndBacked ==
  \A u \in User : user[u].until # None => \E s \in LiveSubs(u) : sub[s].expires = user[u].until

PlanBacked ==
  \A u \in User : user[u].plan # Free => \E s \in LiveSubs(u) : sub[s].plan = user[u].plan

CInv ==
  /\ \A w \in Worker : Carries(w)
  /\ DowngradesHeld /\ EndBacked /\ (NoStars => PlanBacked)

\* Initially no row promises anything and nobody holds a row.
LEMMA InitCInv == Init => CInv
<1> SUFFICES ASSUME Init PROVE CInv
  OBVIOUS
<1>1. \A w \in Worker : Carries(w)
  BY DEF Init, Idle, Carries, Actor, AfterUserLock
<1>2. DowngradesHeld
  BY DEF Init, JobIdle, DowngradesHeld
<1>3. EndBacked /\ PlanBacked
  BY DEF Init, EndBacked, PlanBacked
<1> QED
  BY <1>1, <1>2, <1>3 DEF CInv

\* Where the rows of users and subscriptions stay, so does what they promise.
LEMMA SameRows ==
  ASSUME CInv, UNCHANGED <<user, sub>>
  PROVE  EndBacked' /\ (NoStars => PlanBacked)'
BY DEF CInv, EndBacked, PlanBacked, LiveSubs, IsLive, NoStars

\* A statement of one transaction that writes to neither.
LEMMA OwnStepCInv ==
  ASSUME IInv, CInv, NEW w \in Worker, UNCHANGED <<user, sub, job>>,
         \A v \in Worker \ {w} : tx'[v] = tx[v],
         \A a \in Actor \ {w} : held'[a] = held[a],
         Carries(w)'
  PROVE  CInv'
<1>1. ASSUME NEW v \in Worker \ {w} PROVE Carries(v)'
  <2>1. tx'[v] = tx[v] /\ held'[v] = held[v] /\ Carries(v)
    BY DEF CInv, Actor
  <2> QED
    BY <2>1 DEF Carries, LiveSubs, IsLive, NoStars
<1>2. DowngradesHeld'
  <2>1. held'[Daily] = held[Daily]
    BY Constants DEF Actor
  <2> QED
    BY <2>1 DEF CInv, DowngradesHeld, Downgraded
<1> QED
  BY <1>1, <1>2, SameRows DEF CInv

\* A transaction that ends drops its locks and carries nothing.
LEMMA EndsCInv ==
  ASSUME IInv, CInv, NEW w \in Worker, End(w), UNCHANGED <<user, sub, job>>
  PROVE  CInv'
<1>1. /\ tx'[w] = Idle /\ held'[w] = {}
      /\ \A v \in Worker \ {w} : tx'[v] = tx[v]
      /\ \A a \in Actor \ {w} : held'[a] = held[a]
  BY DEF End, IInv, TypeOK, WorkersTyped, Actor
<1>2. Carries(w)'
  BY <1>1 DEF Carries, Idle, AfterUserLock
<1> QED
  BY <1>1, <1>2, OwnStepCInv

\* A request begins without a row of subscriptions and, but for stars, without the user's.
LEMMA RequestCInv ==
  ASSUME IInv, CInv, NEW w \in Worker, Request(w)
  PROVE  CInv'
<1>1. ASSUME NEW op, NEW p, NEW u, NEW pl, NEW seen, NEW sp, NEW pc,
             Begin(w, op, p, u, pl, seen, sp, pc), pc \in {"lockPay", "lockUser"},
             tx[w].pc = "idle", op = "refund" => u = UserOf[p], NoStars => sp = None
      PROVE  CInv'
  <2>1. /\ tx'[w].op = op /\ tx'[w].pay = p /\ tx'[w].user = u /\ tx'[w].seenPlan = sp
        /\ tx'[w].pc = pc /\ \A v \in Worker \ {w} : tx'[v] = tx[v]
    BY <1>1 DEF Begin, Idle, IInv, TypeOK, WorkersTyped
  <2>2. UNCHANGED <<user, sub, job, held>>
    BY <1>1 DEF Begin, db
  <2>3. \A s \in Sub : s \notin held[w]
    BY <1>1 DEF CInv, Carries
  <2>4. Carries(w)'
    BY <1>1, <2>1, <2>2, <2>3 DEF Carries, AfterUserLock, NoStars
  <2> QED
    BY <2>1, <2>2, <2>4, OwnStepCInv
<1>2. ASSUME NEW p \in Payment, settle_callback(w, p) PROVE CInv'
  BY <1>1, <1>2
     DEF settle_callback, gateway_callback, on_successful_payment, Callback, Idling, NoStars
<1>3. ASSUME NEW p \in Payment, NEW op \in {"approve", "reject"}, on_review_decision(w, op, p)
      PROVE  CInv'
  BY <1>1, <1>3 DEF on_review_decision, Idling
<1>4. ASSUME NEW p \in Payment, refund(w, p) PROVE CInv'
  BY <1>1, <1>4 DEF refund, Idling
<1>5. ASSUME NEW p \in Payment, on_receipt_photo(w, p) PROVE CInv'
  BY <1>1, <1>5 DEF on_receipt_photo, Idling
<1>6. ASSUME NEW u \in User, start_trial(w, u) PROVE CInv'
  BY <1>1, <1>6 DEF start_trial, Idling
<1>7. ASSUME NEW u \in User, NEW pl \in Plan, gift(w, u, pl) PROVE CInv'
  BY <1>1, <1>7 DEF gift, Idling
<1> QED
  BY <1>2, <1>3, <1>4, <1>5, <1>6, <1>7 DEF Request

\* Statements that take a lock, or none, and go on.
LEMMA OnwardCInv ==
  ASSUME IInv, CInv, NEW w \in Worker, NEW R, UNCHANGED <<user, sub, job>>,
         \A v \in Worker \ {w} : tx'[v] = tx[v],
         held' = [held EXCEPT ![w] = @ \cup R],
         tx'[w].op = tx[w].op, tx'[w].pay = tx[w].pay, tx'[w].user = tx[w].user,
         Carries(w)'
  PROVE  CInv'
<1>1. \A a \in Actor \ {w} : held'[a] = held[a]
  BY DEF IInv, TypeOK
<1> QED
  BY <1>1, OwnStepCInv

\* Each statement that locks, verifies or reads gives its transaction only what it may hold.
LEMMA LocksCInv ==
  ASSUME IInv, CInv, NEW w \in Worker,
         \/ locked_payment(w) \/ verify_paid(w) \/ verify_error(w) \/ charge_code(w)
         \/ lock_user(w) \/ lock_live(w) \/ \E s \in Sub : revoke(w, s)
  PROVE  CInv'
<1> DEFINE t == tx[w]
<1>1. /\ tx \in [Worker -> Transactions] /\ held \in [Actor -> SUBSET Row] /\ w \in Actor
      /\ Carries(w)
  BY DEF IInv, TypeOK, WorkersTyped, CInv, Actor
<1>2. CASE locked_payment(w)
  <2>1. UNCHANGED <<user, sub, job>> /\ t.pc = "lockPay"
    BY <1>2 DEF locked_payment, db
  <2>2. t.pay \notin Sub
    <3>1. t.pay \in Payment
      BY <2>1 DEF IInv, Shape
    <3> QED
      BY <3>1, RowsAreDistinct
  <2>3. \A s \in Sub : s \notin held[w]
    BY <1>1, <2>1 DEF Carries
  <2>4. CASE End(w)
    BY <2>1, <2>4, EndsCInv
  <2>5. ASSUME NEW pc \in {"verify", "code", "lockUser"}, t.op \in {"settle", "approve"},
               Advance(w, pc), Take(w, t.pay)
        PROVE  CInv'
    <3>1. /\ tx'[w] = [t EXCEPT !.pc = pc, !.seen = Seen(w)]
          /\ \A v \in Worker \ {w} : tx'[v] = tx[v]
          /\ held' = [held EXCEPT ![w] = @ \cup {t.pay}] /\ held'[w] = held[w] \cup {t.pay}
      BY <1>1, <2>5 DEF Advance, Take
    <3>2. /\ tx'[w].op = t.op /\ tx'[w].pay = t.pay /\ tx'[w].user = t.user
          /\ tx'[w].seenPlan = t.seenPlan /\ tx'[w].pc = pc
      BY <1>1, <3>1 DEF Transactions
    <3>3. Carries(w)'
      BY <1>1, <2>1, <2>2, <2>3, <2>5, <3>1, <3>2 DEF Carries, AfterUserLock, NoStars
    <3> QED
      BY <2>1, <3>1, <3>2, <3>3, OnwardCInv
  <2>6. ASSUME t.op = "refund", Take(w, t.pay),
               tx' = [tx EXCEPT ![w].pc = "revoke", ![w].seen = Seen(w),
                 ![w].todo = {s \in Sub : sub[s].payment = t.pay /\ sub[s].status # "refunded"}]
        PROVE  CInv'
    <3>1. /\ \A v \in Worker \ {w} : tx'[v] = tx[v]
          /\ held' = [held EXCEPT ![w] = @ \cup {t.pay}] /\ held'[w] = held[w] \cup {t.pay}
      BY <1>1, <2>6 DEF Take
    <3>2. /\ tx'[w].op = t.op /\ tx'[w].pay = t.pay /\ tx'[w].user = t.user
          /\ tx'[w].seenPlan = t.seenPlan /\ tx'[w].pc = "revoke"
          /\ \A s \in tx'[w].todo : sub[s].payment = t.pay
      BY <1>1, <2>6 DEF Transactions
    <3>3. Carries(w)'
      BY <1>1, <2>1, <2>2, <2>3, <2>6, <3>1, <3>2 DEF Carries, AfterUserLock, NoStars
    <3> QED
      BY <2>1, <3>1, <3>2, <3>3, OnwardCInv
  <2>7. AfterPaid(t.pay) \in {"code", "lockUser"}
    BY DEF AfterPaid
  <2> QED
    BY <1>2, <2>4, <2>5, <2>6, <2>7 DEF locked_payment
<1>3. CASE verify_paid(w)
  <2>1. /\ UNCHANGED <<user, sub, job, held>> /\ t.pc = "verify" /\ t.op = "settle"
        /\ tx' = [tx EXCEPT ![w].pc = AfterPaid(t.pay)]
        /\ AfterPaid(t.pay) \in {"code", "lockUser"}
    BY <1>3 DEF verify_paid, At, db, AfterPaid
  <2>2. /\ tx'[w] = [t EXCEPT !.pc = AfterPaid(t.pay)]
        /\ \A v \in Worker \ {w} : tx'[v] = tx[v]
    BY <1>1, <2>1
  <2>3. /\ tx'[w].op = t.op /\ tx'[w].pay = t.pay /\ tx'[w].user = t.user
        /\ tx'[w].seenPlan = t.seenPlan /\ tx'[w].pc \in {"code", "lockUser"}
    BY <1>1, <2>1, <2>2 DEF Transactions
  <2>4. Carries(w)'
    BY <1>1, <2>1, <2>3 DEF Carries, AfterUserLock, NoStars
  <2> QED
    BY <2>1, <2>2, <2>4, OwnStepCInv
<1>4. CASE verify_error(w)
  BY <1>4, EndsCInv DEF verify_error, db
<1>5. CASE charge_code(w)
  <2>1. UNCHANGED <<user, sub, job>> /\ t.pc = "code"
    BY <1>5 DEF charge_code, db
  <2>2. t.op \in {"settle", "approve"}
    BY <2>1 DEF IInv, Shape
  <2>3. CASE End(w)
    BY <2>1, <2>3, EndsCInv
  <2>4. CASE tx' = [tx EXCEPT ![w].pc = "lockUser"] /\ Take(w, Code)
    <3>1. /\ tx'[w].op = t.op /\ tx'[w].pay = t.pay /\ tx'[w].user = t.user
          /\ tx'[w].seenPlan = t.seenPlan /\ tx'[w].pc = "lockUser"
          /\ \A v \in Worker \ {w} : tx'[v] = tx[v]
      BY <1>1, <2>4 DEF Transactions
    <3>2. held' = [held EXCEPT ![w] = @ \cup {Code}] /\ held'[w] = held[w] \cup {Code}
      BY <1>1, <2>4 DEF Take
    <3>3. Carries(w)'
      BY <1>1, <2>1, <2>2, <3>1, <3>2, RowsAreDistinct DEF Carries, AfterUserLock, NoStars
    <3> QED
      BY <2>1, <3>1, <3>2, <3>3, OnwardCInv
  <2> QED
    BY <1>5, <2>3, <2>4 DEF charge_code
<1>6. CASE lock_user(w)
  <2>1. UNCHANGED <<user, sub, job>> /\ t.pc = "lockUser"
    BY <1>6 DEF lock_user, db
  <2>2. t.user \in User /\ t.user \notin Sub /\ t.op # "refund"
    <3>1. t.user \in User /\ t.op # "refund"
      BY <2>1 DEF IInv, Shape
    <3> QED
      BY <3>1, RowsAreDistinct
  <2>3. CASE End(w)
    BY <2>1, <2>3, EndsCInv
  <2>4. CASE /\ ~(t.op = "trial" /\ (user[t.user].trialUsed \/ LiveSubs(t.user) # {}))
             /\ tx' = [tx EXCEPT ![w].pc = "lockLive", ![w].at = now,
                         ![w].seenPlan = IF @ = None THEN user[t.user].plan ELSE @]
             /\ Take(w, t.user)
    <3>1. /\ tx'[w].op = t.op /\ tx'[w].pay = t.pay /\ tx'[w].user = t.user
          /\ tx'[w].seenPlan = IF t.seenPlan = None THEN user[t.user].plan ELSE t.seenPlan
          /\ tx'[w].pc = "lockLive"
          /\ \A v \in Worker \ {w} : tx'[v] = tx[v]
      BY <1>1, <2>4 DEF Transactions
    <3>2. held' = [held EXCEPT ![w] = @ \cup {t.user}] /\ held'[w] = held[w] \cup {t.user}
      BY <1>1, <2>4 DEF Take
    <3>3. t.op = "trial" => LiveSubs(t.user) = {}
      BY <2>4
    <3>4. LiveSubs(t.user)' = LiveSubs(t.user)
      BY <2>1, <3>1 DEF LiveSubs, IsLive
    <3>5. Carries(w)'
      <4>1. NoStars => t.seenPlan = None
        BY <1>1, <2>1 DEF Carries, AfterUserLock
      <4> QED
        BY <1>1, <2>1, <2>2, <3>1, <3>2, <3>3, <3>4, <4>1
           DEF Carries, AfterUserLock, NoStars
    <3> QED
      BY <2>1, <3>1, <3>2, <3>5, OnwardCInv
  <2> QED
    BY <1>6, <2>3, <2>4 DEF lock_user
<1>7. CASE lock_live(w)
  <2>1. UNCHANGED <<user, sub, job>> /\ t.pc = "lockLive" /\ t.live = None
    BY <1>7 DEF lock_live, db, IInv, Shape
  <2>2. t.op # "refund"
    BY <2>1 DEF IInv, Shape
  <2>3. CASE tx' = [tx EXCEPT ![w].pc = "grant"] /\ UNCHANGED held
    <3>1. /\ tx'[w].op = t.op /\ tx'[w].pay = t.pay /\ tx'[w].user = t.user
          /\ tx'[w].seenPlan = t.seenPlan /\ tx'[w].pc = "grant" /\ tx'[w].live = None
          /\ \A v \in Worker \ {w} : tx'[v] = tx[v]
      BY <1>1, <2>1, <2>3 DEF Transactions
    <3>2. LiveSubs(t.user)' = LiveSubs(t.user)
      BY <2>1, <3>1 DEF LiveSubs, IsLive
    <3>3. Carries(w)'
      BY <1>1, <2>1, <2>2, <2>3, <3>1, <3>2 DEF Carries, AfterUserLock, NoStars
    <3> QED
      BY <2>1, <2>3, <3>1, <3>3, OwnStepCInv
  <2>4. ASSUME NEW s \in LiveSubs(t.user), Take(w, s),
               tx' = [tx EXCEPT ![w].pc = "grant", ![w].live = s]
        PROVE  CInv'
    <3>1. /\ tx'[w].op = t.op /\ tx'[w].pay = t.pay /\ tx'[w].user = t.user
          /\ tx'[w].seenPlan = t.seenPlan /\ tx'[w].pc = "grant" /\ tx'[w].live = s
          /\ \A v \in Worker \ {w} : tx'[v] = tx[v]
      BY <1>1, <2>4 DEF Transactions
    <3>2. held' = [held EXCEPT ![w] = @ \cup {s}]
      BY <2>4 DEF Take
    <3>3. LiveSubs(t.user)' = LiveSubs(t.user) /\ sub[s].user = t.user
      BY <2>1, <3>1 DEF LiveSubs, IsLive
    <3>4. Carries(w)'
      BY <1>1, <2>1, <2>2, <3>1, <3>3 DEF Carries, AfterUserLock, NoStars
    <3> QED
      BY <2>1, <3>1, <3>2, <3>4, OnwardCInv
  <2> QED
    BY <1>7, <2>3, <2>4 DEF lock_live
<1>8. ASSUME NEW s \in Sub, revoke(w, s) PROVE CInv'
  <2>1. /\ UNCHANGED <<user, sub, job>> /\ t.pc = "revoke" /\ t.op = "refund" /\ s \in t.todo
        /\ tx' = [tx EXCEPT ![w].todo = @ \ {s}] /\ Take(w, s)
    BY <1>8 DEF revoke, At, db
  <2>2. /\ tx'[w].op = t.op /\ tx'[w].pay = t.pay /\ tx'[w].user = t.user
        /\ tx'[w].seenPlan = t.seenPlan /\ tx'[w].pc = t.pc /\ tx'[w].todo = t.todo \ {s}
        /\ \A v \in Worker \ {w} : tx'[v] = tx[v]
    BY <1>1, <2>1 DEF Transactions
  <2>3. held' = [held EXCEPT ![w] = @ \cup {s}] /\ held'[w] = held[w] \cup {s}
    BY <1>1, <2>1 DEF Take
  <2>4. Carries(w)'
    BY <1>1, <2>1, <2>2, <2>3 DEF Carries, AfterUserLock, NoStars
  <2> QED
    BY <2>1, <2>2, <2>3, <2>4, OnwardCInv
<1> QED
  BY <1>2, <1>3, <1>4, <1>5, <1>6, <1>7, <1>8

------------------------------------------------------------------------------
\* The three commits that write to the rows of users and subscriptions.

\* A row somebody holds is not the user another transaction has locked.
LEMMA NotMyUser ==
  ASSUME IInv, NEW a \in Actor, NEW v \in Worker, v # a, tx[v].pc \in AfterUserLock,
         NEW u \in User, u \in held[a] \/ FreeFor(a, u)
  PROVE  tx[v].user \in User /\ tx[v].user # u
<1>1. tx[v].user \in User /\ tx[v].user \in held[v]
  BY DEF IInv, Shape, UserHeld, AfterUserLock
<1> QED
  BY <1>1 DEF IInv, Exclusive, FreeFor, Actor, Row

\* What a transaction carries survives a commit of another that keeps the owners of
\* subscriptions and changes neither its user's row nor which of its user's are live.
LEMMA OtherCommit ==
  ASSUME IInv, CInv, NEW v \in Worker, tx'[v] = tx[v], held'[v] = held[v],
         \A s \in Sub : sub[s].status # "absent" =>
           sub'[s].user = sub[s].user /\ sub'[s].payment = sub[s].payment,
         tx[v].pc \in AfterUserLock =>
           /\ user'[tx[v].user] = user[tx[v].user]
           /\ \A s \in Sub : IsLive(s)' /\ sub'[s].user = tx[v].user =>
                             IsLive(s) /\ sub[s].user = tx[v].user
  PROVE  Carries(v)'
<1>1. Carries(v)
  BY DEF CInv
<1>2. tx[v].op = "trial" /\ tx[v].pc \in AfterUserLock => LiveSubs(tx[v].user)' = {}
  BY <1>1 DEF Carries, LiveSubs
<1>3. tx[v].pc = "grant" /\ tx[v].live # None => sub'[tx[v].live].user = tx[v].user
  <2> SUFFICES ASSUME tx[v].pc = "grant", tx[v].live # None
               PROVE  sub'[tx[v].live].user = tx[v].user
    OBVIOUS
  <2>1. tx[v].live \in Sub /\ sub[tx[v].live].status # "absent"
    BY DEF IInv, LiveKnown, IsLive, LiveStatuses, TypeOK, WorkersTyped, Transactions
  <2> QED
    BY <1>1, <2>1 DEF Carries
<1>4. \A s \in Sub : s \in tx[v].todo \/ s \in held[v] => sub[s].status # "absent"
  BY DEF IInv, Present, Actor
<1> QED
  BY <1>1, <1>2, <1>3, <1>4 DEF Carries, NoStars

\* activate: the user's row tells of the new subscription.
LEMMA ActivateCInv ==
  ASSUME IInv, CInv, NEW w \in Worker, activate(w)
  PROVE  CInv'
<1> DEFINE t == tx[w]
           row == [status |-> IF t.op = "trial" THEN "trialing" ELSE "active",
                   user |-> t.user, plan |-> t.plan, source |-> Source(t.op),
                   payment |-> t.pay, expires |-> NewExpiry(w), until |-> 0]
<1>1. /\ t.pc = "grant" /\ t.user \in User /\ t.user \in held[w] /\ w \in Actor
      /\ t.live # None => t.live \in Sub /\ sub[t.live].user = t.user /\ IsLive(t.live)
      /\ NoStars => t.seenPlan = user[t.user].plan
  BY DEF activate, IInv, Shape, UserHeld, AfterUserLock, LiveKnown, TypeOK, WorkersTyped,
         Transactions, CInv, Carries, Actor
<1>2. PICK s \in Sub :
        /\ sub[s].status = "absent"
        /\ sub' = [i \in Sub |-> IF i = s THEN row
                                ELSE IF i = t.live THEN [sub[i] EXCEPT !.status = "canceled"]
                                ELSE sub[i]]
  BY DEF activate
<1>3. /\ sub'[s].status \in {"trialing", "active"} /\ sub'[s].user = t.user
      /\ sub'[s].plan = t.plan /\ sub'[s].expires = NewExpiry(w)
      /\ \A i \in Sub \ {s} :
           /\ sub'[i].user = sub[i].user /\ sub'[i].plan = sub[i].plan
           /\ sub'[i].payment = sub[i].payment /\ sub'[i].expires = sub[i].expires
           /\ i # t.live => sub'[i] = sub[i]
           /\ i = t.live => sub'[i].status = "canceled"
  BY <1>2 DEF IInv, TypeOK, RowsTyped
<1>4. /\ user'[t.user].until = NewExpiry(w)
      /\ user'[t.user].plan = IF t.seenPlan = t.plan THEN user[t.user].plan ELSE t.plan
      /\ \A u \in User \ {t.user} : user'[u] = user[u]
  BY <1>1 DEF activate, IInv, TypeOK, RowsTyped
<1>5. /\ job' = job /\ held'[Daily] = held[Daily]
      /\ tx'[w] = Idle /\ held'[w] = {}
      /\ \A v \in Worker \ {w} : tx'[v] = tx[v] /\ held'[v] = held[v]
  BY <1>1, Constants DEF activate, End, IInv, TypeOK, WorkersTyped, Actor
<1> HIDE DEF row
<1>6. ASSUME NEW v \in Worker PROVE Carries(v)'
  <2>1. CASE v = w
    BY <1>5, <2>1 DEF Carries, Idle, AfterUserLock
  <2>2. CASE v # w
    <3>1. tx[v].pc \in AfterUserLock => tx[v].user \in User /\ tx[v].user # t.user
      BY <1>1, <2>2, NotMyUser
    <3>2. tx[v].pc \in AfterUserLock =>
            \A i \in Sub : IsLive(i)' /\ sub'[i].user = tx[v].user =>
                           IsLive(i) /\ sub[i].user = tx[v].user
      BY <1>3, <3>1 DEF IsLive, LiveStatuses
    <3> QED
      BY <1>2, <1>3, <1>4, <1>5, <2>2, <3>1, <3>2, OtherCommit
  <2> QED
    BY <2>1, <2>2
<1>7. DowngradesHeld'
  <2>1. \A i \in job.lapsed : i \in Sub /\ i # s
    BY <1>2 DEF IInv, JobKnown, IsLive, LiveStatuses, TypeOK, JobTyped
  <2>2. Downgraded' = Downgraded
    BY <1>3, <1>5, <2>1 DEF Downgraded
  <2> QED
    BY <1>5, <2>2 DEF CInv, DowngradesHeld
<1>8. ASSUME NEW u \in User, u # t.user, NEW i \in LiveSubs(u)
      PROVE  i \in LiveSubs(u)' /\ sub'[i] = sub[i]
  <2>1. i # s /\ i # t.live
    BY <1>1, <1>2, <1>8, Constants DEF LiveSubs, IsLive, LiveStatuses
  <2> QED
    BY <1>3, <1>8, <2>1 DEF LiveSubs, IsLive
<1>9. ASSUME NEW u \in User, u = t.user PROVE s \in LiveSubs(u)'
  BY <1>3, <1>9 DEF LiveSubs, IsLive, LiveStatuses
<1>10. EndBacked'
  <2> SUFFICES ASSUME NEW u \in User, user'[u].until # None
               PROVE  \E i \in LiveSubs(u)' : sub'[i].expires = user'[u].until
    BY DEF EndBacked, LiveSubs, IsLive
  <2>1. CASE u = t.user
    BY <1>3, <1>4, <1>9, <2>1
  <2>2. CASE u # t.user
    BY <1>4, <1>8, <2>2 DEF CInv, EndBacked
  <2> QED
    BY <2>1, <2>2
<1>11. ASSUME NoStars PROVE PlanBacked'
  <2> SUFFICES ASSUME NEW u \in User, user'[u].plan # Free
               PROVE  \E i \in LiveSubs(u)' : sub'[i].plan = user'[u].plan
    BY DEF PlanBacked, LiveSubs, IsLive
  <2>1. CASE u = t.user
    BY <1>1, <1>3, <1>4, <1>9, <1>11, <2>1
  <2>2. CASE u # t.user
    BY <1>4, <1>8, <1>11, <2>2 DEF CInv, PlanBacked
  <2> QED
    BY <2>1, <2>2
<1> QED
  BY <1>6, <1>7, <1>10, <1>11 DEF CInv, NoStars

\* refund: the user's row promises nothing any more, and only the user's are cancelled.
LEMMA FinishRefundCInv ==
  ASSUME IInv, GInv, CInv, NEW w \in Worker, finish_refund(w)
  PROVE  CInv'
<1> DEFINE t == tx[w]
<1>1. /\ t.pc = "revoke" /\ t.op = "refund" /\ t.pay \in Payment /\ t.user \in User
      /\ t.user = UserOf[t.pay] /\ FreeFor(w, t.user) /\ w \in Actor
      /\ \A s \in Sub : s \in held[w] => sub[s].payment = t.pay
  BY DEF finish_refund, At, IInv, Shape, CInv, Carries, Actor
<1>2. /\ user'[t.user].until = None /\ user'[t.user].plan = Free
      /\ \A u \in User \ {t.user} : user'[u] = user[u]
  BY <1>1 DEF finish_refund, IInv, TypeOK, RowsTyped
<1>3. \A s \in Sub :
        /\ sub'[s].user = sub[s].user /\ sub'[s].plan = sub[s].plan
        /\ sub'[s].payment = sub[s].payment /\ sub'[s].expires = sub[s].expires
        /\ s \in held[w] => sub'[s].status = "refunded"
        /\ s \notin held[w] => sub'[s] = sub[s]
  BY DEF finish_refund, IInv, TypeOK, RowsTyped
<1>4. /\ job' = job /\ held'[Daily] = held[Daily]
      /\ tx'[w] = Idle /\ held'[w] = {}
      /\ \A v \in Worker \ {w} : tx'[v] = tx[v] /\ held'[v] = held[v]
  BY <1>1, Constants DEF finish_refund, End, IInv, TypeOK, WorkersTyped, Actor
<1>5. \A s \in Sub : s \in held[w] => sub[s].user = t.user
  BY <1>1, Constants DEF GInv, Owned
<1>6. ASSUME NEW v \in Worker PROVE Carries(v)'
  <2>1. CASE v = w
    BY <1>4, <2>1 DEF Carries, Idle, AfterUserLock
  <2>2. CASE v # w
    <3>1. tx[v].pc \in AfterUserLock => tx[v].user \in User /\ tx[v].user # t.user
      BY <1>1, <2>2, NotMyUser
    <3>2. \A s \in Sub : IsLive(s)' => IsLive(s)
      BY <1>3 DEF IsLive, LiveStatuses
    <3> QED
      BY <1>2, <1>3, <1>4, <2>2, <3>1, <3>2, OtherCommit
  <2> QED
    BY <2>1, <2>2
<1>7. DowngradesHeld'
  <2>1. Downgraded' = Downgraded
    BY <1>3, <1>4 DEF Downgraded, IInv, TypeOK, JobTyped
  <2> QED
    BY <1>4, <2>1 DEF CInv, DowngradesHeld
<1>8. ASSUME NEW u \in User, u # t.user, NEW i \in LiveSubs(u)
      PROVE  i \in LiveSubs(u)' /\ sub'[i] = sub[i]
  BY <1>3, <1>5, <1>8 DEF LiveSubs, IsLive
<1>9. EndBacked'
  <2> SUFFICES ASSUME NEW u \in User, user'[u].until # None
               PROVE  \E i \in LiveSubs(u)' : sub'[i].expires = user'[u].until
    BY DEF EndBacked, LiveSubs, IsLive
  <2> QED
    BY <1>2, <1>8 DEF CInv, EndBacked
<1>10. ASSUME NoStars PROVE PlanBacked'
  <2> SUFFICES ASSUME NEW u \in User, user'[u].plan # Free
               PROVE  \E i \in LiveSubs(u)' : sub'[i].plan = user'[u].plan
    BY DEF PlanBacked, LiveSubs, IsLive
  <2> QED
    BY <1>2, <1>8, <1>10 DEF CInv, PlanBacked
<1> QED
  BY <1>6, <1>7, <1>9, <1>10 DEF CInv, NoStars

\* The daily job's commit: whoever loses a subscription is downgraded with it.
LEMMA JobCommitCInv ==
  ASSUME IInv, CInv, job_commit
  PROVE  CInv'
<1>1. /\ job.lapsed \subseteq Sub /\ job.graced \subseteq Sub
      /\ \A s \in job.lapsed : IsLive(s) /\ sub[s].user \in User
      /\ \A s \in job.graced : IsLive(s)
      /\ Downgraded \subseteq held[Daily] /\ Daily \in Actor
  BY DEF job_commit, IInv, TypeOK, JobTyped, JobKnown, IsLive, LiveStatuses, RowsComplete,
         CInv, DowngradesHeld, Actor
<1>2. \A s \in Sub :
        /\ sub'[s].user = sub[s].user /\ sub'[s].plan = sub[s].plan
        /\ sub'[s].payment = sub[s].payment /\ sub'[s].expires = sub[s].expires
        /\ s \in job.lapsed => sub'[s].status = "expired"
        /\ s \in job.graced \ job.lapsed => sub'[s].status = "grace"
        /\ s \notin job.graced \cup job.lapsed => sub'[s] = sub[s]
  BY DEF job_commit, IInv, TypeOK, RowsTyped
<1>3. \A u \in User :
        /\ u \in Downgraded => user'[u].plan = Free /\ user'[u].until = None
        /\ u \notin Downgraded => user'[u] = user[u]
  BY DEF job_commit, IInv, TypeOK, RowsTyped
<1>4. job' = JobIdle /\ \A v \in Worker : tx'[v] = tx[v] /\ held'[v] = held[v]
  BY Constants DEF job_commit, job_end, IInv, TypeOK, Actor
<1>5. ASSUME NEW v \in Worker PROVE Carries(v)'
  <2>1. v # Daily
    BY Constants
  <2>2. tx[v].pc \in AfterUserLock => tx[v].user \in User /\ tx[v].user \notin Downgraded
    <3>1. ASSUME tx[v].pc \in AfterUserLock, tx[v].user \in Downgraded PROVE FALSE
      <4>1. tx[v].user \in User /\ tx[v].user \in held[Daily]
        BY <1>1, <3>1 DEF IInv, Shape, AfterUserLock
      <4> QED
        BY <1>1, <2>1, <3>1, <4>1, NotMyUser
    <3>2. tx[v].pc \in AfterUserLock => tx[v].user \in User
      BY DEF IInv, Shape, AfterUserLock
    <3> QED
      BY <3>1, <3>2
  <2>3. \A s \in Sub : IsLive(s)' => IsLive(s)
    BY <1>1, <1>2 DEF IsLive, LiveStatuses
  <2> QED
    BY <1>2, <1>3, <1>4, <2>2, <2>3, OtherCommit
<1>6. DowngradesHeld'
  BY <1>4 DEF DowngradesHeld, JobIdle
<1>7. ASSUME NEW u \in User, u \notin Downgraded, NEW i \in LiveSubs(u)
      PROVE  /\ i \in LiveSubs(u)' /\ sub'[i].expires = sub[i].expires
             /\ sub'[i].plan = sub[i].plan
  <2>1. i \in Sub /\ i \notin job.lapsed /\ IsLive(i) /\ sub[i].user = u
    BY <1>7 DEF Downgraded, LiveSubs
  <2> QED
    BY <1>2, <2>1 DEF LiveSubs, IsLive, LiveStatuses
<1>8. EndBacked'
  <2> SUFFICES ASSUME NEW u \in User, user'[u].until # None
               PROVE  \E i \in LiveSubs(u)' : sub'[i].expires = user'[u].until
    BY DEF EndBacked, LiveSubs, IsLive
  <2>1. u \notin Downgraded /\ user'[u] = user[u]
    BY <1>3
  <2>2. PICK i \in LiveSubs(u) : sub[i].expires = user[u].until
    BY <2>1 DEF CInv, EndBacked
  <2> QED
    BY <1>7, <2>1, <2>2
<1>9. ASSUME NoStars PROVE PlanBacked'
  <2> SUFFICES ASSUME NEW u \in User, user'[u].plan # Free
               PROVE  \E i \in LiveSubs(u)' : sub'[i].plan = user'[u].plan
    BY DEF PlanBacked, LiveSubs, IsLive
  <2>1. u \notin Downgraded /\ user'[u] = user[u]
    BY <1>3
  <2>2. PICK i \in LiveSubs(u) : sub[i].plan = user[u].plan
    BY <1>9, <2>1 DEF CInv, PlanBacked
  <2> QED
    BY <1>7, <2>1, <2>2
<1> QED
  BY <1>5, <1>6, <1>8, <1>9 DEF CInv, NoStars

------------------------------------------------------------------------------
\* Every step.

\* Time, checkouts, the provider, the job, and nothing at all.
LEMMA OthersCInv ==
  ASSUME IInv, CInv, Outside \/ Job \/ job_rollback \/ UNCHANGED vars
  PROVE  CInv'
<1> DEFINE Quiet == UNCHANGED <<user, sub, tx>> /\ \A a \in Worker : held'[a] = held[a]
<1>1. ASSUME Quiet, DowngradesHeld' PROVE CInv'
  <2>1. \A v \in Worker : Carries(v)'
    BY <1>1 DEF CInv, Carries, LiveSubs, IsLive, NoStars
  <2> QED
    BY <1>1, <2>1, SameRows DEF CInv
<1>2. CASE UNCHANGED <<user, sub, tx, held, job>>
  <2>1. Quiet /\ DowngradesHeld'
    BY <1>2 DEF CInv, DowngradesHeld, Downgraded
  <2> QED
    BY <1>1, <2>1
<1>3. Outside \/ UNCHANGED vars => UNCHANGED <<user, sub, tx, held, job>>
  BY DEF Outside, Tick, start_checkout, on_pre_checkout, Capture, vars, db
<1>4. CASE job_start \/ job_next_lapse \/ job_next_users \/ job_next_reviews
  <2>1. Quiet
    BY <1>4 DEF job_start, job_next_lapse, job_next_users, job_next_reviews, db
  <2>2. DowngradesHeld'
    <3>1. job \in JobRecords
      BY JobNow
    <3>2. CASE job_start
      BY <3>2 DEF job_start, JobIdle, DowngradesHeld
    <3>3. CASE job_next_lapse
      BY <3>1, <3>3 DEF job_next_lapse, JobGoto, JobRecords, DowngradesHeld
    <3>4. CASE job_next_users
      <4>1. job'.pc = "users" /\ job'.todo = Downgraded /\ job'.lapsed = job.lapsed
        BY <3>1, <3>4 DEF job_next_users, JobGoto, JobRecords
      <4>2. Downgraded' = Downgraded
        BY <2>1, <4>1 DEF Downgraded
      <4> QED
        BY <4>1, <4>2 DEF DowngradesHeld
    <3>5. CASE job_next_reviews
      <4>1. /\ job.pc = "users" /\ job.todo = {} /\ job'.pc = "reviews"
            /\ job'.lapsed = job.lapsed /\ held' = held
        BY <3>1, <3>5 DEF job_next_reviews, JobGoto, JobRecords
      <4>2. Downgraded' = Downgraded
        BY <2>1, <4>1 DEF Downgraded
      <4> QED
        BY <4>1, <4>2 DEF CInv, DowngradesHeld
    <3> QED
      BY <1>4, <3>2, <3>3, <3>4, <3>5
  <2> QED
    BY <1>1, <2>1, <2>2
<1>5. CASE \/ \E s \in Sub : job_grace(s) \/ job_lapse(s)
           \/ \E u \in User : job_user(u)
           \/ \E p \in Payment : job_review(p)
  <2>1. job \in JobRecords /\ held \in [Actor -> SUBSET Row] /\ Daily \in Actor
    BY JobNow DEF IInv, TypeOK
  <2>2. Quiet
    <3>1. UNCHANGED <<user, sub, tx>> /\ (held' = held \/ \E r : Take(Daily, r))
      BY <1>5 DEF job_grace, job_lapse, job_user, job_review, db
    <3> QED
      BY <2>1, <3>1, Constants DEF Take, Actor
  <2>3. DowngradesHeld'
    <3>1. ASSUME NEW s \in Sub, job_grace(s) \/ job_lapse(s) PROVE DowngradesHeld'
      <4>1. job'.pc \in {"grace", "lapse"}
        BY <2>1, <3>1 DEF job_grace, job_lapse, JobRecords
      <4> QED
        BY <4>1 DEF DowngradesHeld
    <3>2. ASSUME NEW u \in User, job_user(u) PROVE DowngradesHeld'
      <4>1. /\ job.pc = "users" /\ job'.pc = "users" /\ job'.todo = job.todo \ {u}
            /\ job'.lapsed = job.lapsed /\ held'[Daily] = held[Daily] \cup {u}
        BY <2>1, <3>2 DEF job_user, Take, JobRecords
      <4>2. Downgraded' = Downgraded
        BY <2>2, <4>1 DEF Downgraded
      <4> QED
        BY <4>1, <4>2 DEF CInv, DowngradesHeld
    <3>3. ASSUME NEW p \in Payment, job_review(p) PROVE DowngradesHeld'
      <4>1. /\ job.pc = "reviews" /\ job'.pc = "reviews" /\ job'.lapsed = job.lapsed
            /\ held[Daily] \subseteq held'[Daily]
        BY <2>1, <3>3 DEF job_review, Take, JobRecords
      <4>2. Downgraded' = Downgraded
        BY <2>2, <4>1 DEF Downgraded
      <4> QED
        BY <4>1, <4>2 DEF CInv, DowngradesHeld
    <3> QED
      BY <1>5, <3>1, <3>2, <3>3
  <2> QED
    BY <1>1, <2>2, <2>3
<1>6. CASE job_rollback
  <2>1. Quiet
    BY <1>6, Constants DEF job_rollback, job_end, db, IInv, TypeOK, Actor
  <2>2. DowngradesHeld'
    BY <1>6 DEF job_rollback, job_end, JobIdle, DowngradesHeld
  <2> QED
    BY <1>1, <2>1, <2>2
<1> QED
  BY <1>2, <1>3, <1>4, <1>5, <1>6, JobCommitCInv DEF Job

\* Every step keeps CInv.
LEMMA NextCInv ==
  ASSUME IInv, GInv, CInv, [Next]_vars
  PROVE  CInv'
<1>1. ASSUME NEW w \in Worker, Step(w) PROVE CInv'
  <2>1. CASE reject_payment(w) \/ attach_receipt(w) \/ verify_failed(w)
    BY <2>1, EndsCInv DEF reject_payment, attach_receipt, verify_failed
  <2> QED
    BY <1>1, <2>1, LocksCInv, ActivateCInv, FinishRefundCInv DEF Step
<1>2. ASSUME NEW w \in Worker, rollback(w) PROVE CInv'
  BY <1>2, EndsCInv DEF rollback, db
<1> QED
  BY <1>1, <1>2, OthersCInv, RequestCInv DEF Next

\* With the two invariants above, CInv is inductive.
THEOREM CacheInductive == Spec => []CInv
<1>1. Init => CInv
  BY InitCInv
<1>2. IInv /\ GInv /\ CInv /\ [Next]_vars => CInv'
  BY NextCInv
<1> QED
  BY <1>1, <1>2, Inductive, GrantsInductive, PTL DEF Spec

\* users.premium_until is never later than what a live subscription of the user backs, however
\* settlements, gifts, refunds, the daily job and rollbacks of any of them interleave.
THEOREM PremiumEndBacked == Spec => []EndBacked
<1>1. CInv => EndBacked
  BY DEF CInv
<1> QED
  BY <1>1, CacheInductive, PTL

\* users.plan_code and premium_until never promise more than a live subscription does, where
\* nobody pays with stars: every other handler reads the user for the first time under the
\* lock of its row (activate, expire_due, refund).
THEOREM CacheBacked ==
  ASSUME NoStars
  PROVE  Spec => []CacheNeverOverstates
<1>1. CInv => CacheNeverOverstates
  BY DEF CInv, CacheNeverOverstates, EndBacked, PlanBacked
<1> QED
  BY <1>1, CacheInductive, PTL

------------------------------------------------------------------------------
\* What a renewal is worth.

\* Only activate makes a subscription live.
LEMMA OnlyActivate ==
  ASSUME IInv, [Next]_vars, NEW s \in Sub, ~IsLive(s), IsLive(s)'
  PROVE  \E w \in Worker : activate(w)
<1>1. ~UNCHANGED sub
  BY DEF IsLive
<1>2. ASSUME NEW w \in Worker, Request(w) PROVE FALSE
  BY <1>1, <1>2 DEF Request, settle_callback, gateway_callback, on_successful_payment,
     Callback, on_review_decision, refund, on_receipt_photo,
     start_trial, gift, Begin, db
<1>3. ASSUME NEW w \in Worker, rollback(w) PROVE FALSE
  BY <1>1, <1>3 DEF rollback, db
<1>4. ASSUME NEW w \in Worker, finish_refund(w) PROVE FALSE
  <2>1. sub'[s] = IF s \in held[w] THEN [sub[s] EXCEPT !.status = "refunded"] ELSE sub[s]
    BY <1>4 DEF finish_refund
  <2>2. sub'[s].status \in {"refunded", sub[s].status}
    BY <2>1 DEF IInv, TypeOK, RowsTyped
  <2> QED
    BY <2>2 DEF IsLive, LiveStatuses
<1>5. ASSUME NEW w \in Worker, Step(w) PROVE activate(w)
  BY <1>1, <1>4, <1>5 DEF Step, locked_payment, reject_payment, attach_receipt, verify_paid,
     verify_failed, verify_error, charge_code, lock_user, lock_live, revoke, db
<1>6. ~job_commit
  <2> SUFFICES ASSUME job_commit PROVE FALSE
    OBVIOUS
  <2>1. s \in job.graced \cup job.lapsed => IsLive(s)
    BY DEF IInv, JobKnown, IsLive, LiveStatuses
  <2>2. s \notin job.graced \cup job.lapsed => sub'[s] = sub[s]
    BY DEF job_commit
  <2> QED
    BY <2>1, <2>2 DEF IsLive
<1>7. ~Job /\ ~job_rollback
  BY <1>1, <1>6 DEF Job, job_start, job_next_lapse, job_next_users, job_next_reviews, job_grace,
     job_lapse, job_user, job_review, job_rollback, db
<1>8. ~Outside /\ ~UNCHANGED vars
  BY <1>1 DEF Outside, Tick, start_checkout, on_pre_checkout, Capture, vars, db
<1> QED
  BY <1>2, <1>3, <1>5, <1>7, <1>8 DEF Next

\* A subscription that takes the place of another of its plan ends later.
LEMMA RenewalAdds ==
  ASSUME IInv, CInv, NEW w \in Worker, activate(w), NEW old \in Sub, NEW new \in Sub,
         IsLive(old), ~IsLive(old)', ~IsLive(new), IsLive(new)',
         sub[old].user = sub'[new].user, sub[old].plan = sub'[new].plan
  PROVE  sub'[new].expires > sub[old].expires
<1> DEFINE t == tx[w]
<1>1. /\ t.pc = "grant" /\ t.at \in Nat /\ t.plan \in Plan
      /\ t.op \in {"settle", "approve", "trial", "gift"}
      /\ sub[old].expires \in Nat
  BY DEF activate, IInv, Shape, TypeOK, RowsTyped, WorkersTyped, Transactions
<1>2. PICK s \in Sub :
        /\ sub[s].status = "absent"
        /\ sub' = [i \in Sub |->
             IF i = s
             THEN [status |-> IF t.op = "trial" THEN "trialing" ELSE "active",
                   user |-> t.user, plan |-> t.plan, source |-> Source(t.op),
                   payment |-> t.pay, expires |-> NewExpiry(w), until |-> 0]
             ELSE IF i = t.live THEN [sub[i] EXCEPT !.status = "canceled"]
             ELSE sub[i]]
  BY DEF activate
<1>3. new = s
  <2>1. new # s /\ new # t.live => sub'[new] = sub[new]
    BY <1>2
  <2>2. new # s /\ new = t.live => sub'[new].status = "canceled"
    BY <1>2 DEF IInv, TypeOK, RowsTyped
  <2> QED
    BY <2>1, <2>2 DEF IsLive, LiveStatuses
<1>4. /\ sub'[new].expires = NewExpiry(w) /\ sub'[new].user = t.user
      /\ sub'[new].plan = t.plan
  BY <1>2, <1>3
<1>5. old = t.live /\ t.live # None
  BY <1>1, <1>4, Constants DEF IInv, LiveKnown
<1>6. t.op # "trial"
  BY <1>1, <1>4 DEF CInv, Carries, AfterUserLock, LiveSubs
<1>7. Days(w) \in Nat \ {0}
  BY <1>1, <1>6, PlansAreTyped, DaysAreNumbers DEF Days
<1>8. NewExpiry(w) = Later(sub[old].expires, t.at) + Days(w)
  BY <1>4, <1>5 DEF NewExpiry
<1>9. Later(sub[old].expires, t.at) \in Nat
      /\ Later(sub[old].expires, t.at) >= sub[old].expires
  BY <1>1 DEF Later
<1> QED
  BY <1>1, <1>4, <1>7, <1>8, <1>9

\* Paid time is not lost: where a live subscription takes the place of another of the same
\* plan, it ends later, whatever job, refund or gift ran between the statements of activate.
\* The days it adds are above zero: a plan's by its CHECK, a gift's by the route, and a trial
\* is refused under the lock of the user's row while a subscription is live.
THEOREM RenewalsAddTime == Spec => RenewalKeepsTime
<1>1. IInv /\ CInv /\ [Next]_vars =>
        [\A old, new \in Sub :
           (/\ IsLive(old) /\ ~IsLive(old)'
            /\ ~IsLive(new) /\ IsLive(new)'
            /\ sub[old].user = sub'[new].user /\ sub[old].plan = sub'[new].plan)
           => sub'[new].expires > sub[old].expires]_vars
  BY OnlyActivate, RenewalAdds
<1> QED
  BY <1>1, Inductive, CacheInductive, PTL DEF Spec, RenewalKeepsTime
------------------------------------------------------------------------------
(***************************************************************************)
(* What settled payments and waiting reviews keep, and that the user's row *)
(* promises no less than is live.                                          *)
(***************************************************************************)

NoRefunds == "refund" \notin Ops

\* A rejection reads the status under its lock, and nobody refunds where nobody may.
Asks(w) ==
  /\ tx[w].op = "reject" => tx[w].seen = None
  /\ NoRefunds => tx[w].op # "refund"

\* The reviews the job is about to close have no receipt: their rows are locked.
NoReceipt == \A p \in job.stale : ~payment[p].receipt

SInv == NoReceipt /\ \A w \in Worker : Asks(w)

\* Between its request and its end a transaction keeps its operation and its payment.
LEMMA StepAsks ==
  ASSUME IInv, NEW w \in Worker, Step(w) \/ rollback(w), Asks(w)
  PROVE  Asks(w)' /\ \A v \in Worker \ {w} : tx'[v] = tx[v]
<1> DEFINE t == tx[w]
           Goes == /\ tx'[w].op = t.op /\ tx'[w].pay = t.pay
                   /\ tx'[w].seen = t.seen \/ t.op # "reject"
                   /\ \A v \in Worker \ {w} : tx'[v] = tx[v]
<1>1. tx \in [Worker -> Transactions] /\ t \in Transactions
  BY DEF IInv, TypeOK, WorkersTyped
<1>2. CASE End(w)
  <2>1. tx'[w] = Idle /\ \A v \in Worker \ {w} : tx'[v] = tx[v]
    BY <1>1, <1>2 DEF End
  <2> QED
    BY <2>1 DEF Asks, Idle
<1>3. CASE Goes
  BY <1>3 DEF Asks, NoRefunds
<1>4. CASE locked_payment(w)
  <2>1. ASSUME NEW pc, Advance(w, pc), t.op # "reject" PROVE Goes
    BY <1>1, <2>1 DEF Advance, Transactions
  <2>2. ASSUME NEW todo,
               tx' = [tx EXCEPT ![w].pc = "revoke", ![w].seen = Seen(w), ![w].todo = todo],
               t.op # "reject"
        PROVE  Goes
    BY <1>1, <2>2 DEF Transactions
  <2> QED
    BY <1>2, <1>3, <1>4, <2>1, <2>2 DEF locked_payment
<1>5. verify_paid(w) => Goes
  BY <1>1 DEF verify_paid, Transactions
<1>6. lock_live(w) => Goes
  BY <1>1 DEF lock_live, Transactions
<1>7. ASSUME NEW s \in Sub, revoke(w, s) PROVE Goes
  BY <1>1, <1>7 DEF revoke, Transactions
<1>8. charge_code(w) => End(w) \/ Goes
  BY <1>1 DEF charge_code, Transactions
<1>9. lock_user(w) => End(w) \/ Goes
  BY <1>1 DEF lock_user, Transactions
<1>10. \/ reject_payment(w) \/ attach_receipt(w) \/ verify_failed(w) \/ verify_error(w)
       \/ activate(w) \/ finish_refund(w) \/ rollback(w)
       => End(w)
  BY DEF reject_payment, attach_receipt, verify_failed, verify_error, activate, finish_refund,
     rollback
<1> QED
  BY <1>2, <1>3, <1>4, <1>5, <1>6, <1>7, <1>8, <1>9, <1>10 DEF Step

\* A request begins as its handler says.
LEMMA RequestAsks ==
  ASSUME IInv, NEW w \in Worker, Request(w)
  PROVE  Asks(w)' /\ \A v \in Worker \ {w} : tx'[v] = tx[v]
<1>1. ASSUME NEW op, NEW p, NEW u, NEW pl, NEW seen, NEW sp, NEW pc,
             Begin(w, op, p, u, pl, seen, sp, pc), op \in Ops,
             op = "reject" => seen = None
      PROVE  Asks(w)' /\ \A v \in Worker \ {w} : tx'[v] = tx[v]
  <2>1. /\ tx'[w].op = op /\ tx'[w].pay = p /\ tx'[w].seen = seen
        /\ \A v \in Worker \ {w} : tx'[v] = tx[v]
    BY <1>1 DEF Begin, Idle, IInv, TypeOK, WorkersTyped
  <2> QED
    BY <1>1, <2>1 DEF Asks, NoRefunds
<1>2. ASSUME NEW p \in Payment, settle_callback(w, p)
      PROVE  Asks(w)' /\ \A v \in Worker \ {w} : tx'[v] = tx[v]
  BY <1>1, <1>2 DEF settle_callback, gateway_callback, on_successful_payment, Callback, Idling
<1>3. ASSUME NEW p \in Payment, NEW op \in {"approve", "reject"}, on_review_decision(w, op, p)
      PROVE  Asks(w)' /\ \A v \in Worker \ {w} : tx'[v] = tx[v]
  BY <1>1, <1>3 DEF on_review_decision, Idling
<1>4. ASSUME NEW p \in Payment, refund(w, p)
      PROVE  Asks(w)' /\ \A v \in Worker \ {w} : tx'[v] = tx[v]
  BY <1>1, <1>4 DEF refund, Idling
<1>5. ASSUME NEW p \in Payment, on_receipt_photo(w, p)
      PROVE  Asks(w)' /\ \A v \in Worker \ {w} : tx'[v] = tx[v]
  BY <1>1, <1>5 DEF on_receipt_photo, Idling
<1>6. ASSUME NEW u \in User, start_trial(w, u)
      PROVE  Asks(w)' /\ \A v \in Worker \ {w} : tx'[v] = tx[v]
  BY <1>1, <1>6 DEF start_trial, Idling
<1>7. ASSUME NEW u \in User, NEW pl \in Plan, gift(w, u, pl)
      PROVE  Asks(w)' /\ \A v \in Worker \ {w} : tx'[v] = tx[v]
  BY <1>1, <1>7 DEF gift, Idling
<1> QED
  BY <1>2, <1>3, <1>4, <1>5, <1>6, <1>7 DEF Request

\* What a step does to the row of a payment: it is opened, or written by a transaction that
\* nobody else holds the row from, or closed by the job, whose rows nobody else writes.
LEMMA PaymentWrites ==
  ASSUME IInv, SInv, [Next]_vars, NEW p \in Payment, payment'[p] # payment[p]
  PROVE  \/ payment[p].status = "absent" /\ payment'[p].status \in {"pending", "pending_review"}
         \/ /\ p \in job.stale /\ job_commit
            /\ payment[p].status = "pending_review" /\ payment'[p].status = "expired"
         \/ /\ p \notin job.stale
            /\ \E w \in Worker :
                 /\ tx[w].pay = p
                 /\ \/ verify_failed(w) /\ payment'[p].status \in {payment[p].status, "failed"}
                    \/ payment'[p].status = payment[p].status
                    \/ payment'[p].status \in {"paid", "refunded"}
                    \/ payment[p].status # "paid" /\ payment'[p].status = "rejected"
<1>1. /\ payment \in [Payment -> [status : Statuses, receipt : BOOLEAN, due : Nat,
                                  reviewed : BOOLEAN]]
      /\ \A q \in job.stale : q \in held[Daily] /\ payment[q].status = "pending_review"
  BY DEF IInv, TypeOK, RowsTyped, JobKnown
<1>2. payment' # payment
  OBVIOUS
<1>3. ASSUME NEW w \in Worker, FreeFor(w, p) PROVE p \notin job.stale
  BY <1>1, <1>3, Constants DEF FreeFor, Actor
<1>4. ASSUME NEW w \in Worker, tx[w].pc \in AfterPayLock, tx[w].pay = p PROVE FreeFor(w, p)
  <2>1. p \in held[w] /\ p \in Row /\ w \in Actor
    BY <1>4, Constants DEF IInv, PaymentHeld, Row, Actor
  <2> QED
    BY <2>1, HeldFree
<1>5. ASSUME NEW w \in Worker, reject_payment(w)
      PROVE  /\ tx[w].pay = p /\ FreeFor(w, p)
             /\ payment[p].status # "paid" /\ payment'[p].status = "rejected"
  <2>1. Seen(w) = payment[tx[w].pay].status
    BY <1>5 DEF reject_payment, At, SInv, Asks, Seen
  <2> QED
    BY <1>1, <1>5, <2>1 DEF reject_payment
<1>6. ASSUME NEW w \in Worker, attach_receipt(w)
      PROVE  tx[w].pay = p /\ FreeFor(w, p) /\ payment'[p].status = payment[p].status
  BY <1>1, <1>6 DEF attach_receipt
<1>7. ASSUME NEW w \in Worker, verify_failed(w)
      PROVE  /\ tx[w].pay = p /\ FreeFor(w, p)
             /\ payment'[p].status \in {payment[p].status, "failed"}
  <2>1. tx[w].pay = p /\ payment'[p].status = Written(w, "failed")
    BY <1>1, <1>7 DEF verify_failed
  <2> QED
    BY <1>4, <1>7, <2>1 DEF verify_failed, At, AfterPayLock, Written
<1>8. ASSUME NEW w \in Worker, activate(w)
      PROVE  tx[w].pay = p /\ FreeFor(w, p) /\ payment'[p].status = "paid"
  <2>1. tx[w].pc = "grant" /\ tx[w].pay = p /\ payment'[p].status = Written(w, "paid")
    BY <1>1, <1>2, <1>8 DEF activate
  <2>2. tx[w].op \in {"settle", "approve"}
    BY <2>1, Constants DEF IInv, Shape
  <2>3. Written(w, "paid") = "paid"
    BY <2>1, <2>2, WrittenStatus DEF AfterPayLock
  <2> QED
    BY <1>4, <2>1, <2>3 DEF AfterPayLock
<1>9. ASSUME NEW w \in Worker, finish_refund(w)
      PROVE  tx[w].pay = p /\ FreeFor(w, p) /\ payment'[p].status = "refunded"
  <2>1. tx[w].pay = p /\ payment'[p].status = "refunded"
    BY <1>1, <1>9 DEF finish_refund
  <2> QED
    BY <1>4, <1>9, <2>1 DEF finish_refund, At, AfterPayLock
<1>10. ASSUME NEW w \in Worker, Request(w) \/ Step(w) \/ rollback(w)
       PROVE  \/ reject_payment(w) \/ attach_receipt(w) \/ verify_failed(w) \/ activate(w)
              \/ finish_refund(w)
  BY <1>2, <1>10 DEF Request, settle_callback, gateway_callback, on_successful_payment,
     Callback, on_review_decision, refund, on_receipt_photo,
     start_trial, gift, Begin, db, Step, locked_payment, verify_paid, verify_error, charge_code,
     lock_user, lock_live, revoke, rollback
<1>11. CASE \E w \in Worker : Request(w) \/ Step(w) \/ rollback(w)
  BY <1>3, <1>5, <1>6, <1>7, <1>8, <1>9, <1>10, <1>11
<1>12. CASE Job \/ job_rollback
  <2>1. job_commit
    BY <1>2, <1>12 DEF Job, job_start, job_next_lapse, job_next_users, job_next_reviews, job_grace,
       job_lapse, job_user, job_review, job_rollback, db
  <2> QED
    BY <1>1, <2>1 DEF job_commit
<1>13. CASE Outside
  <2>1. PICK q \in Payment : start_checkout(q)
    BY <1>2, <1>13 DEF Outside, Tick, on_pre_checkout, Capture, db
  <2> QED
    BY <1>1, <2>1 DEF start_checkout
<1> QED
  BY <1>2, <1>11, <1>12, <1>13 DEF Next, vars
\* Initially nobody asks anything.
LEMMA InitSInv == Init => SInv
BY DEF Init, SInv, NoReceipt, Asks, Idle, JobIdle

\* Every step keeps SInv.
LEMMA NextSInv ==
  ASSUME IInv, SInv, [Next]_vars
  PROVE  SInv'
<1>1. \A w \in Worker : Asks(w)'
  <2>1. ASSUME NEW w \in Worker, Request(w) \/ Step(w) \/ rollback(w)
        PROVE  \A v \in Worker : Asks(v)'
    <3>1. Asks(w)' /\ \A v \in Worker \ {w} : tx'[v] = tx[v]
      BY <2>1, StepAsks, RequestAsks DEF SInv
    <3> QED
      BY <3>1 DEF SInv, Asks, NoRefunds
  <2>2. CASE Outside \/ Job \/ job_rollback \/ UNCHANGED vars
    <3>1. tx' = tx
      BY <2>2 DEF Outside, Tick, start_checkout, on_pre_checkout, Capture, Job, job_start,
         job_next_lapse, job_next_users, job_next_reviews, job_grace, job_lapse, job_user,
         job_review, job_commit, job_rollback, vars
    <3> QED
      BY <3>1 DEF SInv, Asks, NoRefunds
  <2> QED
    BY <2>1, <2>2 DEF Next
<1>2. NoReceipt'
  <2> SUFFICES ASSUME NEW p \in job'.stale PROVE ~payment'[p].receipt
    BY DEF NoReceipt
  <2>1. /\ job \in [pc : {"idle", "grace", "lapse", "users", "reviews"}, at : Nat,
                    todo : SUBSET (Sub \cup User \cup Payment), graced : SUBSET Sub,
                    lapsed : SUBSET Sub, stale : SUBSET Payment]
        /\ \A q \in job.stale : payment[q].status = "pending_review"
    BY DEF IInv, TypeOK, JobTyped, JobKnown
  <2>2. job'.stale \subseteq job.stale \/ \E q \in Payment : job_review(q)
    <3>1. Job \/ job_rollback \/ job' = job
      <4>1. ASSUME NEW w \in Worker, Request(w) \/ rollback(w) PROVE job' = job
        BY <4>1 DEF Request, settle_callback, gateway_callback, on_successful_payment,
     Callback, on_review_decision, refund, on_receipt_photo,
           start_trial, gift, Begin, rollback
      <4>2. ASSUME NEW w \in Worker, Step(w) PROVE job' = job
        BY <4>2 DEF Step, locked_payment, reject_payment, attach_receipt, verify_paid,
           verify_failed, verify_error, charge_code, lock_user, lock_live, activate, revoke,
           finish_refund
      <4>3. Outside \/ UNCHANGED vars => job' = job
        BY DEF Outside, Tick, start_checkout, on_pre_checkout, Capture, vars
      <4> QED
        BY <4>1, <4>2, <4>3 DEF Next
    <3>2. job_start \/ job_next_lapse \/ job_next_users \/ job_next_reviews =>
            job'.stale \subseteq job.stale
      BY <2>1 DEF job_start, job_next_lapse, job_next_users, job_next_reviews, JobGoto, JobIdle
    <3>3. ASSUME NEW s \in Sub, job_grace(s) \/ job_lapse(s) PROVE job'.stale \subseteq job.stale
      BY <2>1, <3>3 DEF job_grace, job_lapse
    <3>4. ASSUME NEW u \in User, job_user(u) PROVE job'.stale \subseteq job.stale
      BY <2>1, <3>4 DEF job_user
    <3>5. job_commit \/ job_rollback => job'.stale = {}
      <4>1. job_commit \/ job_rollback => job_end
        BY DEF job_commit, job_rollback
      <4> QED
        BY <4>1 DEF job_end, JobIdle
    <3> QED
      BY <3>1, <3>2, <3>3, <3>4, <3>5 DEF Job
  <2>3. CASE job'.stale \subseteq job.stale
    <3>1. p \in Payment /\ payment[p].status = "pending_review" /\ ~payment[p].receipt
      BY <2>1, <2>3 DEF SInv, NoReceipt
    <3>2. CASE payment'[p] = payment[p]
      BY <3>1, <3>2
    <3>3. CASE payment'[p] # payment[p]
      <4>1. job_commit
        BY <2>3, <3>1, <3>3, PaymentWrites
      <4> QED
        BY <4>1 DEF job_commit, job_end, JobIdle
    <3> QED
      BY <3>2, <3>3
  <2>4. ASSUME NEW q \in Payment, job_review(q) PROVE ~payment'[p].receipt
    <3>1. payment' = payment
      BY <2>4 DEF job_review, db
    <3>2. p \in job.stale \/ (p = q /\ Stale(q))
      <4>1. CASE Stale(q)
        <5>1. job' = [job EXCEPT !.todo = @ \ {q}, !.stale = @ \cup {q}]
          BY <2>4, <4>1 DEF job_review
        <5> QED
          BY <2>1, <4>1, <5>1
      <4>2. CASE ~Stale(q)
        <5>1. job' = [job EXCEPT !.todo = @ \ {q}]
          BY <2>4, <4>2 DEF job_review
        <5> QED
          BY <2>1, <5>1
      <4> QED
        BY <4>1, <4>2
    <3>3. \A r \in job.stale : ~payment[r].receipt
      BY DEF SInv, NoReceipt
    <3>4. Stale(q) => ~payment[q].receipt
      BY DEF Stale
    <3> QED
      BY <3>1, <3>2, <3>3, <3>4
  <2> QED
    BY <2>2, <2>3, <2>4
<1> QED
  BY <1>1, <1>2 DEF SInv

\* SInv is inductive, given the locks.
THEOREM AsksInductive == Spec => []SInv
<1>1. Init => SInv
  BY InitSInv
<1>2. IInv /\ SInv /\ [Next]_vars => SInv'
  BY NextSInv
<1> QED
  BY <1>1, <1>2, Inductive, PTL DEF Spec

\* The review deadline never closes a card payment whose receipt is in, whenever the receipt
\* came between the job's statements: the job looks again under the lock of the row, and a
\* receipt that comes later waits for that lock.
THEOREM DeadlineWaits == Spec => ReceiptStopsDeadline
<1>1. ASSUME IInv, SInv, [Next]_vars, NEW p \in Payment,
             payment[p].status # "expired", payment'[p].status = "expired"
      PROVE  ~payment[p].receipt
  BY <1>1, PaymentWrites DEF SInv, NoReceipt
<1>2. IInv /\ SInv /\ [Next]_vars =>
        [\A p \in Payment : /\ payment[p].status # "expired"
                            /\ payment'[p].status = "expired"
                            => ~payment[p].receipt]_vars
  BY <1>1
<1> QED
  BY <1>2, Inductive, AsksInductive, PTL DEF Spec, ReceiptStopsDeadline

\* A payment that stops being settled was failed by a callback.
LEMMA OnlyRefusalUnsettles ==
  ASSUME IInv, SInv, [Next]_vars, NEW p \in Payment, payment[p].status = "paid",
         payment'[p].status \notin {"paid", "refunded"}
  PROVE  payment'[p].status = "failed" /\ \E w \in Worker : tx[w].pay = p /\ verify_failed(w)
BY PaymentWrites

------------------------------------------------------------------------------
\* The user's row promises no less than is live.

\* Without refunds, users.premium_until is the end of the live subscription; without stars
\* too, users.plan_code is its plan.
Promised ==
  \A s \in Sub : IsLive(s) =>
    /\ user[sub[s].user].until = sub[s].expires
    /\ NoStars => user[sub[s].user].plan = sub[s].plan

\* Every step keeps it: who grants has read the user's plan under the lock of the row, and the
\* job sets back only users whose live subscription it ends.
LEMMA NextPromised ==
  ASSUME NoRefunds, IInv, CInv, SInv, Promised, [Next]_vars
  PROVE  Promised'
<1>1. /\ user \in [User -> [plan : Plan \cup {Free}, until : Nat \cup {None},
                            trialUsed : BOOLEAN]]
      /\ sub \in [Sub -> [status : SubStatuses, user : User \cup {None},
                          plan : Plan \cup {None}, source : Sources \cup {None},
                          payment : Payment \cup {None}, expires : Nat, until : Nat]]
      /\ \A s \in Sub : IsLive(s) => sub[s].user \in User
  BY DEF IInv, TypeOK, RowsTyped, RowsComplete, IsLive, LiveStatuses
<1>2. CASE UNCHANGED <<user, sub>>
  BY <1>2 DEF Promised, IsLive, NoStars
<1>3. ASSUME NEW w \in Worker, activate(w) PROVE Promised'
  <2> DEFINE t == tx[w]
  <2>1. t.pc = "grant" /\ t.user \in User
    BY <1>3 DEF activate, IInv, Shape
  <2>2. PICK new \in Sub :
          /\ sub[new].status = "absent"
          /\ sub' = [i \in Sub |->
               IF i = new
               THEN [status |-> IF t.op = "trial" THEN "trialing" ELSE "active",
                     user |-> t.user, plan |-> t.plan, source |-> Source(t.op),
                     payment |-> t.pay, expires |-> NewExpiry(w), until |-> 0]
               ELSE IF i = t.live THEN [sub[i] EXCEPT !.status = "canceled"]
               ELSE sub[i]]
    BY <1>3 DEF activate
  <2>3. /\ user'[t.user].until = NewExpiry(w)
        /\ NoStars => user'[t.user].plan = t.plan
        /\ \A u \in User \ {t.user} : user'[u] = user[u]
    <3>1. /\ user' = [user EXCEPT
                        ![t.user].plan = IF t.seenPlan = t.plan THEN @ ELSE t.plan,
                        ![t.user].until = NewExpiry(w),
                        ![t.user].trialUsed = @ \/ t.op = "trial"]
          /\ NoStars => t.seenPlan = user[t.user].plan
      BY <1>3, <2>1 DEF activate, CInv, Carries, AfterUserLock
    <3> QED
      BY <1>1, <2>1, <3>1
  <2> SUFFICES ASSUME NEW s \in Sub, IsLive(s)'
               PROVE  /\ user'[sub'[s].user].until = sub'[s].expires
                      /\ NoStars => user'[sub'[s].user].plan = sub'[s].plan
    BY DEF Promised, NoStars
  <2>4. CASE s = new
    BY <2>2, <2>3, <2>4
  <2>5. CASE s # new
    <3>1. s # t.live
      BY <1>1, <2>2, <2>5 DEF IsLive, LiveStatuses
    <3>2. sub'[s] = sub[s] /\ IsLive(s)
      BY <2>2, <2>5, <3>1 DEF IsLive
    <3>3. sub[s].user # t.user
      BY <2>1, <3>1, <3>2 DEF IInv, LiveKnown
    <3> QED
      BY <1>1, <2>3, <3>2, <3>3 DEF Promised
  <2> QED
    BY <2>4, <2>5
<1>4. CASE job_commit
  <2> SUFFICES ASSUME NEW s \in Sub, IsLive(s)'
               PROVE  /\ user'[sub'[s].user].until = sub'[s].expires
                      /\ NoStars => user'[sub'[s].user].plan = sub'[s].plan
    BY DEF Promised, NoStars
  <2>1. s \notin job.lapsed
    <3> SUFFICES ASSUME s \in job.lapsed PROVE FALSE
      OBVIOUS
    <3>1. sub'[s] = [sub[s] EXCEPT !.status = "expired"]
      BY <1>4 DEF job_commit
    <3> QED
      BY <1>1, <3>1 DEF IsLive, LiveStatuses
  <2>2. /\ sub'[s].user = sub[s].user /\ sub'[s].plan = sub[s].plan
        /\ sub'[s].expires = sub[s].expires /\ IsLive(s)
    <3>1. s \in job.graced => IsLive(s)
      BY DEF IInv, JobKnown, IsLive, LiveStatuses
    <3>2. sub'[s] = IF s \in job.graced
                    THEN [sub[s] EXCEPT !.status = "grace", !.until = job.at + GraceDays]
                    ELSE sub[s]
      BY <1>4, <2>1 DEF job_commit
    <3> QED
      BY <1>1, <3>1, <3>2 DEF IsLive
  <2>3. sub[s].user \notin Downgraded
    <3> SUFFICES ASSUME NEW x \in job.lapsed, sub[x].user = sub[s].user PROVE FALSE
      BY DEF Downgraded
    <3>1. x \in Sub /\ IsLive(x)
      BY DEF IInv, JobKnown, TypeOK, JobTyped
    <3> QED
      BY <2>1, <2>2, <3>1 DEF IInv, OneLivePerUser
  <2>4. user'[sub[s].user] = user[sub[s].user]
    BY <1>1, <1>4, <2>2, <2>3 DEF job_commit
  <2> QED
    BY <2>2, <2>4 DEF Promised
<1>5. ASSUME NEW w \in Worker, Request(w) \/ Step(w) \/ rollback(w)
      PROVE  UNCHANGED <<user, sub>> \/ activate(w)
  <2>1. ~finish_refund(w)
    BY DEF finish_refund, At, SInv, Asks
  <2> QED
    BY <1>5, <2>1 DEF Request, settle_callback, gateway_callback, on_successful_payment,
     Callback, on_review_decision, refund, on_receipt_photo,
       start_trial, gift, Begin, db, Step, locked_payment, reject_payment, attach_receipt,
       verify_paid, verify_failed, verify_error, charge_code, lock_user, lock_live, revoke,
       rollback
<1>6. Outside \/ Job \/ job_rollback \/ UNCHANGED vars => UNCHANGED <<user, sub>> \/ job_commit
  BY DEF Outside, Tick, start_checkout, on_pre_checkout, Capture, Job, job_start, job_next_lapse,
     job_next_users, job_next_reviews, job_grace, job_lapse, job_user, job_review, job_rollback,
     vars, db
<1> QED
  BY <1>2, <1>3, <1>4, <1>5, <1>6 DEF Next

\* users.premium_until never ends before the live subscription does, where nothing is refunded.
THEOREM PremiumEndPromised ==
  ASSUME NoRefunds
  PROVE  Spec => []Promised
<1>1. Init => Promised
  BY DEF Init, Promised, IsLive, LiveStatuses, NoSub
<1>2. IInv /\ CInv /\ SInv /\ Promised /\ [Next]_vars => Promised'
  BY NextPromised
<1> QED
  BY <1>1, <1>2, Inductive, CacheInductive, AsksInductive, PTL DEF Spec

\* users.plan_code and premium_until promise no less than the live subscription, where nothing
\* is refunded and nothing is bought with stars.  A refund of a payment whose subscription was
\* replaced empties the row all the same (RefundOfOld.cfg); a payment with stars may leave the
\* old plan in it (StarsAtExpiry.cfg).
THEOREM CachePromised ==
  ASSUME NoRefunds, NoStars
  PROVE  Spec => []CacheNeverUnderstates
<1>1. Promised => CacheNeverUnderstates
  BY DEF Promised, CacheNeverUnderstates
<1> QED
  BY <1>1, PremiumEndPromised, PTL
==============================================================================
