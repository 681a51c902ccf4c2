----------------------------- MODULE LedgerProofs -----------------------------
(***************************************************************************)
(* Proof that Billing implements Ledger under the mapping of MCLedger, as  *)
(* long as requests about one payment do not overlap or come late: every   *)
(* step of a transaction is a step of the ledger or leaves it alone.  Then *)
(* that a settled payment stays settled, and what there is but for it.     *)
(***************************************************************************)
EXTENDS GrantProofs, MCLedger

\* No two requests about one payment.
Alone == \A v, w \in Worker : tx[v].pay # None /\ tx[v].pay = tx[w].pay => v = w

\* A payment with a subscription is settled, or was.
BoughtPaid ==
  \A s \in Sub : sub[s].payment # None => payment[sub[s].payment].status \in {"paid", "refunded"}

\* What a request still finds of its payment, because nobody else touches it.
Owns(w) ==
  LET status == payment[tx[w].pay].status IN
  /\ tx[w].op \in {"settle", "approve"} => status \notin {"paid", "refunded"}
  /\ tx[w].op = "reject" => tx[w].seen = None /\ status # "refunded"
  /\ tx[w].op = "refund" /\ tx[w].seen # None => (tx[w].seen = "paid" <=> status = "paid")
  /\ tx[w].pc = "revoke" => status = "paid"

DInv == Alone /\ BoughtPaid /\ \A w \in Worker : Owns(w)

\* The ledger that the committed rows are.
Entry == [p \in Payment |-> payment[p].status]
Granted == {sub[s].payment : s \in Sub} \ {None}
Passes == [u \in User |-> PassOf(u)]

Settled == {"paid", "refunded"}

------------------------------------------------------------------------------
\* The invariant.

\* Initially nothing is settled and nothing is asked.
LEMMA InitDInv == Init => DInv
<1> SUFFICES ASSUME Init PROVE DInv
  OBVIOUS
<1>1. \A w \in Worker : tx[w].pay = None /\ tx[w].op = "none" /\ tx[w].pc = "idle"
  BY DEF Init, Idle
<1>2. \A s \in Sub : sub[s].payment = None
  BY DEF Init, NoSub
<1> QED
  BY <1>1, <1>2 DEF DInv, Alone, BoughtPaid, Owns

\* A step of one transaction that writes only its own payment's status, and subscriptions
\* only under a settled payment.
LEMMA OwnDInv ==
  ASSUME IInv, DInv, NEW w \in Worker, \A v \in Worker \ {w} : tx'[v] = tx[v],
         \A p \in Payment : p # tx[w].pay => payment'[p].status = payment[p].status,
         tx'[w].pay \in {None, tx[w].pay}, BoughtPaid', Owns(w)'
  PROVE  DInv'
<1>1. Alone'
  BY DEF DInv, Alone
<1>2. ASSUME NEW v \in Worker \ {w} PROVE Owns(v)'
  <2>1. tx'[v] = tx[v] /\ Owns(v)
    BY DEF DInv
  <2>2. tx[v].op \in {"settle", "approve", "reject", "refund"} =>
          tx[v].pay \in Payment /\ tx[v].pay # None /\ tx[v].pay # tx[w].pay
    BY Constants DEF IInv, Shape, DInv, Alone
  <2>3. tx[v].pc = "revoke" => tx[v].op = "refund"
    BY DEF IInv, Shape
  <2> QED
    BY <2>1, <2>2, <2>3 DEF Owns
<1> QED
  BY <1>1, <1>2 DEF DInv

\* A settled payment that stays settled keeps BoughtPaid, where no payment is added to a row.
LEMMA StillBought ==
  ASSUME IInv, DInv, \A s \in Sub : sub'[s].payment = sub[s].payment,
         \A p \in Payment : payment[p].status \in Settled => payment'[p].status \in Settled
  PROVE  BoughtPaid'
<1>1. \A s \in Sub : sub[s].payment \in Payment \cup {None}
  BY DEF IInv, TypeOK, RowsTyped
<1> QED
  BY <1>1 DEF DInv, BoughtPaid, Settled

\* A transaction that ends owns nothing.
LEMMA EndDInv ==
  ASSUME IInv, DInv, NEW w \in Worker, End(w), BoughtPaid',
         \A p \in Payment : p # tx[w].pay => payment'[p].status = payment[p].status
  PROVE  DInv'
<1>1. tx'[w] = Idle /\ \A v \in Worker \ {w} : tx'[v] = tx[v]
  BY DEF End, IInv, TypeOK, WorkersTyped
<1>2. Owns(w)'
  BY <1>1 DEF Owns, Idle
<1>3. tx'[w].pay = None
  BY <1>1 DEF Idle
<1> QED
  BY <1>1, <1>2, <1>3, OwnDInv

\* In order, a request finds its payment free and not refunded, an approval not paid.
LEMMA RequestDInv ==
  ASSUME ~Disorder, IInv, DInv, NEW w \in Worker, Request(w)
  PROVE  DInv'
<1>1. ASSUME NEW op, NEW p, NEW u, NEW pl, NEW seen, NEW sp, NEW pc,
             Begin(w, op, p, u, pl, seen, sp, pc), pc # "revoke",
             p = None \/ \A v \in Worker : tx[v].pay # p,
             op \in {"settle", "approve"} => payment[p].status \notin Settled,
             op = "reject" => seen = None /\ payment[p].status # "refunded",
             op = "refund" => seen \in {None, payment[p].status}
      PROVE  DInv'
  <2>1. /\ tx'[w].op = op /\ tx'[w].pay = p /\ tx'[w].seen = seen /\ tx'[w].pc = pc
        /\ \A v \in Worker \ {w} : tx'[v] = tx[v]
    BY <1>1 DEF Begin, Idle, IInv, TypeOK, WorkersTyped
  <2>2. payment' = payment /\ sub' = sub
    BY <1>1 DEF Begin, db
  <2>3. Alone'
    BY <1>1, <2>1 DEF DInv, Alone
  <2>4. Owns(w)'
    BY <1>1, <2>1, <2>2 DEF Owns, Settled
  <2>5. \A v \in Worker \ {w} : Owns(v)'
    BY <2>1, <2>2 DEF DInv, Owns
  <2> QED
    BY <2>2, <2>3, <2>4, <2>5 DEF DInv, BoughtPaid
<1>2. ASSUME NEW p \in Payment, settle_callback(w, p) PROVE DInv'
  BY <1>1, <1>2
     DEF settle_callback, gateway_callback, on_successful_payment, Callback, MayTouch, Settled
<1>3. ASSUME NEW p \in Payment, NEW op \in {"approve", "reject"}, on_review_decision(w, op, p)
      PROVE  DInv'
  BY <1>1, <1>3 DEF on_review_decision, MayTouch, Settled
<1>4. ASSUME NEW p \in Payment, refund(w, p) PROVE DInv'
  BY <1>1, <1>4 DEF refund, MayTouch
<1>5. ASSUME NEW p \in Payment, on_receipt_photo(w, p) PROVE DInv'
  BY <1>1, <1>5 DEF on_receipt_photo, MayTouch
<1>6. ASSUME NEW u \in User, start_trial(w, u) PROVE DInv'
  BY <1>1, <1>6 DEF start_trial
<1>7. ASSUME NEW u \in User, NEW pl \in Plan, gift(w, u, pl) PROVE DInv'
  BY <1>1, <1>7 DEF gift
<1> QED
  BY <1>2, <1>3, <1>4, <1>5, <1>6, <1>7 DEF Request

\* Statements that lock, verify or read.
LEMMA LocksDInv ==
  ASSUME IInv, DInv, NEW w \in Worker,
         \/ locked_payment(w) \/ verify_paid(w) \/ verify_error(w) \/ charge_code(w)
         \/ lock_user(w) \/ lock_live(w) \/ \E s \in Sub : revoke(w, s)
  PROVE  DInv'
<1> DEFINE t == tx[w]
<1>1. UNCHANGED <<payment, sub>>
  BY DEF locked_payment, verify_paid, verify_error, charge_code, lock_user, lock_live, revoke, db
<1>2. BoughtPaid' /\ tx \in [Worker -> Transactions] /\ Owns(w)
  BY <1>1 DEF DInv, BoughtPaid, IInv, TypeOK, WorkersTyped
<1>3. ASSUME \A v \in Worker \ {w} : tx'[v] = tx[v], tx'[w].pay = t.pay, tx'[w].op = t.op,
             tx'[w].seen = t.seen \/ t.op \in {"settle", "approve"},
             tx'[w].pc = "revoke" => t.pc = "revoke"
      PROVE  DInv'
  <2>1. Owns(w)'
    BY <1>1, <1>2, <1>3 DEF Owns
  <2> QED
    BY <1>1, <1>2, <1>3, <2>1, OwnDInv
<1>4. CASE locked_payment(w)
  <2>1. CASE End(w)
    BY <1>1, <1>2, <2>1, EndDInv
  <2>2. ASSUME t.op \in {"settle", "approve"}, NEW pc, pc # "revoke", Advance(w, pc) PROVE DInv'
    BY <1>2, <1>3, <2>2 DEF Advance, Transactions
  <2>3. CASE /\ t.op = "refund" /\ Seen(w) = "paid"
             /\ tx' = [tx EXCEPT ![w].pc = "revoke", ![w].seen = Seen(w),
                  ![w].todo = {s \in Sub : /\ sub[s].payment = t.pay
                                           /\ sub[s].status # "refunded"}]
    <3>1. /\ \A v \in Worker \ {w} : tx'[v] = tx[v]
          /\ tx'[w].pay = t.pay /\ tx'[w].op = "refund" /\ tx'[w].seen = "paid"
      BY <1>2, <2>3 DEF Transactions
    <3>2. payment[t.pay].status = "paid"
      BY <1>2, <2>3 DEF Owns, Seen
    <3>3. Owns(w)'
      BY <1>1, <3>1, <3>2 DEF Owns
    <3> QED
      BY <1>1, <1>2, <3>1, <3>3, OwnDInv
  <2>4. AfterPaid(t.pay) # "revoke"
    BY DEF AfterPaid
  <2> QED
    BY <1>4, <2>1, <2>2, <2>3, <2>4 DEF locked_payment
<1>5. CASE verify_error(w)
  BY <1>1, <1>2, <1>5, EndDInv DEF verify_error
<1>6. CASE verify_paid(w)
  BY <1>2, <1>3, <1>6 DEF verify_paid, AfterPaid, Transactions
<1>7. CASE charge_code(w)
  <2>1. CASE End(w)
    BY <1>1, <1>2, <2>1, EndDInv
  <2>2. CASE tx' = [tx EXCEPT ![w].pc = "lockUser"]
    BY <1>2, <1>3, <2>2 DEF Transactions
  <2> QED
    BY <1>7, <2>1, <2>2 DEF charge_code
<1>8. CASE lock_user(w)
  <2>1. CASE End(w)
    BY <1>1, <1>2, <2>1, EndDInv
  <2>2. CASE tx' = [tx EXCEPT ![w].pc = "lockLive", ![w].at = now,
                      ![w].seenPlan = IF @ = None THEN user[t.user].plan ELSE @]
    BY <1>2, <1>3, <2>2 DEF Transactions
  <2> QED
    BY <1>8, <2>1, <2>2 DEF lock_user
<1>9. CASE lock_live(w)
  <2>1. \/ tx' = [tx EXCEPT ![w].pc = "grant"]
        \/ \E s \in Sub : tx' = [tx EXCEPT ![w].pc = "grant", ![w].live = s]
    BY <1>9 DEF lock_live, LiveSubs
  <2> QED
    BY <1>2, <1>3, <2>1 DEF Transactions
<1>10. ASSUME NEW s \in Sub, revoke(w, s) PROVE DInv'
  BY <1>2, <1>3, <1>10 DEF revoke, Transactions
<1> QED
  BY <1>4, <1>5, <1>6, <1>7, <1>8, <1>9, <1>10

\* Commits that close a payment, or write nothing the ledger sees.
LEMMA WritesDInv ==
  ASSUME IInv, DInv, NEW w \in Worker, reject_payment(w) \/ attach_receipt(w) \/ verify_failed(w)
  PROVE  DInv'
<1>1. /\ End(w) /\ sub' = sub
      /\ payment \in [Payment -> [status : Statuses, receipt : BOOLEAN, due : Nat,
                                  reviewed : BOOLEAN]]
      /\ Owns(w)
  BY DEF reject_payment, attach_receipt, verify_failed, IInv, TypeOK, RowsTyped, DInv
<1>2. tx[w].op \in {"reject", "receipt", "settle"} /\ tx[w].pay \in Payment
  BY DEF reject_payment, attach_receipt, verify_failed, At, IInv, Shape
<1>3. /\ \A p \in Payment : p # tx[w].pay => payment'[p].status = payment[p].status
      /\ payment[tx[w].pay].status \in Settled =>
           payment'[tx[w].pay].status = payment[tx[w].pay].status
  <2>1. CASE reject_payment(w)
    BY <1>1, <1>2, <2>1 DEF reject_payment, At, Owns, Seen, Settled
  <2>2. CASE attach_receipt(w)
    BY <1>1, <1>2, <2>2 DEF attach_receipt
  <2>3. CASE verify_failed(w)
    BY <1>1, <1>2, <2>3 DEF verify_failed, At, Owns, Settled
  <2> QED
    BY <2>1, <2>2, <2>3
<1>4. BoughtPaid'
  BY <1>1, <1>2, <1>3, StillBought DEF Settled
<1> QED
  BY <1>1, <1>3, <1>4, EndDInv

\* A grant settles the payment it gives a subscription to.
LEMMA ActivateDInv ==
  ASSUME IInv, DInv, NEW w \in Worker, activate(w)
  PROVE  DInv'
<1> DEFINE t == tx[w]
<1>1. /\ t.pc = "grant" /\ t.pay \in Payment \cup {None} /\ End(w)
      /\ t.pay # None => t.op \in {"settle", "approve"}
  BY DEF activate, IInv, Shape, TypeOK, WorkersTyped, Transactions
<1>2. /\ t.pay # None => payment'[t.pay].status = "paid"
      /\ \A p \in Payment : p # t.pay => payment'[p].status = payment[p].status
  <2>1. t.pay # None => Written(w, "paid") = "paid"
    BY <1>1, WrittenStatus DEF AfterPayLock
  <2> QED
    BY <1>1, <2>1 DEF activate, IInv, TypeOK, RowsTyped
<1>3. \A s \in Sub : sub'[s].payment \in {sub[s].payment, t.pay}
  BY DEF activate, IInv, TypeOK, RowsTyped
<1>4. BoughtPaid'
  <2> SUFFICES ASSUME NEW s \in Sub, sub'[s].payment # None
               PROVE  payment'[sub'[s].payment].status \in {"paid", "refunded"}
    BY DEF BoughtPaid
  <2>1. sub[s].payment \in Payment \cup {None}
    BY DEF IInv, TypeOK, RowsTyped
  <2> QED
    BY <1>1, <1>2, <1>3, <2>1 DEF DInv, BoughtPaid
<1> QED
  BY <1>1, <1>2, <1>4, EndDInv

\* A refund finds its payment paid.
LEMMA FinishRefundDInv ==
  ASSUME IInv, DInv, NEW w \in Worker, finish_refund(w)
  PROVE  DInv'
<1>1. /\ End(w) /\ tx[w].pay \in Payment /\ payment[tx[w].pay].status = "paid"
  BY DEF finish_refund, At, IInv, Shape, DInv, Owns
<1>2. /\ payment'[tx[w].pay].status = "refunded"
      /\ \A p \in Payment : p # tx[w].pay => payment'[p].status = payment[p].status
      /\ \A s \in Sub : sub'[s].payment = sub[s].payment
  BY <1>1 DEF finish_refund, IInv, TypeOK, RowsTyped
<1>3. BoughtPaid'
  BY <1>2, StillBought DEF Settled
<1> QED
  BY <1>1, <1>2, <1>3, EndDInv

\* Time, checkouts, the provider, the job, and nothing at all settle nothing.
LEMMA OthersDInv ==
  ASSUME IInv, DInv, Outside \/ Job \/ job_rollback \/ UNCHANGED vars
  PROVE  DInv'
<1>1. ASSUME tx' = tx, \A s \in Sub : sub'[s].payment = sub[s].payment,
             \A p \in Payment : \/ payment'[p].status = payment[p].status
                                \/ payment[p].status = "absent" /\ payment'[p].status \notin Settled
                                \/ /\ payment[p].status = "pending_review"
                                   /\ payment'[p].status = "expired"
      PROVE  DInv'
  <2>1. BoughtPaid'
    BY <1>1, StillBought DEF Settled
  <2>2. \A v \in Worker : Owns(v)'
    <3> SUFFICES ASSUME NEW v \in Worker PROVE Owns(v)'
      OBVIOUS
    <3>1. tx'[v] = tx[v] /\ Owns(v)
      BY <1>1 DEF DInv
    <3>2. tx[v].op \in {"settle", "approve", "reject", "refund"} =>
            tx[v].pay \in Payment /\ payment[tx[v].pay].status # "absent"
      BY DEF IInv, Shape
    <3>3. tx[v].pc = "revoke" => tx[v].op = "refund"
      BY DEF IInv, Shape
    <3> QED
      BY <1>1, <3>1, <3>2, <3>3 DEF Owns, Settled
  <2> QED
    BY <1>1, <2>1, <2>2 DEF DInv, Alone
<1>2. CASE UNCHANGED <<payment, sub, tx>>
  BY <1>1, <1>2
<1>3. ASSUME NEW p \in Payment, start_checkout(p) PROVE DInv'
  <2>1. payment'[p].status \in {"pending_review", "pending"} /\ payment[p].status = "absent"
    BY <1>3 DEF start_checkout, IInv, TypeOK, RowsTyped
  <2>2. \A q \in Payment \ {p} : payment'[q] = payment[q]
    BY <1>3 DEF start_checkout, IInv, TypeOK, RowsTyped
  <2> QED
    BY <1>1, <1>3, <2>1, <2>2 DEF start_checkout, Settled
<1>4. CASE job_commit
  <2>1. \A s \in Sub : sub'[s].payment = sub[s].payment
    BY <1>4 DEF job_commit, IInv, TypeOK, RowsTyped
  <2>2. \A p \in Payment : /\ p \in job.stale => /\ payment[p].status = "pending_review"
                                                 /\ payment'[p].status = "expired"
                           /\ p \notin job.stale => payment'[p] = payment[p]
    BY <1>4 DEF job_commit, IInv, TypeOK, RowsTyped, JobKnown
  <2> QED
    BY <1>1, <1>4, <2>1, <2>2 DEF job_commit
<1>5. Outside => UNCHANGED <<payment, sub, tx>> \/ \E p \in Payment : start_checkout(p)
  BY DEF Outside, Tick, on_pre_checkout, Capture, db
<1>6. Job => UNCHANGED <<payment, sub, tx>> \/ job_commit
  BY DEF Job, job_start, job_next_lapse, job_next_users, job_next_reviews, job_grace, job_lapse,
     job_user, job_review, db
<1>7. job_rollback \/ UNCHANGED vars => UNCHANGED <<payment, sub, tx>>
  BY DEF job_rollback, vars, db
<1> QED
  BY <1>2, <1>3, <1>4, <1>5, <1>6, <1>7

\* Every step keeps DInv.
LEMMA NextDInv ==
  ASSUME ~Disorder, IInv, DInv, [Next]_vars
  PROVE  DInv'
<1>1. ASSUME NEW w \in Worker, Step(w) PROVE DInv'
  BY <1>1, LocksDInv, WritesDInv, ActivateDInv, FinishRefundDInv DEF Step
<1>2. ASSUME NEW w \in Worker, rollback(w) PROVE DInv'
  <2>1. UNCHANGED <<payment, sub>> /\ End(w)
    BY <1>2 DEF rollback, db
  <2> QED
    BY <2>1, EndDInv DEF DInv, BoughtPaid
<1> QED
  BY <1>1, <1>2, OthersDInv, RequestDInv DEF Next

------------------------------------------------------------------------------
\* The mapped rows.

\* The choice from a set of one element.
LEMMA OneChoice ==
  ASSUME NEW S, NEW s \in S, \A r \in S : r = s
  PROVE  (CHOOSE r \in S : TRUE) = s
OBVIOUS

\* A user's pass is the user's live subscription.
LEMMA PassNow ==
  ASSUME IInv, NEW u \in User, NEW s \in LiveSubs(u)
  PROVE  PassOf(u) = [plan |-> sub[s].plan, expires |-> sub[s].expires]
<1>1. \A r \in LiveSubs(u) : r = s
  BY DEF IInv, OneLivePerUser, LiveSubs
<1>2. LiveSubs(u) # {} /\ (CHOOSE r \in LiveSubs(u) : TRUE) = s
  BY <1>1, OneChoice
<1> QED
  BY <1>2 DEF PassOf

\* The same after a step.
LEMMA PassNext ==
  ASSUME IInv', NEW u \in User, NEW s \in LiveSubs(u)'
  PROVE  PassOf(u)' = [plan |-> sub'[s].plan, expires |-> sub'[s].expires]
<1>1. \A r \in LiveSubs(u)' : r = s
  BY DEF IInv, OneLivePerUser, LiveSubs, IsLive
<1>2. LiveSubs(u)' # {} /\ (CHOOSE r \in LiveSubs(u)' : TRUE) = s
  BY <1>1, OneChoice
<1> QED
  BY <1>2 DEF PassOf, LiveSubs, IsLive

\* Without a live subscription there is no pass.
LEMMA NoPassNow ==
  ASSUME NEW u \in User, LiveSubs(u) = {}
  PROVE  PassOf(u) = None
BY DEF PassOf

\* A pass stays where its subscription does.
LEMMA PassKept ==
  ASSUME IInv, IInv', NEW u \in User, LiveSubs(u)' = LiveSubs(u),
         \A s \in LiveSubs(u) : sub'[s].plan = sub[s].plan /\ sub'[s].expires = sub[s].expires
  PROVE  PassOf(u)' = PassOf(u)
<1>1. CASE LiveSubs(u) = {}
  BY <1>1 DEF PassOf
<1>2. ASSUME NEW s \in LiveSubs(u) PROVE PassOf(u)' = PassOf(u)
  BY <1>2, PassNow, PassNext
<1> QED
  BY <1>1, <1>2

\* The ledger's parts stay where what they are read from stays.
LEMMA EntriesKept ==
  ASSUME \A p \in Payment : payment'[p].status = payment[p].status
  PROVE  Entry' = Entry
BY DEF Entry

\* No payment is added to a row: nothing is granted.
LEMMA GrantedKept ==
  ASSUME \A s \in Sub : sub'[s].payment = sub[s].payment
  PROVE  Granted' = Granted
BY DEF Granted

\* No row of subscriptions is written: all passes stay.
LEMMA PassesKept ==
  ASSUME sub' = sub
  PROVE  Passes' = Passes /\ Granted' = Granted
BY DEF Passes, PassOf, LiveSubs, IsLive, Granted

\* All three kept is a step that leaves the ledger alone.
LEMMA Stutters ==
  ASSUME Entry' = Entry, Granted' = Granted, Passes' = Passes
  PROVE  UNCHANGED L!vars
BY DEF L!vars, Entry, Granted, Passes

------------------------------------------------------------------------------
\* Steps.

\* The types of the rows.
LEMMA RowsNow ==
  ASSUME IInv
  PROVE  RowsTyped
BY DEF IInv, TypeOK

\* One payment's status, as a step of the ledger's entries.
LEMMA EntryStep ==
  ASSUME NEW p \in Payment, \A q \in Payment : q # p => payment'[q].status = payment[q].status
  PROVE  Entry' = [Entry EXCEPT ![p] = payment'[p].status]
BY DEF Entry

\* start_checkout opens the entry.
LEMMA OpenStep ==
  ASSUME IInv, NEW p \in Payment, start_checkout(p)
  PROVE  L!Next
<1>1. /\ payment[p].status = "absent" /\ payment'[p].status \in {"pending", "pending_review"}
      /\ \A q \in Payment : q # p => payment'[q] = payment[q]
      /\ sub' = sub
  BY DEF start_checkout, IInv, TypeOK, RowsTyped
<1>2. Entry' = [Entry EXCEPT ![p] = payment'[p].status] /\ Entry[p] = "absent"
  BY <1>1, EntryStep DEF Entry
<1>3. Granted' = Granted /\ Passes' = Passes
  BY <1>1, PassesKept
<1>4. L!Open(p)
  BY <1>1, <1>2, <1>3 DEF L!Open, Entry, Granted, Passes
<1> QED
  BY <1>4 DEF L!Next

\* A rejection or a refused callback closes it; a receipt is nothing to the ledger.
LEMMA CloseStep ==
  ASSUME IInv, DInv, NEW w \in Worker, reject_payment(w) \/ attach_receipt(w) \/ verify_failed(w)
  PROVE  L!Next \/ UNCHANGED L!vars
<1> DEFINE p == tx[w].pay
<1>1. /\ p \in Payment /\ payment[p].status \in Statuses \ {"absent"} /\ sub' = sub /\ Owns(w)
      /\ payment \in [Payment -> [status : Statuses, receipt : BOOLEAN, due : Nat,
                                  reviewed : BOOLEAN]]
      /\ tx[w].op = "settle" => tx[w].seen \notin {None, "paid"}
  BY DEF reject_payment, attach_receipt, verify_failed, At, IInv, Shape, TypeOK, RowsTyped,
         DInv, StatusKnown
<1>2. /\ \A q \in Payment : q # p => payment'[q].status = payment[q].status
      /\ \/ payment'[p].status = payment[p].status
         \/ /\ payment'[p].status \in {"failed", "rejected"}
            /\ payment[p].status \notin {"paid", "refunded"}
  <2>1. CASE reject_payment(w)
    BY <1>1, <2>1 DEF reject_payment, At, Owns, Seen
  <2>2. CASE attach_receipt(w)
    BY <1>1, <2>2 DEF attach_receipt
  <2>3. CASE verify_failed(w)
    BY <1>1, <2>3 DEF verify_failed, At, Owns, Written
  <2> QED
    BY <2>1, <2>2, <2>3
<1>3. PICK q \in Payment : q = p
  BY <1>1
<1>4. Granted' = Granted /\ Passes' = Passes
  BY <1>1, PassesKept
<1>5. CASE payment'[q].status = payment[q].status
  <2>1. Entry' = Entry
    BY <1>2, <1>3, <1>5, EntriesKept
  <2> QED
    BY <1>4, <2>1, Stutters
<1>6. CASE /\ payment'[q].status \in {"failed", "rejected"}
           /\ payment[q].status \notin {"paid", "refunded"}
  <2>1. Entry' = [Entry EXCEPT ![q] = payment'[q].status]
    BY <1>2, <1>3, EntryStep
  <2>2. Entry[q] \in {"pending", "pending_review", "failed", "rejected", "expired"}
    BY <1>1, <1>3, <1>6 DEF Entry, Statuses
  <2>3. L!Close(q)
    BY <1>4, <1>6, <2>1, <2>2 DEF L!Close, Entry, Granted, Passes
  <2> QED
    BY <2>3 DEF L!Next
<1> QED
  BY <1>2, <1>3, <1>5, <1>6

\* activate hands its user a pass that extends the one it replaces, and nobody else any.
LEMMA HandStep ==
  ASSUME IInv, CInv, IInv', NEW w \in Worker, activate(w), NEW u \in User, u = tx[w].user,
         NEW pl \in Plan, pl = tx[w].plan
  PROVE  L!Hand(u, pl)
<1> DEFINE t == tx[w]
<1>1. /\ t.live # None => t.live \in Sub /\ IsLive(t.live) /\ sub[t.live].user = u
      /\ \A i \in LiveSubs(u) : i = t.live
  BY DEF activate, IInv, LiveKnown, TypeOK, WorkersTyped, Transactions, CInv, Carries, LiveSubs
<1>2. PICK s \in Sub :
        /\ sub[s].status = "absent"
        /\ sub' = [i \in Sub |->
             IF i = s
             THEN [status |-> IF t.op = "trial" THEN "trialing" ELSE "active",
                   user |-> t.user, plan |-> t.plan, source |-> Source(t.op),
                   payment |-> t.pay, expires |-> NewExpiry(w), until |-> 0]
             ELSE IF i = t.live THEN [sub[i] EXCEPT !.status = "canceled"]
             ELSE sub[i]]
  BY DEF activate
<1>3. /\ sub'[s].status \in {"trialing", "active"} /\ sub'[s].user = u /\ sub'[s].plan = pl
      /\ \A i \in Sub \ {s} :
           /\ i # t.live => sub'[i] = sub[i]
           /\ i = t.live => sub'[i].status = "canceled" /\ sub'[i].user = sub[i].user
  BY RowsNow, <1>2 DEF RowsTyped
<1>4. s \in LiveSubs(u)' /\ sub'[s].expires \in Nat
  BY <1>3 DEF LiveSubs, IsLive, LiveStatuses, IInv, TypeOK, RowsTyped
<1>5. PassOf(u)' = [plan |-> pl, expires |-> sub'[s].expires]
  BY <1>3, <1>4, PassNext
<1>6. ASSUME NEW v \in User, v # u PROVE PassOf(v)' = PassOf(v)
  <2>1. s \notin LiveSubs(v) /\ s \notin LiveSubs(v)'
    BY <1>2, <1>3, <1>6 DEF LiveSubs, IsLive, LiveStatuses
  <2>2. t.live \notin LiveSubs(v)
    BY <1>1, <1>6, Constants DEF LiveSubs
  <2>3. \A i \in LiveSubs(v) : sub'[i] = sub[i]
    BY <1>3, <2>1, <2>2 DEF LiveSubs
  <2>4. \A i \in Sub \ {s} : i = t.live => ~IsLive(i)'
    BY <1>3 DEF IsLive, LiveStatuses
  <2>5. \A i \in LiveSubs(v)' : i \in LiveSubs(v)
    BY <1>3, <2>1, <2>4 DEF LiveSubs, IsLive
  <2>6. \A i \in LiveSubs(v) : i \in LiveSubs(v)'
    BY <2>3 DEF LiveSubs, IsLive
  <2>7. LiveSubs(v)' = LiveSubs(v)
    BY <2>5, <2>6
  <2> QED
    BY <2>3, <2>7, PassKept
<1>7. /\ Passes'[u] = [plan |-> pl, expires |-> sub'[s].expires]
      /\ Passes' = [Passes EXCEPT ![u] = Passes'[u]]
  BY <1>5, <1>6 DEF Passes
<1>8. L!Extends(Passes[u], Passes'[u])
  <2> SUFFICES ASSUME Passes[u] # None, Passes[u].plan = pl
               PROVE  sub'[s].expires > Passes[u].expires
    BY <1>7 DEF L!Extends
  <2>1. Passes[u] = PassOf(u)
    BY DEF Passes
  <2>2. PICK i \in LiveSubs(u) : TRUE
    BY <2>1, NoPassNow
  <2>3. Passes[u] = [plan |-> sub[i].plan, expires |-> sub[i].expires]
    BY <2>1, PassNow
  <2>4. i \in Sub /\ IsLive(i) /\ sub[i].user = u /\ i = t.live /\ i # s
    BY <1>1, <1>2 DEF LiveSubs, IsLive, LiveStatuses
  <2>5. ~IsLive(i)' /\ ~IsLive(s) /\ IsLive(s)'
    BY <1>2, <1>3, <2>4 DEF IsLive, LiveStatuses
  <2> QED
    BY <1>3, <2>3, <2>4, <2>5, RenewalAdds
<1>9. Passes'[u] \in L!Pass /\ Passes'[u].plan = pl
  BY <1>4, <1>7 DEF L!Pass
<1> QED
  BY <1>7, <1>8, <1>9 DEF L!Hand, Passes

\* Settling a payment and handing out its pass are one step, and a payment has one pass.
LEMMA SettleStep ==
  ASSUME IInv, GInv, CInv, DInv, IInv', NEW w \in Worker, activate(w)
  PROVE  L!Next
<1> DEFINE t == tx[w]
<1>1. /\ t.pc = "grant" /\ t.op \in {"settle", "approve", "trial", "gift"} /\ Owns(w)
      /\ t.user \in User /\ t.plan \in Plan
      /\ t.op \in {"settle", "approve"} => /\ t.pay \in Payment
                                           /\ payment[t.pay].status # "absent"
                                           /\ t.user = UserOf[t.pay] /\ t.plan = PlanOf[t.pay]
      /\ t.op \in {"trial", "gift"} => t.pay = None
  BY DEF activate, IInv, Shape, DInv, GInv, Knows
<1>2. PICK u \in User, pl \in Plan : u = t.user /\ pl = t.plan
  BY <1>1
<1>3. L!Hand(u, pl)
  BY <1>2, HandStep
<1>4. PICK s \in Sub :
        /\ sub[s].status = "absent" /\ sub'[s].payment = t.pay
        /\ \A i \in Sub \ {s} : sub'[i].payment = sub[i].payment
  BY RowsNow DEF activate, RowsTyped
<1>5. sub[s].payment = None
  BY <1>4 DEF IInv, RowsComplete
<1>6. CASE t.pay = None
  <2>1. Granted' = Granted
    BY <1>4, <1>5, <1>6, GrantedKept
  <2>2. Entry' = Entry
    <3>1. payment' = payment
      BY <1>6 DEF activate
    <3> QED
      BY <3>1, EntriesKept
  <2>3. L!Bestow(u, pl)
    BY <1>3, <2>1, <2>2 DEF L!Bestow, Entry, Granted
  <2> QED
    BY <2>3 DEF L!Next
<1>7. CASE t.pay # None
  <2>1. PICK p \in Payment : p = t.pay
    BY <1>1, <1>7
  <2>2. /\ payment'[p].status = "paid"
        /\ \A q \in Payment : q # p => payment'[q].status = payment[q].status
    <3>1. Written(w, "paid") = "paid"
      BY <1>1, <1>7, WrittenStatus DEF AfterPayLock
    <3> QED
      BY RowsNow, <1>7, <2>1, <3>1 DEF activate, RowsTyped
  <2>3. Entry' = [Entry EXCEPT ![p] = "paid"] /\ Entry[p] \notin {"absent", "paid", "refunded"}
    <3>1. t.op \in {"settle", "approve"}
      BY <1>1, <1>7
    <3> QED
      BY <1>1, <2>1, <2>2, <3>1, EntryStep DEF Entry, Owns
  <2>4. p \notin Granted
    BY <2>1, <2>3 DEF Granted, Entry, DInv, BoughtPaid
  <2>5. Granted' = Granted \cup {p}
    BY <1>4, <1>5, <1>7, <2>1 DEF Granted
  <2>6. u = UserOf[p] /\ pl = PlanOf[p]
    BY <1>1, <1>2, <1>7, <2>1
  <2>7. L!Settle(p)
    BY <1>3, <2>3, <2>4, <2>5, <2>6 DEF L!Settle, Entry, Granted
  <2> QED
    BY <2>7 DEF L!Next
<1> QED
  BY <1>6, <1>7

\* A refund takes the entry back, and the pass unless another payment's took its place.
LEMMA RefundStep ==
  ASSUME IInv, GInv, CInv, DInv, IInv', NEW w \in Worker, finish_refund(w)
  PROVE  L!Next
<1>1. PICK p \in Payment : p = tx[w].pay
  BY DEF finish_refund, At, IInv, Shape
<1>2. /\ payment[p].status = "paid"
      /\ \A s \in Sub : s \in held[w] => sub[s].payment = p /\ sub[s].user = UserOf[p]
  <2>1. Owns(w) /\ Carries(w) /\ tx[w].pc = "revoke"
    BY DEF finish_refund, At, DInv, CInv
  <2> QED
    BY <1>1, <2>1, Constants DEF Owns, Carries, GInv, Owned
<1>3. /\ payment'[p].status = "refunded"
      /\ \A q \in Payment : q # p => payment'[q].status = payment[q].status
  BY RowsNow, <1>1 DEF finish_refund, RowsTyped
<1>4. \A s \in Sub :
        /\ sub'[s].user = sub[s].user /\ sub'[s].plan = sub[s].plan
        /\ sub'[s].payment = sub[s].payment /\ sub'[s].expires = sub[s].expires
        /\ s \in held[w] => sub'[s].status = "refunded"
        /\ s \notin held[w] => sub'[s] = sub[s]
  BY RowsNow DEF finish_refund, RowsTyped
<1>5. Entry' = [Entry EXCEPT ![p] = "refunded"] /\ Entry[p] = "paid"
  BY <1>2, <1>3, EntryStep DEF Entry
<1>6. Granted' = Granted
  BY <1>4, GrantedKept
<1>7. ASSUME NEW u \in User, \A s \in LiveSubs(u) : s \notin held[w]
      PROVE  PassOf(u)' = PassOf(u)
  <2>1. \A s \in Sub : s \in held[w] => ~IsLive(s)'
    BY <1>4 DEF IsLive, LiveStatuses
  <2>2. LiveSubs(u)' = LiveSubs(u)
    BY <1>4, <1>7, <2>1 DEF LiveSubs, IsLive
  <2>3. \A s \in LiveSubs(u) : sub'[s].plan = sub[s].plan /\ sub'[s].expires = sub[s].expires
    BY <1>4 DEF LiveSubs
  <2> QED
    BY <2>2, <2>3, PassKept
<1>8. \A u \in User : u # UserOf[p] => PassOf(u)' = PassOf(u)
  BY <1>2, <1>7 DEF LiveSubs
<1>9. PICK x \in User : x = UserOf[p]
  BY OrdersAreTyped
<1>10. PassOf(x)' \in {PassOf(x), None}
  <2>1. CASE \A s \in LiveSubs(x) : s \notin held[w]
    BY <1>7, <2>1
  <2>2. ASSUME NEW s \in LiveSubs(x), s \in held[w] PROVE PassOf(x)' = None
    <3>1. \A r \in LiveSubs(x) : r = s
      BY DEF IInv, OneLivePerUser, LiveSubs
    <3>2. \A r \in Sub : IsLive(r)' => IsLive(r) /\ r # s
      BY <1>4, <2>2 DEF IsLive, LiveStatuses
    <3>3. LiveSubs(x)' = {}
      BY <1>4, <3>1, <3>2 DEF LiveSubs, IsLive
    <3> QED
      BY <3>3 DEF PassOf, LiveSubs, IsLive
  <2> QED
    BY <2>1, <2>2
<1>11. Passes' \in {Passes, [Passes EXCEPT ![x] = None]}
  <2>1. CASE PassOf(x)' = PassOf(x)
    BY <1>8, <1>9, <2>1 DEF Passes
  <2>2. CASE PassOf(x)' = None
    BY <1>8, <1>9, <2>2 DEF Passes
  <2> QED
    BY <1>10, <2>1, <2>2
<1>12. L!Refund(p)
  BY <1>5, <1>6, <1>9, <1>11 DEF L!Refund, Entry, Granted, Passes
<1> QED
  BY <1>12 DEF L!Next

\* The daily job is a round of the ledger.
LEMMA RoundStep ==
  ASSUME IInv, IInv', job_commit
  PROVE  L!Next
<1>1. /\ job.lapsed \subseteq Sub /\ job.stale \subseteq Payment
      /\ \A s \in job.lapsed : IsLive(s)
      /\ \A s \in job.graced : IsLive(s)
      /\ \A p \in job.stale : payment[p].status = "pending_review"
  BY DEF IInv, TypeOK, JobTyped, JobKnown, IsLive, LiveStatuses
<1>2. \A s \in Sub :
        /\ sub'[s].user = sub[s].user /\ sub'[s].plan = sub[s].plan
        /\ sub'[s].payment = sub[s].payment /\ sub'[s].expires = sub[s].expires
        /\ s \in job.lapsed => sub'[s].status = "expired"
        /\ s \in job.graced \ job.lapsed => sub'[s].status = "grace"
        /\ s \notin job.graced \cup job.lapsed => sub'[s] = sub[s]
  BY RowsNow DEF job_commit, RowsTyped
<1>3. \A p \in Payment : /\ p \in job.stale => payment'[p].status = "expired"
                         /\ p \notin job.stale => payment'[p] = payment[p]
  BY RowsNow DEF job_commit, RowsTyped
<1>4. Granted' = Granted
  BY <1>2, GrantedKept
<1>5. \A s \in Sub : IsLive(s)' <=> IsLive(s) /\ s \notin job.lapsed
  BY <1>1, <1>2 DEF IsLive, LiveStatuses
<1>6. ASSUME NEW u \in User, u \notin Downgraded PROVE PassOf(u)' = PassOf(u)
  <2>1. \A s \in LiveSubs(u) : s \notin job.lapsed
    BY <1>6 DEF Downgraded, LiveSubs
  <2>2. LiveSubs(u)' = LiveSubs(u)
    BY <1>2, <1>5, <2>1 DEF LiveSubs, IsLive
  <2>3. \A s \in LiveSubs(u) : sub'[s].plan = sub[s].plan /\ sub'[s].expires = sub[s].expires
    BY <1>2 DEF LiveSubs
  <2> QED
    BY <2>2, <2>3, PassKept
<1>7. ASSUME NEW u \in User, u \in Downgraded PROVE PassOf(u)' = None
  <2>1. PICK s \in job.lapsed : sub[s].user = u
    BY <1>7 DEF Downgraded
  <2>2. s \in LiveSubs(u) /\ \A r \in LiveSubs(u) : r = s
    BY <1>1, <2>1 DEF IInv, OneLivePerUser, LiveSubs
  <2>3. LiveSubs(u)' = {}
    BY <1>2, <1>5, <2>2 DEF LiveSubs, IsLive
  <2> QED
    BY <2>3 DEF PassOf, LiveSubs, IsLive
<1>8. \E U \in SUBSET User : Passes' = [u \in User |-> IF u \in U THEN None ELSE Passes[u]]
  <2> WITNESS Downgraded \cap User \in SUBSET User
  <2> QED
    BY <1>6, <1>7 DEF Passes
<1>9. \E P \in SUBSET {p \in Payment : Entry[p] = "pending_review"} :
        Entry' = [p \in Payment |-> IF p \in P THEN "expired" ELSE Entry[p]]
  <2>1. job.stale \in SUBSET {p \in Payment : Entry[p] = "pending_review"}
    BY <1>1 DEF Entry
  <2>2. Entry' = [p \in Payment |-> IF p \in job.stale THEN "expired" ELSE Entry[p]]
    BY <1>3 DEF Entry
  <2> QED
    BY <2>1, <2>2
<1>10. L!Round
  BY <1>4, <1>8, <1>9 DEF L!Round, Entry, Granted, Passes
<1> QED
  BY <1>10 DEF L!Next

\* Every step of Billing, in order, is the ledger's or leaves it alone.
LEMMA NextLedger ==
  ASSUME IInv, GInv, CInv, DInv, IInv', [Next]_vars
  PROVE  L!Next \/ UNCHANGED L!vars
<1>1. ASSUME UNCHANGED <<payment, sub>> PROVE UNCHANGED L!vars
  BY <1>1, EntriesKept, PassesKept, Stutters
<1>2. ASSUME NEW w \in Worker, Request(w) PROVE UNCHANGED <<payment, sub>>
  BY <1>2 DEF Request, settle_callback, gateway_callback, on_successful_payment,
     Callback, on_review_decision, refund, on_receipt_photo, start_trial,
     gift, Begin, db
<1>3. ASSUME NEW w \in Worker, Step(w) PROVE L!Next \/ UNCHANGED L!vars
  <2>1. ASSUME \/ locked_payment(w) \/ verify_paid(w) \/ verify_error(w) \/ charge_code(w)
               \/ lock_user(w) \/ lock_live(w) \/ \E s \in Sub : revoke(w, s)
        PROVE  UNCHANGED <<payment, sub>>
    BY <2>1 DEF locked_payment, verify_paid, verify_error, charge_code, lock_user, lock_live,
       revoke, db
  <2> QED
    BY <1>1, <1>3, <2>1, CloseStep, SettleStep, RefundStep DEF Step
<1>4. ASSUME NEW w \in Worker, rollback(w) PROVE UNCHANGED <<payment, sub>>
  BY <1>4 DEF rollback, db
<1>5. Outside => UNCHANGED <<payment, sub>> \/ \E p \in Payment : start_checkout(p)
  BY DEF Outside, Tick, on_pre_checkout, Capture, db
<1>6. Job => UNCHANGED <<payment, sub>> \/ job_commit
  BY DEF Job, job_start, job_next_lapse, job_next_users, job_next_reviews, job_grace, job_lapse,
     job_user, job_review, db
<1>7. job_rollback \/ UNCHANGED vars => UNCHANGED <<payment, sub>>
  BY DEF job_rollback, vars, db
<1> QED
  BY <1>1, <1>2, <1>3, <1>4, <1>5, <1>6, <1>7, OpenStep, RoundStep DEF Next

\* Initially the ledger is empty.
LEMMA InitLedger == Init => L!Init
<1> SUFFICES ASSUME Init PROVE L!Init
  OBVIOUS
<1>1. \A s \in Sub : sub[s].status = "absent" /\ sub[s].payment = None
  BY DEF Init, NoSub
<1>2. Granted = {}
  BY <1>1 DEF Granted
<1>3. \A u \in User : PassOf(u) = None
  BY <1>1 DEF PassOf, LiveSubs, IsLive, LiveStatuses
<1>4. \A p \in Payment : payment[p].status = "absent"
  BY DEF Init
<1> QED
  BY <1>2, <1>3, <1>4 DEF L!Init, Granted

------------------------------------------------------------------------------
\* Where requests about a payment come one after the other, each finds its payment as it was
\* when it began: settlements and approvals find it open, refunds paid, and a payment with a
\* subscription has been settled.
THEOREM OrderlyInductive ==
  ASSUME ~Disorder
  PROVE  Spec => []DInv
<1>1. Init => DInv
  BY InitDInv
<1>2. IInv /\ DInv /\ [Next]_vars => DInv'
  BY NextDInv
<1> QED
  BY <1>1, <1>2, Inductive, PTL DEF Spec

\* Billing implements the ledger, for any users, payments, plans and handlers, whatever crashes
\* and deadlocks: what the transactions of subscriptions.py commit, statement by statement and
\* interleaved with each other and the job, is settling a payment and handing out its pass in
\* one step, once a payment - where the requests about one payment come one after the other.
THEOREM BillingImplementsLedger ==
  ASSUME ~Disorder
  PROVE  Spec => IsLedger
<1>1. Init => L!Init
  BY InitLedger
<1>2. IInv /\ IInv' /\ GInv /\ CInv /\ DInv /\ [Next]_vars => [L!Next]_L!vars
  BY NextLedger
<1> QED
  BY <1>1, <1>2, Inductive, GrantsInductive, CacheInductive, OrderlyInductive, PTL
     DEF Spec, IsLedger, L!Spec

\* Nothing takes "paid" back - no receipt, rejection, review deadline or callback that comes
\* after it - but a refund, and the refusal of a callback that loaded the row before the
\* payment was settled and waited for its lock (_find_payment, settle_callback).
THEOREM PaidStays == Spec => SettledStays
<1>1. ASSUME IInv, SInv, [Next]_vars, NEW p \in Payment, payment[p].status = "paid",
             payment'[p].status \notin {"paid", "refunded"}
      PROVE  LateRefusal(p)
  <2>1. payment'[p].status = "failed"
    BY <1>1, OnlyRefusalUnsettles
  <2>2. PICK w \in Worker : tx[w].pay = p /\ verify_failed(w)
    BY <1>1, OnlyRefusalUnsettles
  <2>3. At(w, "settle", "verify") /\ tx[w].seen # "paid"
    BY <1>1, <2>2 DEF verify_failed, At, IInv, StatusKnown
  <2> QED
    BY <2>1, <2>2, <2>3 DEF LateRefusal
<1>2. IInv /\ SInv /\ [Next]_vars =>
        [\A p \in Payment : payment[p].status = "paid" =>
           payment'[p].status \in {"paid", "refunded"} \/ LateRefusal(p)]_vars
  BY <1>1
<1> QED
  BY <1>2, Inductive, AsksInductive, PTL DEF Spec, SettledStays

\* Where the requests about one payment do not overlap there is no such refusal either:
\* a settled payment is refunded or stays.
THEOREM PaidForGood ==
  ASSUME ~Disorder
  PROVE  Spec => SettledForGood
<1>1. ASSUME IInv, SInv, DInv, [Next]_vars, NEW p \in Payment, payment[p].status = "paid"
      PROVE  payment'[p].status \in {"paid", "refunded"}
  <2> SUFFICES ASSUME NEW w \in Worker, tx[w].pay = p, verify_failed(w)
               PROVE  FALSE
    BY <1>1, OnlyRefusalUnsettles
  <2> QED
    BY <1>1 DEF verify_failed, At, DInv, Owns
<1>2. IInv /\ SInv /\ DInv /\ [Next]_vars =>
        [\A p \in Payment : payment[p].status = "paid" =>
           payment'[p].status \in {"paid", "refunded"}]_vars
  BY <1>1
<1> QED
  BY <1>2, Inductive, AsksInductive, OrderlyInductive, PTL DEF Spec, SettledForGood
===============================================================================
