------------------------------ MODULE BillingInv ------------------------------
(***************************************************************************)
(* The inductive invariant behind OneLivePerUser and RefundedNotLive: what *)
(* each transaction may rely on between two of its statements because of   *)
(* the row locks it holds.                                                 *)
(***************************************************************************)
EXTENDS Billing

\* Transactions that hold the row of their payment, or of their user.
AfterPayLock == {"verify", "code", "lockUser", "lockLive", "grant", "revoke"}
AfterUserLock == {"lockLive", "grant"}

\* A row lock has one holder.
Exclusive ==
  \A a, b \in Actor, r \in Row : r \in held[a] /\ r \in held[b] => a = b

\* Which operation is at which statement, and what it works on.
Shape ==
  \A w \in Worker :
    /\ tx[w].pc # "idle" => tx[w].user \in User
    /\ tx[w].op \in {"settle", "approve", "trial", "gift"} => tx[w].plan \in Plan
    /\ tx[w].op \in {"settle", "approve", "reject", "refund", "receipt"}
         => tx[w].pay \in Payment /\ payment[tx[w].pay].status # "absent"
    /\ tx[w].op \in {"trial", "gift"} => tx[w].pay = None
    /\ tx[w].pc = "idle" => tx[w].op = "none"
    /\ tx[w].pc = "lockPay" =>
         tx[w].op \in {"settle", "approve", "reject", "refund", "receipt"}
    /\ tx[w].pc = "verify" => tx[w].op = "settle"
    /\ tx[w].pc = "code" => tx[w].op \in {"settle", "approve"}
    /\ tx[w].pc \in {"lockUser", "lockLive", "grant"} =>
         tx[w].op \in {"settle", "approve", "trial", "gift"}
    /\ tx[w].pc = "revoke" => tx[w].op = "refund"
    /\ tx[w].pc # "grant" => tx[w].live = None

\* A row of subscriptions has a user and a plan, an id without a row no payment.
RowsComplete ==
  \A s \in Sub : IF sub[s].status = "absent" THEN sub[s].payment = None
                 ELSE sub[s].user \in User /\ sub[s].plan \in Plan

\* Only rows that exist are locked, or about to be.
Present ==
  /\ \A a \in Actor, s \in Sub : s \in held[a] => sub[s].status # "absent"
  /\ \A w \in Worker, s \in Sub : s \in tx[w].todo => sub[s].status # "absent"

PaymentHeld ==
  \A w \in Worker : tx[w].pc \in AfterPayLock /\ tx[w].pay # None => tx[w].pay \in held[w]

UserHeld ==
  \A w \in Worker : tx[w].pc \in AfterUserLock => tx[w].user \in held[w]

\* What activate read about the live subscription is still so when it writes.
LiveKnown ==
  \A w \in Worker : tx[w].pc = "grant" =>
    /\ tx[w].live # None => tx[w].live \in held[w] /\ IsLive(tx[w].live)
    /\ \A s \in Sub : IsLive(s) /\ sub[s].user = tx[w].user => s = tx[w].live

\* A status read under the lock is still the row's; settle's, read before, is not "paid".
StatusKnown ==
  \A w \in Worker :
    /\ tx[w].op = "settle" => tx[w].seen \notin {None, "paid"}
    /\ tx[w].op = "approve" /\ tx[w].pc \in AfterPayLock =>
         tx[w].seen = payment[tx[w].pay].status
    /\ tx[w].op = "approve" /\ tx[w].pc = "lockPay" => tx[w].seen = None

\* A refund has locked, or is about to lock, every subscription of its payment.
RefundCovers ==
  \A w \in Worker : tx[w].pc = "revoke" =>
    \A s \in Sub : sub[s].payment = tx[w].pay /\ sub[s].status # "refunded" =>
      s \in tx[w].todo \/ s \in held[w]

\* The job's rows are locked by it and still as it found them.
JobKnown ==
  /\ \A s \in job.graced : s \in held[Daily] /\ sub[s].status \in {"active", "trialing"}
  /\ \A s \in job.lapsed : s \in held[Daily] /\ IsLive(s)
  /\ \A p \in job.stale : p \in held[Daily] /\ payment[p].status = "pending_review"

IInv ==
  /\ TypeOK /\ Exclusive /\ Shape /\ RowsComplete /\ Present
  /\ PaymentHeld /\ UserHeld /\ LiveKnown /\ StatusKnown /\ RefundCovers /\ JobKnown
  /\ OneLivePerUser /\ RefundedNotLive
===============================================================================
