-------------------------------- MODULE Ledger --------------------------------
(***************************************************************************)
(* What billing promises, with no transactions and no rows: every payment  *)
(* is an account entry that is opened, then settled once or closed, and    *)
(* every user holds at most one pass.  Settling an entry and handing out   *)
(* its pass are ONE step.                                                  *)
(*                                                                         *)
(* Billing implements this ledger as long as requests about one payment    *)
(* do not overlap and a closed payment is not decided again (MCLedger).    *)
(***************************************************************************)
EXTENDS Naturals

CONSTANTS User, Payment, Plan, UserOf, PlanOf, None

VARIABLES
  entry,      \* the state of every payment
  granted,    \* the payments that were turned into a pass
  pass        \* the pass each user holds, if any

vars == <<entry, granted, pass>>

Pass == [plan : Plan, expires : Nat]

\* A new pass; of the same plan it lasts longer than the one it replaces.
Extends(old, new) ==
  old # None /\ old.plan = new.plan => new.expires > old.expires

Init ==
  /\ entry = [p \in Payment |-> "absent"]
  /\ granted = {}
  /\ pass = [u \in User |-> None]

Open(p) ==
  /\ entry[p] = "absent"
  /\ \E e \in {"pending", "pending_review"} : entry' = [entry EXCEPT ![p] = e]
  /\ UNCHANGED <<granted, pass>>

\* An admin rejects, or a callback is refused; what is closed may be closed otherwise.
Close(p) ==
  /\ entry[p] \in {"pending", "pending_review", "failed", "rejected", "expired"}
  /\ \E e \in {"failed", "rejected"} : entry' = [entry EXCEPT ![p] = e]
  /\ UNCHANGED <<granted, pass>>

\* User u now holds some new pass for this plan; nobody else's changes.
Hand(u, plan) ==
  /\ pass'[u] \in Pass /\ pass'[u].plan = plan
  /\ Extends(pass[u], pass'[u])
  /\ pass' = [pass EXCEPT ![u] = pass'[u]]

Settle(p) ==
  /\ entry[p] \notin {"absent", "paid", "refunded"}
  /\ p \notin granted
  /\ entry' = [entry EXCEPT ![p] = "paid"]
  /\ granted' = granted \cup {p}
  /\ Hand(UserOf[p], PlanOf[p])

\* The money goes back; so does the pass it bought, unless another took its place.
Refund(p) ==
  /\ entry[p] = "paid"
  /\ entry' = [entry EXCEPT ![p] = "refunded"]
  /\ pass' \in {pass, [pass EXCEPT ![UserOf[p]] = None]}
  /\ UNCHANGED granted

\* A trial or a gift.
Bestow(u, plan) == Hand(u, plan) /\ UNCHANGED <<entry, granted>>

\* The daily round: passes run out, unanswered reviews are closed.
Round ==
  /\ \E U \in SUBSET User : pass' = [u \in User |-> IF u \in U THEN None ELSE pass[u]]
  /\ \E P \in SUBSET {p \in Payment : entry[p] = "pending_review"} :
       entry' = [p \in Payment |-> IF p \in P THEN "expired" ELSE entry[p]]
  /\ UNCHANGED granted

Next ==
  \/ \E p \in Payment : Open(p) \/ Close(p) \/ Settle(p) \/ Refund(p)
  \/ \E u \in User, plan \in Plan : Bestow(u, plan)
  \/ Round

Spec == Init /\ [][Next]_vars
===============================================================================
