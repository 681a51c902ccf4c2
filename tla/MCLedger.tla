------------------------------- MODULE MCLedger -------------------------------
(***************************************************************************)
(* Billing implements Ledger: the committed rows are the ledger.           *)
(***************************************************************************)
EXTENDS MCBilling

PassOf(u) ==
  IF LiveSubs(u) = {} THEN None
  ELSE LET s == CHOOSE s \in LiveSubs(u) : TRUE
       IN [plan |-> sub[s].plan, expires |-> sub[s].expires]

L == INSTANCE Ledger WITH
       entry <- [p \in Payment |-> payment[p].status],
       granted <- {sub[s].payment : s \in Sub} \ {None},
       pass <- [u \in User |-> PassOf(u)]

(***************************************************************************)
(* The committed rows only ever take the ledger's steps: no transaction    *)
(* leaves a payment settled without its pass, a pass without its payment,  *)
(* or two passes for one payment.                                          *)
(***************************************************************************)
IsLedger == L!Spec
===============================================================================
