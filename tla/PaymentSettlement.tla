------------------------- MODULE PaymentSettlement -------------------------
(***************************************************************************)
(* What the Mercado Pago webhook promises about a payment: a handler claims *)
(* it once, and then either places its one order or drops it for good.      *)
(***************************************************************************)
CONSTANT Payments

VARIABLE settled  \* settled[p]: what payment p has come to

Init == settled = [p \in Payments |-> "open"]

(* A handler makes the payment its own. *)
Claim(p) ==
  /\ settled[p] = "open"
  /\ settled' = [settled EXCEPT ![p] = "claimed"]

(* It places the order. *)
Order(p) ==
  /\ settled[p] = "claimed"
  /\ settled' = [settled EXCEPT ![p] = "ordered"]

(* The handlers of some payments end without an order. *)
Drop(dropped) ==
  /\ \A p \in dropped : settled[p] = "claimed"
  /\ settled' = [p \in Payments |-> IF p \in dropped THEN "dropped" ELSE settled[p]]

Next ==
  \/ \E p \in Payments : Claim(p) \/ Order(p)
  \/ \E dropped \in SUBSET Payments : Drop(dropped)

Spec == Init /\ [][Next]_settled

=============================================================================
