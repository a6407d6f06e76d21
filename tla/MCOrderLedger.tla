--------------------------- MODULE MCOrderLedger ---------------------------
(***************************************************************************)
(* OrderLedger on a small instance: two checkouts drawing on two keys, one *)
(* of which has a single unit left, two manual withdrawals of that unit, a *)
(* transfer, a negative adjustment, and two status calls.                  *)
(***************************************************************************)
EXTENDS OrderLedger

CONSTANTS k1, k2, o1, o2, m1, m2, m3, m4, p1, p2, s1, s2

MCItems == [o \in Orders |-> [k \in Keys |-> 1]]

MCPaymentOf == [o \in Orders |-> IF o = o2 THEN p2 ELSE p1]

MCOpening == [k \in Keys |-> IF k = k1 THEN 1 ELSE 2]

MCMovement ==
  [m \in Manual |->
     [type |-> CASE m = m3 -> "TRANSFER" [] m = m4 -> "ADJUSTMENT" [] OTHER -> "OUTBOUND",
      key |-> k1,
      quantity |-> IF m = m4 THEN -1 ELSE 1,
      owned |-> TRUE]]

=============================================================================
