---------------------------- MODULE MCCheckout ----------------------------
(***************************************************************************)
(* Checkout on small instances: two customers or one, two payments.        *)
(***************************************************************************)
EXTENDS Checkout, TLC

CONSTANTS c1, c2, p1, p2, d1, d2, k1, k2

(* An empty cart, or one unit of one product; every product costs the same,  *)
(* so that a cart may change and its total not.                              *)
MCContents ==
  {x \in [Products -> {0, 1}] : \A j, k \in Products : x[j] = 1 /\ x[k] = 1 => j = k}

MCCost == [x \in MCContents |-> IF x = Empty THEN 0 ELSE 1]

(* Both customers pay, each for a preference of their own. *)
MCPreferenceOf == [p \in Payments |-> IF p = p1 THEN c1 ELSE c2]

(* One customer pays twice for the same preference. *)
MCSamePreference == [p \in Payments |-> c1]

(* A payment method that decides at once or later, and refunds. *)
MCMoves ==
  {<<"none", "pending">>, <<"none", "rejected">>, <<"pending", "approved">>,
   <<"approved", "refunded">>}

(* One that decides at once and can take an approval back. *)
MCReversibleMoves == {<<"none", "approved">>, <<"approved", "cancelled">>}

(* One that decides at once and for good. *)
MCImmediateMoves == {<<"none", "approved">>, <<"none", "rejected">>}

(* A payment method that decides later. *)
MCDeferredMoves == {<<"none", "pending">>, <<"pending", "approved">>}

(* Handlers and products are alike, and so are payments for one preference. *)
MCSymmetry == Permutations(Handlers) \cup Permutations(Payments) \cup Permutations(Products)

=============================================================================
