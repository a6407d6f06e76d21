---------------------------- MODULE CartContents ----------------------------
(***************************************************************************)
(* Carts as values: how many units of each product they hold, and what an  *)
(* edit makes of them.  A cart that does not exist and one without items    *)
(* are answered alike by src/src/modules/cart/service.ts; both are Empty.   *)
(***************************************************************************)
EXTENDS Integers

CONSTANT Products  \* `productId:variantId` of the items

Contents == [Products -> Nat]
Empty == [p \in Products |-> 0]

(* addToCart: a line of its own, or more units on the line there is. *)
Added(cart, p, units) == [cart EXCEPT ![p] = @ + units]

(* updateCartItem, for a line there is; 0 units take it out. *)
Changed(cart, p, units) == [cart EXCEPT ![p] = units]

(* mergeGuestCartIntoUserCart *)
Joined(cart, other) == [p \in Products |-> cart[p] + other[p]]

=============================================================================
