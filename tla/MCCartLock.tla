----------------------------- MODULE MCCartLock -----------------------------
(***************************************************************************)
(* Three calls on a guest cart and the cart of a signed-in customer: adds,  *)
(* changes, merges of one into the other and a clear.                       *)
(***************************************************************************)
EXTENDS CartLock, TLC

CONSTANTS c1, c2, c3, guest, user, almonds

Ask(op, cart, into, units) ==
  [op |-> op, cart |-> cart, into |-> into, product |-> almonds, units |-> units]
MCRequests ==
  LET merge == Ask("merge", guest, user, 0)
      add == Ask("add", guest, guest, 2)
      set == Ask("set", user, user, 0)
      clear == Ask("clear", guest, guest, 0)
  IN  {(c1 :> merge) @@ (c2 :> merge) @@ (c3 :> clear),
       (c1 :> merge) @@ (c2 :> add) @@ (c3 :> set)}
MCOpening == [k \in Carts |-> [p \in Products |-> 1]]

=============================================================================
