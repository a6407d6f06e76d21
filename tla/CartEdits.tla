----------------------------- MODULE CartEdits -----------------------------
(***************************************************************************)
(* What the cart service promises: every call that changes a cart does so   *)
(* at most once, at one moment, and to what the cart holds at that moment.  *)
(* On a loose cart, one whose lock ran out or that something without a lock *)
(* has touched while a call was at work on it, nothing is promised.         *)
(***************************************************************************)
EXTENDS CartContents

CONSTANTS Calls, Carts, Sides

VARIABLES
  asks,     \* asks[c]: what call c asks for
  carts,    \* carts[s][k]: contents of cart k on side s, Redis or memory
  applied,  \* calls that have changed something
  loose     \* carts of which nothing is promised now

vars == <<asks, carts, applied, loose>>

Init ==
  /\ carts \in [Sides -> [Carts -> Contents]]
  /\ applied = {}
  /\ loose = {}

(* Cart k changes on one side; no other cart does. *)
Becomes(s, k, cart) == carts' = [carts EXCEPT ![s][k] = cart]

Add(c, s) ==
  /\ asks[c].op = "add"
  /\ Becomes(s, asks[c].cart, Added(carts[s][asks[c].cart], asks[c].product, asks[c].units))

Change(c, s) ==
  /\ asks[c].op = "set"
  /\ carts[s][asks[c].cart][asks[c].product] > 0
  /\ Becomes(s, asks[c].cart, Changed(carts[s][asks[c].cart], asks[c].product, asks[c].units))

Clear(c, s) ==
  /\ asks[c].op = "clear"
  /\ Becomes(s, asks[c].cart, Empty)

(* Nothing is lost and nothing is there twice. *)
Merge(c, s) ==
  /\ asks[c].op = "merge"
  /\ carts' = [carts EXCEPT ![s][asks[c].into] = Joined(@, carts[s][asks[c].cart]),
                            ![s][asks[c].cart] = Empty]

Apply(c) ==
  /\ c \notin applied
  /\ applied' = applied \cup {c}
  /\ asks' = asks
  /\ \E s \in Sides : Add(c, s) \/ Change(c, s) \/ Clear(c, s) \/ Merge(c, s)

(* Only loose carts change. *)
Stray ==
  /\ \A s \in Sides, k \in Carts : k \in loose' \/ carts'[s][k] = carts[s][k]
  /\ applied \subseteq applied'
  /\ asks' = asks

Next == Stray \/ \E c \in Calls : Apply(c)

Spec == Init /\ [][Next]_vars

=============================================================================
