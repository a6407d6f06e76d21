--------------------------- MODULE CheckoutProofs ---------------------------
(***************************************************************************)
(* Proofs about Checkout, for every set of checkouts, payments and         *)
(* handlers and however many mishaps: types, the exclusive claim, the      *)
(* outcome of a payment, and that the webhook implements                   *)
(* PaymentSettlement.                                                      *)
(***************************************************************************)
EXTENDS Checkout, TLAPS

USE CheckoutConstants

-----------------------------------------------------------------------------
(* Types *)

LEMMA InitType == Init => TypeOK
BY DEF Init, TypeOK, Snapshots, Statuses, OwnerSteps

(* The handler's own variables keep their types when it ends or goes on. *)
HandlerTypes ==
  /\ acked \subseteq Notes
  /\ pc \in [Handlers -> OwnerSteps \cup {"idle", "lookup", "claim"}]
  /\ note \in [Handlers -> Notes \cup {NoNote}]
  /\ \A d \in Handlers : pc[d] # "idle" => note[d] \in Notes
  /\ loaded \in [Handlers -> Snapshots]
  /\ \A d \in Handlers : pc[d] = "ordering" => loaded[d] \in Contents
  /\ answered \in [Handlers -> BOOLEAN]

LEMMA ReplyTypes ==
  ASSUME TypeOK, NEW d \in Handlers, pc[d] # "idle", NEW code, Reply(d, code)
  PROVE  HandlerTypes'
BY DEF TypeOK, Reply, HandlerTypes, OwnerSteps, Snapshots

LEMMA GotoTypes ==
  ASSUME TypeOK, NEW d \in Handlers, pc[d] # "idle", NEW step \in OwnerSteps \cup {"claim"},
         Goto(d, step), loaded' \in [Handlers -> Snapshots],
         \A e \in Handlers \ {d} : loaded'[e] = loaded[e],
         step = "ordering" => loaded'[d] \in Contents
  PROVE  HandlerTypes'
BY DEF TypeOK, Goto, HandlerTypes

LEMMA KeepTypes ==
  ASSUME TypeOK, NEW d \in Handlers, pc[d] # "idle",
         NEW step \in (OwnerSteps \cup {"claim"}) \ {"ordering"},
         Goto(d, step), loaded' = loaded
  PROVE  HandlerTypes'
BY GotoTypes DEF TypeOK

LEMMA CustomerTypes ==
  ASSUME TypeOK, NEW c \in Checkouts, CustomerStep(c)
  PROVE  TypeOK'
<1>1. CASE EditCart(c)
  <2>1. PICK x \in Contents :
          /\ cart' = [cart EXCEPT ![c] = x]
          /\ object' \in {object, [object EXCEPT ![c] = x]}
          /\ edited' \in {edited, edited \cup {c}}
    BY <1>1 DEF EditCart
  <2>2. /\ cart' \in [Checkouts -> Contents] /\ object' \in [Checkouts -> Contents]
        /\ edited' \subseteq Checkouts
    <3>1. [object EXCEPT ![c] = x] \in [Checkouts -> Contents]
      BY DEF TypeOK
    <3> QED BY <2>1, <3>1 DEF TypeOK
  <2> QED BY <1>1, <2>2 DEF TypeOK, EditCart, snapshots, provider, orders, handlerVars
<1>6. CASE EmptyCart(c)
  BY <1>6 DEF TypeOK, EmptyCart, DeleteCart, snapshots, provider, orders, handlerVars
<1>2. CASE ReadCart(c)
  <2>1. /\ stage' \in [Checkouts -> {"idle", "validated", "created", "returned", "failed"}]
        /\ object' \in [Checkouts -> Contents]
        /\ live' \subseteq Checkouts
    <3>1. /\ stage' = [stage EXCEPT ![c] = "validated"] \/ stage' = [stage EXCEPT ![c] = "failed"]
          /\ object' = object \/ object' = [object EXCEPT ![c] = cart[c]]
          /\ live' = live \/ live' = live \cup {c}
      BY <1>2, Zenon DEF ReadCart
    <3>2. cart[c] \in Contents
      BY DEF TypeOK
    <3> QED BY <3>1, <3>2 DEF TypeOK
  <2> QED BY <1>2, <2>1 DEF TypeOK, ReadCart, snapshots, provider, orders, handlerVars
<1>3. CASE CreatePreference(c)
  <2>1. /\ stage' \in [Checkouts -> {"idle", "validated", "created", "returned", "failed"}]
        /\ items' \in [Checkouts -> Contents]
    <3>1. /\ stage' = [stage EXCEPT ![c] = "created"] \/ stage' = [stage EXCEPT ![c] = "failed"]
          /\ items' = items \/ items' = [items EXCEPT ![c] = object[c]]
      BY <1>3, Zenon DEF CreatePreference
    <3>2. object[c] \in Contents
      BY DEF TypeOK
    <3> QED BY <3>1, <3>2 DEF TypeOK
  <2> QED BY <1>3, <2>1 DEF TypeOK, CreatePreference, snapshots, provider, orders, handlerVars
<1>4. CASE StoreSnapshot(c)
  BY <1>4 DEF TypeOK, StoreSnapshot, Snapshots, provider, orders, handlerVars
<1>5. CASE ExpireSnapshot(c)
  BY <1>5 DEF TypeOK, ExpireSnapshot, Mishap, Snapshots, customerVars, provider,
              orders, handlerVars
<1> QED BY <1>1, <1>2, <1>3, <1>4, <1>5, <1>6 DEF CustomerStep

LEMMA ProviderTypes ==
  ASSUME TypeOK, NEW p \in Payments, MovePayment(p)
  PROVE  TypeOK'
<1>1. mp' \in [Payments -> Statuses] /\ sent' \subseteq Notes
  BY DEF TypeOK, MovePayment, Notes
<1>2. paid' \in [Payments -> Int] /\ faults' \in Nat
  <2> DEFINE total == Cost[items[PreferenceOf[p]]]
  <2>1. CASE mp[p] = "none"
    <3>0. total \in Nat
      BY DEF TypeOK
    <3> HIDE DEF total
    <3>1. /\ \E s \in Surcharges \cup {0} : paid' = [paid EXCEPT ![p] = total + s]
          /\ faults' \in {faults, faults + 1}
      BY <2>1, <3>0 DEF MovePayment, Charge, Mishap, total
    <3>2. PICK s \in Surcharges \cup {0} : paid' = [paid EXCEPT ![p] = total + s]
      BY <3>1
    <3>3. total + s \in Int
      BY <3>0
    <3> QED BY <3>1, <3>2, <3>3 DEF TypeOK
  <2>2. CASE mp[p] # "none"
    BY <2>2 DEF TypeOK, MovePayment
  <2> QED BY <2>1, <2>2
<1> QED BY <1>1, <1>2 DEF TypeOK, MovePayment, customerVars, snapshots, orders, handlerVars

LEMMA WorkTypes ==
  ASSUME TypeOK, NEW d \in Handlers, Work(d)
  PROVE  TypeOK'
<1> USE DEF customerVars, snapshots, provider, orders
<1>1. CASE LookupEvent(d)
  <2>1. HandlerTypes'
    BY <1>1, ReplyTypes, KeepTypes DEF LookupEvent, TypeOK
  <2> QED BY <1>1, <2>1 DEF LookupEvent, TypeOK, HandlerTypes
<1>2. CASE Claim(d)
  <2>1. HandlerTypes'
    BY <1>2, ReplyTypes, KeepTypes DEF Claim, TypeOK, OwnerSteps
  <2>2. events' \subseteq Payments
    BY <1>2 DEF Claim, TypeOK, Notes
  <2> QED BY <1>2, <2>1, <2>2 DEF Claim, TypeOK, HandlerTypes
<1>3. CASE FetchPayment(d)
  <2>1. /\ pc[d] # "idle"
        /\ \/ Reply(d, 200)
           \/ \E step \in {"approved", "rejected"} : Goto(d, step) /\ loaded' = loaded
    BY <1>3 DEF FetchPayment
  <2>2. HandlerTypes'
    <3>1. CASE Reply(d, 200)
      BY <2>1, <3>1, ReplyTypes
    <3>2. ASSUME NEW step \in {"approved", "rejected"}, Goto(d, step), loaded' = loaded
          PROVE  HandlerTypes'
      BY <2>1, <3>2, KeepTypes DEF OwnerSteps
    <3> QED BY <2>1, <3>1, <3>2
  <2> QED BY <1>3, <2>2 DEF FetchPayment, TypeOK, HandlerTypes
<1>4. CASE LoadForOrder(d)
  <2>1. Preference(d) \in Checkouts /\ Snapshot(Preference(d)) \in Snapshots
    BY <1>4 DEF LoadForOrder, TypeOK, Preference, Notes, Snapshot, Snapshots
  <2>2. HandlerTypes'
    <3>1. CASE pc'[d] = "ordering"
      <4>1. Goto(d, "ordering") /\ loaded' = [loaded EXCEPT ![d] = Snapshot(Preference(d))]
        BY <1>4, <3>1 DEF LoadForOrder, TypeOK, Reply, Goto
      <4>2. Snapshot(Preference(d)) \in Contents
        BY <1>4, <2>1, <3>1 DEF LoadForOrder, TypeOK, Reply, Goto, Snapshots
      <4>3. loaded' \in [Handlers -> Snapshots] /\ loaded'[d] \in Contents
        BY <2>1, <4>1, <4>2 DEF TypeOK
      <4>4. pc[d] # "idle" /\ \A e \in Handlers \ {d} : loaded'[e] = loaded[e]
        BY <1>4, <4>1 DEF LoadForOrder, TypeOK
      <4> QED BY <4>1, <4>3, <4>4, GotoTypes DEF OwnerSteps
    <3>2. CASE pc'[d] # "ordering"
      <4>1. pc[d] # "idle"
        BY <1>4 DEF LoadForOrder
      <4>2. \/ Reply(d, 500) \/ Reply(d, 200)
            \/ Goto(d, "forgetting") /\ loaded' = loaded
        BY <1>4, <3>2 DEF LoadForOrder, TypeOK, Goto
      <4> QED BY <4>1, <4>2, ReplyTypes, KeepTypes DEF OwnerSteps
    <3> QED BY <3>1, <3>2
  <2> QED BY <1>4, <2>2 DEF LoadForOrder, TypeOK, HandlerTypes
<1>5. CASE PlaceOrder(d)
  <2>1. HandlerTypes'
    BY <1>5, KeepTypes DEF PlaceOrder, TypeOK, OwnerSteps
  <2>2. loaded[d] \in Contents /\ Covers(loaded[d])
    BY <1>5 DEF PlaceOrder, Accepted, InStock, TypeOK
  <2>3. stock' \in [Products -> Nat]
    BY <1>5, <2>2 DEF PlaceOrder, Covers, TypeOK
  <2>4. /\ order' \in [Payments -> Snapshots]
        /\ paymentStatus' \in [Payments -> {"none", "pending", "rejected"}]
    <3>1. note[d].payment \in Payments
      BY <1>5 DEF PlaceOrder, TypeOK, Notes
    <3>2. \/ UNCHANGED <<order, paymentStatus>>
          \/ /\ order' = [order EXCEPT ![note[d].payment] = loaded[d]]
             /\ paymentStatus' = [paymentStatus EXCEPT ![note[d].payment] = "pending"]
      BY <1>5 DEF PlaceOrder
    <3> QED BY <2>2, <3>1, <3>2 DEF TypeOK, Snapshots
  <2> QED BY <1>5, <2>1, <2>3, <2>4 DEF PlaceOrder, TypeOK, HandlerTypes
<1>10. CASE RefuseOrder(d)
  <2>1. HandlerTypes'
    BY <1>10, ReplyTypes DEF RefuseOrder, TypeOK
  <2>2. refused' \subseteq Payments
    BY <1>10 DEF RefuseOrder, TypeOK, Notes
  <2> QED BY <1>10, <2>1, <2>2 DEF RefuseOrder, TypeOK, HandlerTypes
<1>6. CASE LoadForRejection(d)
  <2>1. HandlerTypes'
    BY <1>6, ReplyTypes, KeepTypes DEF LoadForRejection, TypeOK, OwnerSteps
  <2> QED BY <1>6, <2>1 DEF LoadForRejection, TypeOK, HandlerTypes
<1>7. CASE RejectExistingOrder(d)
  <2>1. HandlerTypes'
    BY <1>7, KeepTypes DEF RejectExistingOrder, TypeOK, OwnerSteps
  <2>2. /\ paymentStatus' \in [Payments -> {"none", "pending", "rejected"}]
        /\ stock' \in [Products -> Nat]
    <3>1. note[d].payment \in Payments
      BY <1>7 DEF RejectExistingOrder, TypeOK, Notes
    <3>2. CASE order[note[d].payment] = NoCart
      BY <1>7, <3>2 DEF RejectExistingOrder, TypeOK
    <3>3. CASE order[note[d].payment] # NoCart
      <4>1. order[note[d].payment] \in [Products -> Nat]
        BY <3>1, <3>3 DEF TypeOK, Snapshots
      <4>2. /\ paymentStatus' = [paymentStatus EXCEPT ![note[d].payment] = "rejected"]
            /\ stock' = [k \in Products |-> stock[k] + order[note[d].payment][k]]
        BY <1>7, <3>3 DEF RejectExistingOrder
      <4> QED BY <3>1, <4>1, <4>2 DEF TypeOK
    <3> QED BY <3>2, <3>3
  <2> QED BY <1>7, <2>1, <2>2 DEF RejectExistingOrder, TypeOK, HandlerTypes
<1>8. CASE ClearCart(d)
  <2>1. HandlerTypes'
    BY <1>8, KeepTypes DEF ClearCart, TypeOK, OwnerSteps
  <2>2. cart' \in [Checkouts -> Contents] /\ live' \subseteq Checkouts
    <3> DEFINE c == Preference(d)
    <3>1. /\ cart' \in {cart, [cart EXCEPT ![c] = Empty]}
          /\ live' \in {live, live \ {c}}
      BY <1>8 DEF ClearCart, DeleteCart
    <3> HIDE DEF c
    <3>2. [cart EXCEPT ![c] = Empty] \in [Checkouts -> Contents]
      BY DEF TypeOK
    <3> QED BY <3>1, <3>2 DEF TypeOK
  <2> QED BY <1>8, <2>1, <2>2 DEF ClearCart, TypeOK, HandlerTypes
<1>9. CASE ForgetSnapshot(d)
  <2>1. HandlerTypes'
    BY <1>9, ReplyTypes DEF ForgetSnapshot, TypeOK
  <2>2. redisSnapshot' \in [Checkouts -> Snapshots] /\ memorySnapshots' \subseteq Checkouts
    <3> DEFINE c == Preference(d)
    <3>1. /\ redisSnapshot' \in {redisSnapshot, [redisSnapshot EXCEPT ![c] = NoCart]}
          /\ memorySnapshots' \in {memorySnapshots, memorySnapshots \ {c}}
      BY <1>9, Zenon DEF ForgetSnapshot
    <3> HIDE DEF c
    <3> QED BY <3>1 DEF TypeOK, Snapshots
  <2> QED BY <1>9, <2>1, <2>2 DEF ForgetSnapshot, TypeOK, HandlerTypes
<1> QED BY <1>1, <1>2, <1>3, <1>4, <1>5, <1>6, <1>7, <1>8, <1>9, <1>10 DEF Work

LEMMA MishapTypes ==
  ASSUME TypeOK, NEW d \in Handlers,
         Timeout(d) \/ FailCall(d) \/ (\E n \in Notes : Deliver(d, n) \/ DeliverLate(d, n))
  PROVE  TypeOK'
<1> USE DEF customerVars, snapshots, provider, orders
<1>1. CASE Timeout(d)
  BY <1>1 DEF Timeout, Mishap, TypeOK
<1>2. CASE FailCall(d)
  <2>1. HandlerTypes'
    BY <1>2, ReplyTypes DEF FailCall
  <2> QED BY <1>2, <2>1 DEF FailCall, Mishap, TypeOK, HandlerTypes
<1>3. ASSUME NEW n \in Notes, Deliver(d, n) \/ DeliverLate(d, n) PROVE TypeOK'
  <2>1. /\ pc' = [pc EXCEPT ![d] = "lookup"] /\ note' = [note EXCEPT ![d] = n]
        /\ faults' \in {faults, faults + 1}
        /\ UNCHANGED <<customerVars, snapshots, provider, acked, events, orders, loaded, answered>>
    BY <1>3, Zenon DEF Deliver, DeliverLate, Start, Mishap
  <2>2. HandlerTypes' /\ faults' \in Nat
    BY <2>1 DEF TypeOK, HandlerTypes
  <2> QED BY <2>1, <2>2 DEF TypeOK, HandlerTypes
<1> QED BY <1>1, <1>2, <1>3

LEMMA NextType == TypeOK /\ [Next]_vars => TypeOK'
<1> SUFFICES ASSUME TypeOK, [Next]_vars PROVE TypeOK'
  OBVIOUS
<1>1. ASSUME NEW c \in Checkouts, CustomerStep(c) PROVE TypeOK'
  BY <1>1, CustomerTypes
<1>2. ASSUME NEW p \in Payments, MovePayment(p) PROVE TypeOK'
  BY <1>2, ProviderTypes
<1>3. ASSUME NEW d \in Handlers, HandlerStep(d) PROVE TypeOK'
  BY <1>3, WorkTypes, MishapTypes DEF HandlerStep
<1>4. CASE LoseRedis \/ RegainRedis
  <2>1. redisUp' \in BOOLEAN
    BY <1>4, Zenon DEF LoseRedis, RegainRedis
  <2>2. faults' \in Nat
    BY <1>4 DEF LoseRedis, RegainRedis, Mishap, TypeOK
  <2> QED BY <1>4, <2>1, <2>2 DEF LoseRedis, RegainRedis, TypeOK, customerVars, provider,
                            orders, handlerVars
<1>5. CASE Crash
  BY <1>5 DEF Crash, Mishap, TypeOK, provider, orders, Snapshots
<1>6. CASE UNCHANGED vars
  BY <1>6 DEF vars, TypeOK, customerVars, snapshots, provider, orders, handlerVars
<1>7. ASSUME NEW k \in Products, HideProduct(k) \/ ShowProduct(k) PROVE TypeOK'
  BY <1>7 DEF HideProduct, ShowProduct, Mishap, TypeOK, customerVars, snapshots, provider,
              handlerVars
<1> QED BY <1>1, <1>2, <1>3, <1>4, <1>5, <1>6, <1>7 DEF Next

(* Every variable of the checkout and the webhook keeps its type; the stock  *)
(* never goes below zero while orders are placed one at a time.              *)
THEOREM CheckoutTypes == Spec => []TypeOK
<1> QED BY InitType, NextType, PTL DEF Spec

-----------------------------------------------------------------------------
(* The exclusive claim *)

(* Handler d has claimed p and decided nothing yet about it. *)
Undecided(d, p) == Owns(d, p) /\ pc[d] \notin {"clearing", "forgetting"}

(* No handler becomes the owner of a payment in this step. *)
OwnersOnlyLeave ==
  \A e \in Handlers, p \in Payments :
    (Owns(e, p)' => Owns(e, p)) /\ (Undecided(e, p)' => Undecided(e, p))

Wins(d) == Claim(d) /\ ~Claimed(d)

LEMMA ReplyLeaves ==
  ASSUME TypeOK, NEW d \in Handlers, NEW code, Reply(d, code)
  PROVE  OwnersOnlyLeave
BY DEF TypeOK, Reply, OwnersOnlyLeave, Undecided, Owns, OwnerSteps

LEMMA GotoLeaves ==
  ASSUME TypeOK, NEW d \in Handlers, NEW step, Goto(d, step),
         \/ step \notin OwnerSteps
         \/ pc[d] \in OwnerSteps /\ step \in {"clearing", "forgetting"}
         \/ pc[d] \in OwnerSteps /\ pc[d] \notin {"clearing", "forgetting"}
  PROVE  OwnersOnlyLeave
BY DEF TypeOK, Goto, OwnersOnlyLeave, Undecided, Owns

LEMMA WorkOwners ==
  ASSUME TypeOK, NEW d \in Handlers, Work(d), ~Wins(d)
  PROVE  OwnersOnlyLeave /\ events' = events
<1>1. CASE LookupEvent(d)
  BY <1>1, ReplyLeaves, GotoLeaves DEF LookupEvent, OwnerSteps
<1>2. CASE Claim(d)
  <2>1. Claimed(d)
    BY <1>2 DEF Wins
  <2> QED BY <1>2, <2>1, ReplyLeaves DEF Claim, Claimed
<1>3. CASE FetchPayment(d)
  BY <1>3, ReplyLeaves, GotoLeaves DEF FetchPayment, OwnerSteps
<1>4. CASE LoadForOrder(d)
  BY <1>4, ReplyLeaves, GotoLeaves DEF LoadForOrder, OwnerSteps
<1>5. CASE PlaceOrder(d)
  BY <1>5, GotoLeaves DEF PlaceOrder, OwnerSteps
<1>10. CASE RefuseOrder(d)
  BY <1>10, ReplyLeaves DEF RefuseOrder
<1>6. CASE LoadForRejection(d)
  BY <1>6, ReplyLeaves, GotoLeaves DEF LoadForRejection, OwnerSteps
<1>7. CASE RejectExistingOrder(d)
  BY <1>7, GotoLeaves DEF RejectExistingOrder, OwnerSteps
<1>8. CASE ClearCart(d)
  BY <1>8, GotoLeaves DEF ClearCart, OwnerSteps
<1>9. CASE ForgetSnapshot(d)
  BY <1>9, ReplyLeaves DEF ForgetSnapshot
<1> QED BY <1>1, <1>2, <1>3, <1>4, <1>5, <1>6, <1>7, <1>8, <1>9, <1>10 DEF Work

(* The steps in which no handler works. *)
Outside ==
  \/ \E c \in Checkouts : CustomerStep(c)
  \/ \E k \in Products : HideProduct(k) \/ ShowProduct(k)
  \/ \E p \in Payments : MovePayment(p)
  \/ \E d \in Handlers :
       Timeout(d) \/ FailCall(d) \/ (\E n \in Notes : Deliver(d, n) \/ DeliverLate(d, n))
  \/ LoseRedis \/ RegainRedis \/ Crash
  \/ UNCHANGED vars

LEMMA NextIsWorkOrOutside ==
  [Next]_vars => Outside \/ \E d \in Handlers : Work(d)
BY DEF Next, HandlerStep, Outside

LEMMA OutsideOwners ==
  ASSUME TypeOK, Outside
  PROVE  OwnersOnlyLeave /\ UNCHANGED <<events, order, paymentStatus>>
<1> USE DEF orders
<1>1. ASSUME NEW c \in Checkouts, CustomerStep(c)
      PROVE  UNCHANGED <<handlerVars, events, orders>>
  BY <1>1 DEF CustomerStep, EditCart, EmptyCart, ReadCart, CreatePreference, StoreSnapshot, ExpireSnapshot
<1>2. ASSUME NEW p \in Payments, MovePayment(p)
      PROVE  UNCHANGED <<handlerVars, events, orders>>
  BY <1>2 DEF MovePayment
<1>3. CASE LoseRedis \/ RegainRedis \/ UNCHANGED vars
  <2>1. UNCHANGED <<handlerVars, events, orders>>
    BY <1>3 DEF LoseRedis, RegainRedis, vars
  <2> QED BY <2>1 DEF handlerVars, OwnersOnlyLeave, Undecided, Owns
<1>4. ASSUME NEW d \in Handlers, Timeout(d)
      PROVE  OwnersOnlyLeave /\ UNCHANGED <<events, orders>>
  BY <1>4 DEF Timeout, OwnersOnlyLeave, Undecided, Owns
<1>5. ASSUME NEW d \in Handlers, FailCall(d)
      PROVE  OwnersOnlyLeave /\ UNCHANGED <<events, orders>>
  BY <1>5, ReplyLeaves DEF FailCall
<1>6. ASSUME NEW d \in Handlers, NEW n \in Notes, Deliver(d, n) \/ DeliverLate(d, n)
      PROVE  OwnersOnlyLeave /\ UNCHANGED <<events, orders>>
  BY <1>6 DEF Deliver, DeliverLate, Start, TypeOK, OwnersOnlyLeave, Undecided, Owns, OwnerSteps
<1>7. CASE Crash
  BY <1>7 DEF Crash, TypeOK, OwnersOnlyLeave, Undecided, Owns, OwnerSteps
<1>8. UNCHANGED handlerVars => OwnersOnlyLeave
  BY DEF handlerVars, OwnersOnlyLeave, Undecided, Owns
<1>9. ASSUME NEW k \in Products, HideProduct(k) \/ ShowProduct(k)
      PROVE  UNCHANGED <<handlerVars, events, order, paymentStatus>>
  BY <1>9 DEF HideProduct, ShowProduct
<1> QED BY <1>1, <1>2, <1>3, <1>4, <1>5, <1>6, <1>7, <1>8, <1>9 DEF Outside

(* The winner of a claim is alone with its payment. *)
LEMMA WinnerOwns ==
  ASSUME TypeOK, ClaimExclusive, NEW d \in Handlers, Wins(d)
  PROVE  /\ note[d].payment \in Payments \ events
         /\ events' = events \cup {note[d].payment}
         /\ \A e \in Handlers, p \in Payments :
              IF e = d THEN /\ Owns(e, p)' <=> p = note[d].payment
                            /\ ~Owns(e, p)
              ELSE (Owns(e, p)' <=> Owns(e, p)) /\ (Undecided(e, p)' <=> Undecided(e, p))
         /\ UNCHANGED <<order, paymentStatus>>
<1>1. Claim(d) /\ ~Claimed(d) /\ pc[d] = "claim"
  BY DEF Wins, Claim
<1>2. note[d].payment \in Payments \ events
  BY <1>1 DEF TypeOK, Notes, Claimed
<1>3. Goto(d, "dispatch") /\ events' = events \cup {note[d].payment}
  BY <1>1 DEF Claim
<1>4. UNCHANGED <<order, paymentStatus>>
  BY <1>1 DEF Claim, orders
<1>5. pc' = [pc EXCEPT ![d] = "dispatch"] /\ note' = note
  BY <1>3 DEF Goto
<1>6. ASSUME NEW e \in Handlers, NEW p \in Payments
      PROVE  IF e = d THEN /\ Owns(e, p)' <=> p = note[d].payment
                           /\ ~Owns(e, p)
             ELSE (Owns(e, p)' <=> Owns(e, p)) /\ (Undecided(e, p)' <=> Undecided(e, p))
  BY <1>1, <1>5 DEF TypeOK, Owns, Undecided, OwnerSteps
<1> QED BY <1>2, <1>3, <1>4, <1>6

LEMMA ClaimExclusiveStep == TypeOK /\ ClaimExclusive /\ [Next]_vars => ClaimExclusive'
<1> SUFFICES ASSUME TypeOK, ClaimExclusive, [Next]_vars PROVE ClaimExclusive'
  OBVIOUS
<1>1. ASSUME OwnersOnlyLeave, events' = events PROVE ClaimExclusive'
  BY <1>1 DEF OwnersOnlyLeave, ClaimExclusive
<1>2. ASSUME NEW d \in Handlers, Wins(d) PROVE ClaimExclusive'
  BY <1>2, WinnerOwns DEF ClaimExclusive
<1> QED BY <1>1, <1>2, NextIsWorkOrOutside, OutsideOwners, WorkOwners

(* However deliveries overlap, one handler at most works on a payment.       *)
THEOREM ExclusiveClaims == Spec => []ClaimExclusive
<1>1. Init => ClaimExclusive
  BY DEF Init, ClaimExclusive, Owns, OwnerSteps
<1> QED BY <1>1, CheckoutTypes, ClaimExclusiveStep, PTL DEF Spec

-----------------------------------------------------------------------------
(* The outcome of a payment *)

OrderedAreClaimed == \A p \in Payments : order[p] # NoCart => p \in events

UndecidedHaveNoOrder ==
  \A d \in Handlers, p \in Payments : Undecided(d, p) => order[p] = NoCart

NeverRejected == \A p \in Payments : paymentStatus[p] # "rejected"

(* OneOutcome is inductive together with what an owner knows before it       *)
(* decides: it is alone (ClaimExclusive), so no order can be there yet.      *)
OutcomeInv == OrderedAreClaimed /\ UndecidedHaveNoOrder /\ NeverRejected

LEMMA OutcomeStep ==
  TypeOK /\ ClaimExclusive /\ OutcomeInv /\ [Next]_vars => OutcomeInv'
<1> SUFFICES ASSUME TypeOK, ClaimExclusive, OutcomeInv, [Next]_vars PROVE OutcomeInv'
  OBVIOUS
<1> USE DEF OutcomeInv
<1>1. ASSUME OwnersOnlyLeave, events' = events, UNCHANGED <<order, paymentStatus>>
      PROVE  OutcomeInv'
  BY <1>1 DEF OwnersOnlyLeave, OrderedAreClaimed, UndecidedHaveNoOrder, NeverRejected
<1>2. ASSUME NEW d \in Handlers, Wins(d) PROVE OutcomeInv'
  <2>1. OrderedAreClaimed' /\ NeverRejected'
    BY <1>2, WinnerOwns DEF OrderedAreClaimed, NeverRejected
  <2>2. order[note[d].payment] = NoCart
    BY <1>2, WinnerOwns DEF OrderedAreClaimed
  <2>3. UndecidedHaveNoOrder'
    BY <1>2, <2>2, WinnerOwns DEF UndecidedHaveNoOrder, Undecided
  <2> QED BY <2>1, <2>3
<1>3. ASSUME NEW d \in Handlers, Work(d), ~Wins(d) PROVE OutcomeInv'
  <2>1. OwnersOnlyLeave /\ events' = events
    BY <1>3, WorkOwners
  <2>2. CASE PlaceOrder(d)
    <3>0. PICK p \in Payments : p = note[d].payment
      BY <2>2 DEF PlaceOrder, TypeOK, Notes
    <3>1. Owns(d, p) /\ p \in events
      BY <2>2, <3>0 DEF PlaceOrder, TypeOK, Owns, OwnerSteps, ClaimExclusive
    <3>2. /\ \A q \in Payments \ {p} : order'[q] = order[q]
          /\ \A q \in Payments : paymentStatus'[q] \in {paymentStatus[q], "pending"}
      BY <2>2, <3>0 DEF PlaceOrder, TypeOK, orders
    <3>3. \A e \in Handlers : ~Undecided(e, p)'
      <4>1. \A e \in Handlers \ {d} : ~Owns(e, p)
        BY <3>1 DEF ClaimExclusive
      <4>2. pc'[d] = "clearing"
        BY <2>2 DEF PlaceOrder, Goto, TypeOK
      <4> QED BY <2>1, <3>1, <4>1, <4>2 DEF OwnersOnlyLeave, Undecided, Owns, OwnerSteps
    <3>4. OrderedAreClaimed' /\ NeverRejected'
      BY <2>1, <3>1, <3>2 DEF OrderedAreClaimed, NeverRejected
    <3>5. UndecidedHaveNoOrder'
      BY <2>1, <3>2, <3>3 DEF UndecidedHaveNoOrder, OwnersOnlyLeave
    <3> QED BY <3>4, <3>5
  <2>3. CASE RejectExistingOrder(d)
    <3>1. note[d].payment \in Payments /\ Undecided(d, note[d].payment)
      BY <2>3 DEF RejectExistingOrder, TypeOK, Notes, Undecided, Owns, OwnerSteps
    <3>2. UNCHANGED <<order, paymentStatus>>
      BY <2>3, <3>1 DEF RejectExistingOrder, UndecidedHaveNoOrder
    <3> QED BY <1>1, <2>1, <3>2
  <2>4. CASE ~PlaceOrder(d) /\ ~RejectExistingOrder(d)
    <3>1. UNCHANGED <<order, paymentStatus>>
      BY <1>3, <2>4 DEF Work, LookupEvent, Claim, FetchPayment, LoadForOrder, RefuseOrder,
                        LoadForRejection, ClearCart, ForgetSnapshot, orders
    <3> QED BY <1>1, <2>1, <3>1
  <2> QED BY <2>2, <2>3, <2>4
<1> QED BY <1>1, <1>2, <1>3, NextIsWorkOrOutside, OutsideOwners

LEMMA OutcomeInvariant == Spec => []OutcomeInv
<1>1. Init => OutcomeInv
  BY DEF Init, OutcomeInv, OrderedAreClaimed, UndecidedHaveNoOrder, NeverRejected
<1> QED BY <1>1, CheckoutTypes, ExclusiveClaims, OutcomeStep, PTL DEF Spec

(* No order is placed and also rejected: the branch of the rejection handler *)
(* for an existing order is dead code.                                       *)
THEOREM SingleOutcome == Spec => []OneOutcome
<1>1. OutcomeInv => OneOutcome
  BY DEF OutcomeInv, OneOutcome, NeverRejected, UndecidedHaveNoOrder, Undecided
<1> QED BY <1>1, OutcomeInvariant, PTL

-----------------------------------------------------------------------------
(* The items and the amount of an order *)

OpenedAreReturned ==
  \A p \in Payments : mp[p] # "none" => stage[PreferenceOf[p]] = "returned"

SnapshotsMatch ==
  \A c \in Checkouts :
    /\ stage[c] \in {"created", "returned"} /\ c \notin edited => object[c] = items[c]
    /\ c \notin edited => redisSnapshot[c] \in {NoCart, items[c]}
    /\ redisSnapshot[c] # NoCart \/ c \in memorySnapshots => stage[c] = "returned"

ApprovalSeen ==
  \A d \in Handlers, p \in Payments :
    Owns(d, p) /\ pc[d] \in {"approved", "ordering"} => mp[p] \in Honoured

LoadedMatches ==
  \A d \in Handlers, p \in Payments :
    Owns(d, p) /\ pc[d] = "ordering" =>
      /\ loaded[d] = items[PreferenceOf[p]] \/ PreferenceOf[p] \in edited
      /\ Cost[loaded[d]] = paid[p]

(* OrderMatchesPayment is inductive together with where the items come from: *)
(* the snapshot is the preference's, and what a handler has loaded passed    *)
(* the comparison with the amount of a payment it saw approved.              *)
AmountInv ==
  OpenedAreReturned /\ SnapshotsMatch /\ ApprovalSeen /\ LoadedMatches /\ OrderMatchesPayment

(* What nobody changes about an approved payment. *)
ApprovalsKept ==
  /\ edited \subseteq edited'
  /\ \A p \in Payments : mp[p] \in Honoured =>
       /\ mp'[p] \in Honoured
       /\ paid'[p] = paid[p]
       /\ items'[PreferenceOf[p]] = items[PreferenceOf[p]]

LEMMA CustomerAmounts ==
  ASSUME TypeOK, AmountInv, NEW c \in Checkouts, CustomerStep(c)
  PROVE  ApprovalsKept /\ OpenedAreReturned' /\ SnapshotsMatch'
<1> USE DEF AmountInv, OpenedAreReturned, SnapshotsMatch, ApprovalsKept, provider
<1>1. CASE EditCart(c)
  <2>1. /\ \A b \in Checkouts \ {c} : object'[b] = object[b]
        /\ \/ object' = object /\ edited' = edited
           \/ edited' = IF stage[c] \in {"created", "returned"} THEN edited \cup {c} ELSE edited
        /\ UNCHANGED <<stage, items, mp, paid, redisSnapshot, memorySnapshots>>
    BY <1>1 DEF EditCart, TypeOK, snapshots
  <2> QED BY <2>1
<1>6. CASE EmptyCart(c)
  BY <1>6 DEF EmptyCart, snapshots
<1>2. CASE ReadCart(c)
  <2>1. /\ stage[c] = "idle"
        /\ \A b \in Checkouts \ {c} : stage'[b] = stage[b] /\ object'[b] = object[b]
        /\ stage'[c] \in {"validated", "failed"}
        /\ UNCHANGED <<items, edited, mp, paid, redisSnapshot, memorySnapshots>>
    BY <1>2 DEF ReadCart, TypeOK, snapshots
  <2> QED BY <2>1 DEF Honoured
<1>3. CASE CreatePreference(c)
  <2>1. /\ stage[c] = "validated"
        /\ \A b \in Checkouts \ {c} : stage'[b] = stage[b] /\ items'[b] = items[b]
        /\ \/ stage'[c] = "created" /\ items'[c] = object[c]
           \/ stage'[c] = "failed" /\ items'[c] = items[c]
        /\ UNCHANGED <<object, edited, mp, paid, redisSnapshot, memorySnapshots>>
    BY <1>3 DEF CreatePreference, TypeOK, snapshots
  <2> QED BY <2>1 DEF Honoured
<1>4. CASE StoreSnapshot(c)
  <2>1. /\ redisSnapshot' \in {redisSnapshot, [redisSnapshot EXCEPT ![c] = object[c]]}
        /\ memorySnapshots' \in {memorySnapshots, memorySnapshots \cup {c}}
    BY <1>4, Zenon DEF StoreSnapshot
  <2>2. /\ stage[c] = "created" /\ stage' = [stage EXCEPT ![c] = "returned"]
        /\ UNCHANGED <<object, items, edited, mp, paid>>
    BY <1>4 DEF StoreSnapshot
  <2> QED BY <2>1, <2>2 DEF TypeOK
<1>5. CASE ExpireSnapshot(c)
  BY <1>5 DEF ExpireSnapshot, TypeOK, customerVars
<1> QED BY <1>1, <1>2, <1>3, <1>4, <1>5, <1>6 DEF CustomerStep

LEMMA ProviderAmounts ==
  ASSUME TypeOK, AmountInv, NEW p \in Payments, MovePayment(p)
  PROVE  ApprovalsKept /\ OpenedAreReturned' /\ SnapshotsMatch'
<1>1. PICK to \in Statuses : <<mp[p], to>> \in Moves /\ mp' = [mp EXCEPT ![p] = to]
  BY DEF MovePayment
<1>2. mp[p] \in Honoured => to \in Honoured
  BY <1>1
<1>3. /\ stage[PreferenceOf[p]] = "returned"
      /\ \A q \in Payments : mp[q] # "none" => paid'[q] = paid[q]
      /\ UNCHANGED <<stage, object, items, edited, redisSnapshot, memorySnapshots>>
  BY DEF MovePayment, Charge, TypeOK, customerVars, snapshots
<1>4. ApprovalsKept
  BY <1>1, <1>2, <1>3 DEF ApprovalsKept, TypeOK, Honoured
<1> QED BY <1>1, <1>3, <1>4 DEF AmountInv, OpenedAreReturned, SnapshotsMatch, TypeOK

LEMMA KeptByOthers ==
  ASSUME AmountInv, UNCHANGED <<stage, object, items, edited, mp, paid>>,
         \A c \in Checkouts : redisSnapshot'[c] \in {NoCart, redisSnapshot[c]},
         memorySnapshots' \subseteq memorySnapshots
  PROVE  ApprovalsKept /\ OpenedAreReturned' /\ SnapshotsMatch'
BY DEF AmountInv, ApprovalsKept, OpenedAreReturned, SnapshotsMatch

LEMMA WorkAmounts ==
  ASSUME TypeOK, AmountInv, NEW d \in Handlers, Work(d)
  PROVE  ApprovalsKept /\ OpenedAreReturned' /\ SnapshotsMatch'
<1>1. UNCHANGED <<stage, object, items, edited, mp, paid>>
  BY DEF Work, LookupEvent, Claim, FetchPayment, LoadForOrder, RefuseOrder, PlaceOrder,
         LoadForRejection, RejectExistingOrder, ClearCart, ForgetSnapshot, customerVars, provider
<1>2. CASE ForgetSnapshot(d)
  <2> DEFINE c == Preference(d)
  <2>1. /\ redisSnapshot' \in {redisSnapshot, [redisSnapshot EXCEPT ![c] = NoCart]}
        /\ memorySnapshots' \in {memorySnapshots, memorySnapshots \ {c}}
    BY <1>2, Zenon DEF ForgetSnapshot
  <2> HIDE DEF c
  <2>2. /\ \A b \in Checkouts : redisSnapshot'[b] \in {NoCart, redisSnapshot[b]}
        /\ memorySnapshots' \subseteq memorySnapshots
    BY <2>1 DEF TypeOK
  <2> QED BY <1>1, <2>2, KeptByOthers
<1>3. CASE ~ForgetSnapshot(d)
  <2>1. UNCHANGED <<redisSnapshot, memorySnapshots>>
    BY <1>3 DEF Work, LookupEvent, Claim, FetchPayment, LoadForOrder, RefuseOrder, PlaceOrder,
                LoadForRejection, RejectExistingOrder, ClearCart, snapshots
  <2> QED BY <1>1, <2>1, KeptByOthers
<1> QED BY <1>2, <1>3

LEMMA OutsideAmounts ==
  ASSUME TypeOK, AmountInv, Outside
  PROVE  ApprovalsKept /\ OpenedAreReturned' /\ SnapshotsMatch'
<1>1. CASE LoseRedis \/ RegainRedis \/ UNCHANGED vars
  <2>1. UNCHANGED <<stage, object, items, edited, mp, paid, redisSnapshot, memorySnapshots>>
    BY <1>1 DEF LoseRedis, RegainRedis, vars, customerVars, snapshots, provider
  <2> QED BY <2>1, KeptByOthers
<1>2. ASSUME NEW d \in Handlers,
             Timeout(d) \/ FailCall(d) \/ (\E n \in Notes : Deliver(d, n) \/ DeliverLate(d, n))
      PROVE  UNCHANGED <<stage, object, items, edited, mp, paid, redisSnapshot, memorySnapshots>>
  BY <1>2 DEF Timeout, FailCall, Deliver, DeliverLate, Start, customerVars, snapshots, provider
<1>3. CASE Crash
  <2>1. /\ UNCHANGED <<object, items, edited, mp, paid, redisSnapshot>>
        /\ memorySnapshots' = {}
        /\ \A c \in Checkouts : stage'[c] = IF stage[c] \in {"validated", "created"}
                                            THEN "failed" ELSE stage[c]
    BY <1>3 DEF Crash, provider
  <2> QED BY <2>1 DEF AmountInv, ApprovalsKept, OpenedAreReturned, SnapshotsMatch
<1>4. ASSUME NEW k \in Products, HideProduct(k) \/ ShowProduct(k)
      PROVE  UNCHANGED <<stage, object, items, edited, mp, paid, redisSnapshot, memorySnapshots>>
  BY <1>4 DEF HideProduct, ShowProduct, customerVars, snapshots, provider
<1> QED BY <1>1, <1>2, <1>3, <1>4, CustomerAmounts, ProviderAmounts, KeptByOthers DEF Outside

(* What a handler knows stays true while it goes no further. *)
LEMMA KnowledgeKept ==
  ASSUME TypeOK, AmountInv, ApprovalsKept, order' = order,
         \A d \in Handlers, p \in Payments :
           Owns(d, p)' /\ pc'[d] \in {"approved", "ordering"} =>
             Owns(d, p) /\ pc'[d] = pc[d] /\ loaded'[d] = loaded[d]
  PROVE  ApprovalSeen' /\ LoadedMatches' /\ OrderMatchesPayment'
<1>1. ApprovalSeen'
  BY DEF AmountInv, ApprovalsKept, ApprovalSeen
<1>2. LoadedMatches'
  BY DEF AmountInv, ApprovalsKept, ApprovalSeen, LoadedMatches
<1>3. OrderMatchesPayment'
  BY DEF AmountInv, ApprovalsKept, OrderMatchesPayment
<1> QED BY <1>1, <1>2, <1>3

LEMMA WorkKnowledge ==
  ASSUME TypeOK, AmountInv, NEW d \in Handlers, Work(d)
  PROVE  ApprovalSeen' /\ LoadedMatches' /\ OrderMatchesPayment'
<1> USE DEF TypeOK, Owns, OwnerSteps
<1>0. ApprovalsKept
  BY WorkAmounts
<1>1. CASE FetchPayment(d)
  <2>1. order' = order /\ UNCHANGED <<items, edited, paid, mp>>
    BY <1>1 DEF FetchPayment, customerVars, provider, orders
  <2>2. ASSUME NEW e \in Handlers, NEW p \in Payments,
               Owns(e, p)', pc'[e] \in {"approved", "ordering"}
        PROVE  /\ mp'[p] \in Honoured
               /\ pc'[e] = "ordering" => e # d
    <3>1. CASE e = d
      BY <1>1, <2>1, <2>2, <3>1 DEF FetchPayment, Reply, Goto, Honoured
    <3>2. CASE e # d
      BY <1>1, <2>1, <2>2, <3>2 DEF FetchPayment, Reply, Goto, AmountInv, ApprovalSeen
    <3> QED BY <3>1, <3>2
  <2>3. \A e \in Handlers \ {d} : pc'[e] = pc[e] /\ note'[e] = note[e] /\ loaded'[e] = loaded[e]
    BY <1>1 DEF FetchPayment, Reply, Goto
  <2>4. ApprovalSeen'
    BY <2>2 DEF ApprovalSeen
  <2>5. LoadedMatches'
    <3>1. ASSUME NEW e \in Handlers, NEW p \in Payments, Owns(e, p)', pc'[e] = "ordering"
          PROVE  Owns(e, p) /\ pc[e] = "ordering" /\ loaded'[e] = loaded[e]
      BY <2>2, <2>3, <3>1
    <3> HIDE DEF TypeOK, Owns
    <3> QED BY <2>1, <3>1 DEF LoadedMatches, AmountInv
  <2>6. OrderMatchesPayment'
    BY <2>1 DEF OrderMatchesPayment, AmountInv
  <2> QED BY <2>4, <2>5, <2>6
<1>2. CASE LoadForOrder(d)
  <2>1. order' = order /\ UNCHANGED <<items, edited, paid, mp>>
    BY <1>2 DEF LoadForOrder, customerVars, provider, orders
  <2>2. \A e \in Handlers \ {d} : pc'[e] = pc[e] /\ note'[e] = note[e] /\ loaded'[e] = loaded[e]
    BY <1>2 DEF LoadForOrder, Reply, Goto
  <2>3. PICK p \in Payments : p = note[d].payment
    BY <1>2 DEF LoadForOrder, Notes
  <2>4. mp[p] \in Honoured
    BY <1>2, <2>3 DEF LoadForOrder, AmountInv, ApprovalSeen
  <2>5. CASE pc'[d] = "ordering"
    <3>1. /\ loaded'[d] = Snapshot(PreferenceOf[p])
          /\ loaded'[d] # NoCart /\ Cost[loaded'[d]] = paid[p]
          /\ note' = note
      BY <1>2, <2>3, <2>5 DEF LoadForOrder, Reply, Goto, Preference, AmountMatches
    <3>2. loaded'[d] = items[PreferenceOf[p]] \/ PreferenceOf[p] \in edited
      BY <3>1 DEF AmountInv, SnapshotsMatch, Snapshot
    <3>3. ApprovalSeen'
      BY <2>1, <2>2, <2>3, <2>4, <3>1 DEF AmountInv, ApprovalSeen
    <3>4. ASSUME NEW e \in Handlers, NEW q \in Payments, Owns(e, q)', pc'[e] = "ordering"
          PROVE  /\ loaded'[e] = items'[PreferenceOf[q]] \/ PreferenceOf[q] \in edited'
                 /\ Cost[loaded'[e]] = paid'[q]
      <4>1. CASE e = d
        <5>1. q = p
          BY <2>3, <3>1, <3>4, <4>1
        <5> QED BY <2>1, <3>1, <3>2, <4>1, <5>1
      <4>2. CASE e # d
        <5>1. Owns(e, q) /\ pc[e] = "ordering" /\ loaded'[e] = loaded[e]
          BY <2>2, <3>4, <4>2
        <5> QED BY <2>1, <5>1 DEF AmountInv, LoadedMatches
      <4> QED BY <4>1, <4>2
    <3>5. LoadedMatches'
      BY <3>4 DEF LoadedMatches
    <3> QED BY <2>1, <3>3, <3>5 DEF AmountInv, OrderMatchesPayment
  <2>6. CASE pc'[d] # "ordering"
    <3>1. pc'[d] \in {"idle", "forgetting"}
      BY <1>2, <2>6 DEF LoadForOrder, Reply, Goto
    <3> QED BY <1>0, <2>1, <2>2, <3>1, KnowledgeKept
  <2> QED BY <2>5, <2>6
<1>3. CASE PlaceOrder(d)
  <2>1. UNCHANGED <<items, edited, paid, mp>>
    BY <1>3 DEF PlaceOrder, customerVars, provider
  <2>2. \A e \in Handlers \ {d} : pc'[e] = pc[e] /\ note'[e] = note[e] /\ loaded'[e] = loaded[e]
    BY <1>3 DEF PlaceOrder, Goto
  <2>3. pc'[d] = "clearing"
    BY <1>3 DEF PlaceOrder, Goto
  <2>10. ASSUME NEW e \in Handlers, NEW q \in Payments,
                Owns(e, q)', pc'[e] \in {"approved", "ordering"}
         PROVE  Owns(e, q) /\ pc[e] = pc'[e] /\ loaded'[e] = loaded[e]
    BY <2>2, <2>3, <2>10
  <2>4. ApprovalSeen'
    <3> HIDE DEF TypeOK, Owns
    <3> QED BY <2>1, <2>10 DEF AmountInv, ApprovalSeen
  <2>5. LoadedMatches'
    <3> HIDE DEF TypeOK, Owns
    <3> QED BY <2>1, <2>10 DEF AmountInv, LoadedMatches
  <2>6. PICK p \in Payments : p = note[d].payment
    BY <1>3 DEF PlaceOrder, Notes
  <2>7. /\ loaded[d] = items[PreferenceOf[p]] \/ PreferenceOf[p] \in edited
        /\ Cost[loaded[d]] = paid[p] /\ mp[p] \in Honoured
    BY <1>3, <2>6 DEF PlaceOrder, AmountInv, LoadedMatches, ApprovalSeen
  <2>8. \A q \in Payments : order'[q] = order[q] \/ (q = p /\ order'[q] = loaded[d])
    BY <1>3, <2>6 DEF PlaceOrder, orders
  <2>9. OrderMatchesPayment'
    BY <2>1, <2>7, <2>8 DEF AmountInv, OrderMatchesPayment
  <2> QED BY <2>4, <2>5, <2>9
<1>4. CASE ~FetchPayment(d) /\ ~LoadForOrder(d) /\ ~PlaceOrder(d)
  <2>1. order' = order
    BY <1>4 DEF Work, LookupEvent, Claim, RefuseOrder, LoadForRejection,
                RejectExistingOrder, ClearCart, ForgetSnapshot, orders
  <2>2. /\ pc'[d] \notin {"approved", "ordering"}
        /\ \A e \in Handlers \ {d} : pc'[e] = pc[e] /\ note'[e] = note[e] /\ loaded'[e] = loaded[e]
    BY <1>4 DEF Work, LookupEvent, Claim, RefuseOrder, LoadForRejection,
                RejectExistingOrder, ClearCart, ForgetSnapshot, Reply, Goto
  <2> QED BY <1>0, <2>1, <2>2, KnowledgeKept
<1> QED BY <1>1, <1>2, <1>3, <1>4

LEMMA OutsideKnowledge ==
  ASSUME TypeOK, AmountInv, Outside
  PROVE  ApprovalSeen' /\ LoadedMatches' /\ OrderMatchesPayment'
<1>1. ApprovalsKept /\ order' = order
  BY OutsideAmounts, OutsideOwners
<1> DEFINE Still ==
      \A d \in Handlers : pc'[d] \in {"approved", "ordering"} =>
        pc'[d] = pc[d] /\ note'[d] = note[d] /\ loaded'[d] = loaded[d]
<1>2. ASSUME UNCHANGED handlerVars PROVE Still
  BY <1>2 DEF handlerVars
<1>3. ASSUME NEW c \in Checkouts, CustomerStep(c) PROVE Still
  <2>1. UNCHANGED handlerVars
    BY <1>3 DEF CustomerStep, EditCart, EmptyCart, ReadCart, CreatePreference, StoreSnapshot, ExpireSnapshot
  <2> QED BY <2>1, <1>2
<1>4. ASSUME NEW p \in Payments, MovePayment(p) PROVE Still
  BY <1>2, <1>4 DEF MovePayment
<1>5. ASSUME NEW d \in Handlers,
             Timeout(d) \/ FailCall(d) \/ (\E n \in Notes : Deliver(d, n) \/ DeliverLate(d, n))
      PROVE  Still
  BY <1>5 DEF Timeout, FailCall, Deliver, DeliverLate, Start, Reply, TypeOK
<1>6. ASSUME LoseRedis \/ RegainRedis \/ UNCHANGED vars PROVE Still
  BY <1>2, <1>6 DEF LoseRedis, RegainRedis, vars
<1>7. ASSUME Crash PROVE Still
  BY <1>7 DEF Crash
<1>9. ASSUME NEW k \in Products, HideProduct(k) \/ ShowProduct(k) PROVE Still
  BY <1>2, <1>9 DEF HideProduct, ShowProduct
<1>8. Still
  BY <1>3, <1>4, <1>5, <1>6, <1>7, <1>9 DEF Outside
<1> QED BY <1>1, <1>8, KnowledgeKept DEF Owns

LEMMA AmountInvariant == Spec => []AmountInv
<1>1. Init => AmountInv
  BY DEF Init, AmountInv, OpenedAreReturned, SnapshotsMatch, ApprovalSeen, LoadedMatches,
         OrderMatchesPayment, Owns, OwnerSteps
<1>2. TypeOK /\ AmountInv /\ [Next]_vars => AmountInv'
  BY NextIsWorkOrOutside, WorkAmounts, WorkKnowledge, OutsideAmounts, OutsideKnowledge
     DEF AmountInv
<1> QED BY <1>1, <1>2, CheckoutTypes, PTL DEF Spec

(* An order has the items of the preference its payment was made for, they   *)
(* cost what was paid, and the payment was approved.                         *)
THEOREM OrdersMatchPayments == Spec => []OrderMatchesPayment
<1>1. AmountInv => OrderMatchesPayment
  BY DEF AmountInv
<1> QED BY <1>1, AmountInvariant, PTL

-----------------------------------------------------------------------------
(* The webhook implements PaymentSettlement *)

settledNow == [p \in Payments |-> Settled(p)]

(* A step in which no order is placed and no claim won is a Drop, of no      *)
(* payment at all when no owner left.                                        *)
LEMMA LeavingDrops ==
  ASSUME OwnersOnlyLeave, UNCHANGED <<events, order>>
  PROVE  Settlement!Next
<1> DEFINE gone == {p \in Payments : Settled(p) = "claimed" /\ Settled(p)' = "dropped"}
<1>1. ASSUME NEW p \in Payments
      PROVE  Settled(p)' = IF p \in gone THEN "dropped" ELSE Settled(p)
  BY DEF Settled, OwnersOnlyLeave
<1>2. \A p \in gone : settledNow[p] = "claimed"
  BY DEF settledNow
<1>3. settledNow' = [p \in Payments |-> IF p \in gone THEN "dropped" ELSE settledNow[p]]
  <2> HIDE DEF gone
  <2> QED BY <1>1 DEF settledNow
<1>4. gone \in SUBSET Payments
  OBVIOUS
<1> HIDE DEF gone
<1>5. Settlement!Drop(gone)
  BY <1>2, <1>3 DEF Settlement!Drop, settledNow
<1> QED BY <1>4, <1>5 DEF Settlement!Next

LEMMA WinningClaims ==
  ASSUME TypeOK, ClaimExclusive, OutcomeInv, NEW d \in Handlers, Wins(d)
  PROVE  Settlement!Next
<1>1. PICK p \in Payments : p = note[d].payment
  BY WinnerOwns
<1>2. Settled(p) = "open"
  BY <1>1, WinnerOwns DEF Settled, OutcomeInv, OrderedAreClaimed
<1>3. Settled(p)' = "claimed"
  <2>1. Owns(d, p)' /\ order'[p] = NoCart /\ p \in events'
    BY <1>1, WinnerOwns DEF OutcomeInv, OrderedAreClaimed
  <2> QED BY <2>1 DEF Settled
<1>4. ASSUME NEW q \in Payments \ {p} PROVE Settled(q)' = Settled(q)
  <2>1. \A e \in Handlers : Owns(e, q)' <=> Owns(e, q)
    BY <1>1, WinnerOwns
  <2>2. (q \in events' <=> q \in events) /\ order' = order
    BY <1>1, WinnerOwns
  <2> QED BY <2>1, <2>2 DEF Settled
<1>5. settledNow' = [settledNow EXCEPT ![p] = "claimed"]
  BY <1>3, <1>4 DEF settledNow
<1> QED BY <1>2, <1>5 DEF Settlement!Next, Settlement!Claim, settledNow

LEMMA PlacingOrders ==
  ASSUME TypeOK, ClaimExclusive, OutcomeInv, NEW d \in Handlers, PlaceOrder(d)
  PROVE  Settlement!Next
<1>1. PICK p \in Payments : p = note[d].payment
  BY DEF PlaceOrder, TypeOK, Notes
<1>2. Owns(d, p) /\ Undecided(d, p)
  BY <1>1 DEF PlaceOrder, TypeOK, Undecided, Owns, OwnerSteps
<1>3. OwnersOnlyLeave /\ events' = events
  BY WorkOwners DEF Work, PlaceOrder, Wins, Claim
<1>4. p \in events /\ order[p] = NoCart
  BY <1>2 DEF ClaimExclusive, OutcomeInv, UndecidedHaveNoOrder
<1>5. order' = [order EXCEPT ![p] = loaded[d]]
  BY <1>1, <1>4 DEF PlaceOrder
<1>6. loaded[d] # NoCart
  BY DEF PlaceOrder, TypeOK
<1>7. Settled(p) = "claimed"
  BY <1>2, <1>4 DEF Settled
<1>8. Settled(p)' = "ordered"
  BY <1>5, <1>6 DEF Settled, TypeOK
<1>9. ASSUME NEW q \in Payments \ {p} PROVE Settled(q)' = Settled(q)
  <2>1. \A e \in Handlers : Owns(e, q)' <=> Owns(e, q)
    BY <1>1 DEF PlaceOrder, Goto, TypeOK, Owns, OwnerSteps
  <2> QED BY <1>3, <1>5, <2>1 DEF Settled, TypeOK
<1>10. settledNow' = [settledNow EXCEPT ![p] = "ordered"]
  BY <1>8, <1>9 DEF settledNow
<1> QED BY <1>7, <1>10 DEF Settlement!Next, Settlement!Order, settledNow

LEMMA SettlementStep ==
  TypeOK /\ ClaimExclusive /\ OutcomeInv /\ [Next]_vars => Settlement!Next
<1> SUFFICES ASSUME TypeOK, ClaimExclusive, OutcomeInv, [Next]_vars
             PROVE  Settlement!Next
  OBVIOUS
<1>1. ASSUME NEW d \in Handlers, Work(d), ~Wins(d), ~PlaceOrder(d) PROVE Settlement!Next
  <2>1. order' = order
    BY <1>1 DEF Work, LookupEvent, Claim, FetchPayment, LoadForOrder, RefuseOrder,
                LoadForRejection, RejectExistingOrder, ClearCart, ForgetSnapshot, orders
  <2> QED BY <1>1, <2>1, WorkOwners, LeavingDrops
<1>2. ASSUME Outside PROVE Settlement!Next
  BY <1>2, OutsideOwners, LeavingDrops
<1> QED BY <1>1, <1>2, NextIsWorkOrOutside, WinningClaims, PlacingOrders

(* A payment is claimed at most once; the handler that claimed it places its *)
(* one order or drops it for good, whatever repeats, overlaps or crashes.    *)
THEOREM WebhookSettlesOnce == Spec => SettlesOnce
<1>1. Init => Settlement!Init
  BY DEF Init, Settlement!Init, Settled
<1>2. TypeOK /\ ClaimExclusive /\ OutcomeInv /\ [Next]_vars
        => [Settlement!Next]_settledNow
  BY SettlementStep
<1> QED BY <1>1, <1>2, CheckoutTypes, ExclusiveClaims, OutcomeInvariant, PTL
        DEF Spec, SettlesOnce, Settlement!Spec, settledNow

=============================================================================
