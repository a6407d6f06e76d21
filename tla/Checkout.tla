------------------------------ MODULE Checkout ------------------------------
(***************************************************************************)
(* From the checkout mutation to the order: createCheckout                 *)
(* (src/src/modules/checkout/service.ts), the cart snapshots               *)
(* (src/src/modules/cart/service.ts) and the Mercado Pago webhook          *)
(* (src/src/modules/checkout/webhook.handler.ts).                          *)
(*                                                                         *)
(* A handler is one running call of handleWebhook.  It is an async         *)
(* function: other handlers, customers and Mercado Pago move between any   *)
(* two of its awaits, and every step below is what it does from one await  *)
(* to the next.  A preference is named by the createCheckout call that     *)
(* made it; the contents of a cart are how much of each product is in it.  *)
(***************************************************************************)
EXTENDS Integers, FiniteSets

CONSTANTS
  Checkouts,     \* calls of createCheckout; also the preferences they create
  Guests,        \* those made without a signed-in user
  Payments,      \* payments the customers may open at Mercado Pago
  PreferenceOf,  \* PreferenceOf[p]: the preference payment p is made for
  Moves,         \* the status changes <<from, to>> Mercado Pago makes
  Surcharges,    \* what a payment may differ from the preference's total by
  Payloads,      \* what Mercado Pago may put in the body of a notification
  Handlers,      \* webhook calls that run at the same time
  Products,      \* products, all in the same branch
  Contents,      \* what may be in a cart: a bound on quantities and products
  Cost,          \* Cost[x]: total of the contents x at the prices of the day
  NoCart,        \* where there is no snapshot, or no order
  InitialStock,  \* units of each product when the behaviour starts
  SumAnswers,    \* what the database may do with SELECT SUM(..) .. FOR UPDATE
  Faults,        \* kinds of mishap that may happen
  MaxFaults      \* bound on the number of mishaps

(* "rejected" also stands for cancelled before approval, "cancelled" for an  *)
(* approval taken back; the statuses the webhook has no branch for do what   *)
(* "pending" does.                                                           *)
Statuses == {"none", "pending", "approved", "rejected", "cancelled", "refunded"}

(* What an approved payment can be, then and later. *)
Honoured == {"approved", "refunded", "cancelled"}

Notes == [payment: Payments, status: Statuses \ {"none"}]
NoNote == [payment |-> "none", status |-> "none"]
Empty == [k \in Products |-> 0]
Snapshots == Contents \cup {NoCart}
FaultKinds == {"crash", "call", "timeout", "duplicate", "redis", "expiry", "hide",
               "amount"}

ASSUME CheckoutConstants ==
  /\ Guests \subseteq Checkouts
  /\ PreferenceOf \in [Payments -> Checkouts]
  /\ "none" \notin Payments
  /\ Moves \subseteq (Statuses \X (Statuses \ {"none"}))
  /\ \A move \in Moves : move[1] \in Honoured => move[2] \in Honoured
  /\ Surcharges \subseteq Int
  /\ Payloads \subseteq {"full", "bare", "status"}
  /\ Contents \subseteq [Products -> Nat]
  /\ Empty \in Contents
  /\ NoCart \notin Contents
  /\ Cost \in [Contents -> Nat]
  /\ InitialStock \in Nat
  /\ SumAnswers \subseteq {"accepts", "refuses"}
  /\ Faults \subseteq FaultKinds
  /\ MaxFaults \in Nat

VARIABLES
  redisUp,        \* what isRedisAvailable answers
  cart,           \* cart[c]: contents of the cart of the customer of call c
  stage,          \* stage[c]: progress of createCheckout call c
  object,         \* object[c]: contents of the Cart object call c has read
  live,           \* calls whose Cart object is the one in memoryCarts
  items,          \* items[c]: the items in the preference
  edited,         \* history: calls whose object was edited after that
  redisSnapshot,  \* redisSnapshot[c]: checkout:{tenant}:snapshot:{c}
  memorySnapshots, \* calls whose object is in memorySnapshots
  payload,        \* what this Mercado Pago account puts in notifications
  mp,             \* mp[p]: status of payment p at Mercado Pago
  paid,           \* paid[p]: its transaction_amount
  sent,           \* notifications Mercado Pago has to deliver
  acked,          \* those it has received a 200 for
  events,         \* payments with a WebhookEvent row (processed = true)
  database,       \* whether it accepts or refuses FOR UPDATE beside an aggregate
  sellable,       \* products that are active and visible
  stock,          \* stock[k]: units left of product k
  order,          \* order[p]: items of the Order with paymentId p
  paymentStatus,  \* paymentStatus[p]: Order.paymentStatus of that order
  refused,        \* history: payments createOrderFromCheckout refused an order
  pc,             \* pc[d]: the next step of handler d
  note,           \* note[d]: the notification it is handling
  loaded,         \* loaded[d]: the items of the snapshot it has read
  answered,       \* answered[d]: the 30 s timeout has sent its 500
  faults          \* mishaps so far

customerVars == <<cart, stage, object, live, items, edited>>
snapshots == <<redisUp, redisSnapshot, memorySnapshots>>
provider == <<payload, mp, paid, sent>>
orders == <<database, sellable, stock, order, paymentStatus, refused>>
handlerVars == <<pc, note, loaded, answered>>
vars == <<customerVars, snapshots, provider, acked, events, orders, handlerVars, faults>>

Init ==
  /\ redisUp = TRUE
  /\ cart \in [Checkouts -> Contents]
  /\ stage = [c \in Checkouts |-> "idle"]
  /\ object = [c \in Checkouts |-> Empty]
  /\ live = {}
  /\ items = [c \in Checkouts |-> Empty]
  /\ edited = {}
  /\ redisSnapshot = [c \in Checkouts |-> NoCart]
  /\ memorySnapshots = {}
  /\ payload \in Payloads
  /\ mp = [p \in Payments |-> "none"]
  /\ paid = [p \in Payments |-> 0]
  /\ sent = {}
  /\ acked = {}
  /\ events = {}
  /\ database \in SumAnswers
  /\ sellable = Products
  /\ stock = [k \in Products |-> InitialStock]
  /\ order = [p \in Payments |-> NoCart]
  /\ paymentStatus = [p \in Payments |-> "none"]
  /\ refused = {}
  /\ pc = [d \in Handlers |-> "idle"]
  /\ note = [d \in Handlers |-> NoNote]
  /\ loaded = [d \in Handlers |-> NoCart]
  /\ answered = [d \in Handlers |-> FALSE]
  /\ faults = 0

(* One more mishap of a kind that may happen. *)
Mishap(kind) ==
  /\ kind \in Faults
  /\ faults < MaxFaults
  /\ faults' = faults + 1

-----------------------------------------------------------------------------
(* The customer *)

(* addToCart, updateCartItem, removeFromCart: only the contents they leave   *)
(* matter here.  In Redis they parse a copy of the cart and store it; in     *)
(* memory they change the object that is in memoryCarts.                     *)
EditCart(c) ==
  /\ \E x \in Contents \ {cart[c]} :
       /\ cart' = [cart EXCEPT ![c] = x]
       /\ IF c \in live /\ ~redisUp
          THEN /\ object' = [object EXCEPT ![c] = x]
               /\ edited' = IF stage[c] \in {"created", "returned"}
                            THEN edited \cup {c} ELSE edited
          ELSE UNCHANGED <<object, edited>>
  /\ UNCHANGED <<stage, live, items, snapshots, provider, acked, events, orders,
                 handlerVars, faults>>

(* clearCart deletes the entry; in memory the object stays with its readers. *)
DeleteCart(c) ==
  /\ cart' = [cart EXCEPT ![c] = Empty]
  /\ live' = IF redisUp THEN live ELSE live \ {c}

EmptyCart(c) ==
  /\ DeleteCart(c)
  /\ UNCHANGED <<stage, object, items, edited, snapshots, provider, acked, events,
                 orders, handlerVars, faults>>

Covers(x) == \A k \in Products : x[k] <= stock[k]

(* createCheckout reads the cart; an empty one, or one validateCartStock    *)
(* refuses, is an error to the customer.                                    *)
ReadCart(c) ==
  /\ stage[c] = "idle"
  /\ IF cart[c] # Empty /\ Covers(cart[c])
     THEN /\ stage' = [stage EXCEPT ![c] = "validated"]
          /\ object' = [object EXCEPT ![c] = cart[c]]
          /\ live' = IF redisUp THEN live ELSE live \cup {c}
     ELSE /\ stage' = [stage EXCEPT ![c] = "failed"]
          /\ UNCHANGED <<object, live>>
  /\ UNCHANGED <<cart, items, edited, snapshots, provider, acked, events, orders,
                 handlerVars, faults>>

(* createPreference answers, or throws, as it does for a list of no items.   *)
CreatePreference(c) ==
  /\ stage[c] = "validated"
  /\ \/ /\ object[c] # Empty
        /\ stage' = [stage EXCEPT ![c] = "created"]
        /\ items' = [items EXCEPT ![c] = object[c]]
     \/ /\ stage' = [stage EXCEPT ![c] = "failed"]
        /\ UNCHANGED items
  /\ UNCHANGED <<cart, object, live, edited, snapshots, provider, acked, events,
                 orders, handlerVars, faults>>

StoreSnapshotAgain(c) ==                \* mutant: the cart is read a second time
  /\ stage[c] = "created"
  /\ stage' = [stage EXCEPT ![c] = "returned"]
  /\ object' = [object EXCEPT ![c] = cart[c]]
  /\ redisSnapshot' = IF redisUp THEN [redisSnapshot EXCEPT ![c] = cart[c]]
                      ELSE redisSnapshot
  /\ memorySnapshots' = IF redisUp THEN memorySnapshots ELSE memorySnapshots \cup {c}
  /\ UNCHANGED <<cart, live, items, edited, redisUp, provider, acked, events, orders,
                 handlerVars, faults>>

(* storeValidatedCartSnapshot: Redis gets a copy, memorySnapshots the object. *)
StoreSnapshot(c) ==
  /\ stage[c] = "created"
  /\ stage' = [stage EXCEPT ![c] = "returned"]
  /\ redisSnapshot' = IF redisUp THEN [redisSnapshot EXCEPT ![c] = object[c]]
                      ELSE redisSnapshot
  /\ memorySnapshots' = IF redisUp THEN memorySnapshots ELSE memorySnapshots \cup {c}
  /\ UNCHANGED <<cart, object, live, items, edited, redisUp, provider, acked, events,
                 orders, handlerVars, faults>>

(* The time to live of a snapshot, 24 h in Redis and 15 min in memory, ends. *)
ExpireSnapshot(c) ==
  /\ Mishap("expiry")
  /\ redisSnapshot[c] # NoCart \/ c \in memorySnapshots
  /\ redisSnapshot' = [redisSnapshot EXCEPT ![c] = NoCart]
  /\ memorySnapshots' = memorySnapshots \ {c}
  /\ UNCHANGED <<customerVars, redisUp, provider, acked, events, orders, handlerVars>>

LoseRedis ==
  /\ redisUp
  /\ Mishap("redis")
  /\ redisUp' = FALSE
  /\ UNCHANGED <<customerVars, redisSnapshot, memorySnapshots, provider, acked,
                 events, orders, handlerVars>>

RegainRedis ==
  /\ ~redisUp
  /\ redisUp' = TRUE
  /\ UNCHANGED <<customerVars, redisSnapshot, memorySnapshots, provider, acked,
                 events, orders, handlerVars, faults>>

(* An admin makes a product inactive or invisible, or takes that back. *)
HideProduct(k) ==
  /\ k \in sellable
  /\ Mishap("hide")
  /\ sellable' = sellable \ {k}
  /\ UNCHANGED <<customerVars, snapshots, provider, acked, events, database, stock,
                 order, paymentStatus, refused, handlerVars>>

ShowProduct(k) ==
  /\ k \notin sellable
  /\ sellable' = sellable \cup {k}
  /\ UNCHANGED <<customerVars, snapshots, provider, acked, events, database, stock,
                 order, paymentStatus, refused, handlerVars, faults>>

-----------------------------------------------------------------------------
(* Mercado Pago *)

(* What Mercado Pago takes for a new payment: the preference's total, or not. *)
Charge(p, total) ==
  \/ paid' = [paid EXCEPT ![p] = total] /\ UNCHANGED faults
  \/ /\ Mishap("amount")
     /\ \E s \in Surcharges : paid' = [paid EXCEPT ![p] = total + s]

(* A payment is opened or changes status, and a notification is due.  The   *)
(* customer has the link of a preference only once createCheckout returns.  *)
MovePayment(p) ==
  /\ stage[PreferenceOf[p]] = "returned"
  /\ \E to \in Statuses :
       /\ <<mp[p], to>> \in Moves
       /\ mp' = [mp EXCEPT ![p] = to]
       /\ sent' = sent \cup {[payment |-> p, status |-> to]}
  /\ IF mp[p] = "none" THEN Charge(p, Cost[items[PreferenceOf[p]]])
     ELSE UNCHANGED <<paid, faults>>
  /\ UNCHANGED <<customerVars, snapshots, payload, acked, events, orders, handlerVars>>

(* A notification reaches handleWebhook with a valid signature. *)
Start(d, n) ==
  /\ pc[d] = "idle"
  /\ pc' = [pc EXCEPT ![d] = "lookup"]
  /\ note' = [note EXCEPT ![d] = n]
  /\ UNCHANGED <<customerVars, snapshots, provider, acked, events, orders,
                 loaded, answered>>

(* Until it is acknowledged it is sent again, in any order and even while   *)
(* an earlier delivery is being handled.                                    *)
Deliver(d, n) ==
  /\ n \in sent \ acked
  /\ Start(d, n)
  /\ UNCHANGED faults

(* A delivery made before the acknowledgement arrives after it. *)
DeliverLate(d, n) ==
  /\ n \in acked
  /\ Mishap("duplicate")
  /\ Start(d, n)

-----------------------------------------------------------------------------
(* handleWebhook *)

(* The handler ends; its answer reaches Mercado Pago unless the timeout's    *)
(* went first.                                                               *)
Reply(d, code) ==
  /\ pc' = [pc EXCEPT ![d] = "idle"]
  /\ note' = [note EXCEPT ![d] = NoNote]
  /\ loaded' = [loaded EXCEPT ![d] = NoCart]
  /\ answered' = [answered EXCEPT ![d] = FALSE]
  /\ acked' = IF code = 200 /\ ~answered[d] THEN acked \cup {note[d]} ELSE acked

Goto(d, step) ==
  /\ pc' = [pc EXCEPT ![d] = step]
  /\ UNCHANGED <<note, answered, acked>>

LookupEventConflict(d) ==               \* mutant: a processed event is an error
  /\ pc[d] = "lookup"
  /\ IF note[d].payment \in events THEN Reply(d, 500)
     ELSE Goto(d, "claim") /\ UNCHANGED loaded
  /\ UNCHANGED <<customerVars, snapshots, provider, events, orders, faults>>

(* prisma.webhookEvent.findUnique.  Every row is inserted with processed =   *)
(* true, so the branch for an unprocessed row (83-97) is never taken.        *)
LookupEvent(d) ==
  /\ pc[d] = "lookup"
  /\ IF note[d].payment \in events THEN Reply(d, 200)
     ELSE Goto(d, "claim") /\ UNCHANGED loaded
  /\ UNCHANGED <<customerVars, snapshots, provider, events, orders, faults>>

ClaimedNever(d) == FALSE                \* mutant: no unique key on the claim

Claimed(d) == note[d].payment \in events

(* The insert; P2002 on (source, eventId) means another handler won. *)
Claim(d) ==
  /\ pc[d] = "claim"
  /\ events' = events \cup {note[d].payment}
  /\ IF Claimed(d) THEN Reply(d, 200) ELSE Goto(d, "dispatch") /\ UNCHANGED loaded
  /\ UNCHANGED <<customerVars, snapshots, provider, orders, faults>>

Preference(d) == PreferenceOf[note[d].payment]

(* The payment is fetched from Mercado Pago and its status then decides.  A  *)
(* body with data.status is not fetched.  A pending payment gets no further, *)
(* nor does a refunded one: the order id looked up is the branch's.          *)
FetchPayment(d) ==
  /\ pc[d] = "dispatch"
  /\ LET status == mp[note[d].payment]
         branch == IF status = "cancelled" THEN "rejected" ELSE status
     IN IF payload # "status" /\ branch \in {"approved", "rejected"}
        THEN Goto(d, branch) /\ UNCHANGED loaded
        ELSE Reply(d, 200)
  /\ UNCHANGED <<customerVars, snapshots, provider, events, orders, faults>>

(* getValidatedCartSnapshot *)
Snapshot(c) ==
  IF redisUp THEN redisSnapshot[c]
  ELSE IF c \in memorySnapshots THEN object[c] ELSE NoCart

AmountMatchesAny(d) == TRUE             \* mutant: the amount is not compared

AmountMatches(d) == Cost[Snapshot(Preference(d))] = paid[note[d].payment]

(* processApprovedPayment, up to createOrderFromCheckout.  A body without    *)
(* preference_id is an error, a missing snapshot is not, nor is an empty     *)
(* one, which is cleared.                                                    *)
LoadForOrder(d) ==
  /\ pc[d] = "approved"
  /\ LET snapshot == Snapshot(Preference(d))
     IN IF payload = "bare" THEN Reply(d, 500)
        ELSE IF snapshot = NoCart THEN Reply(d, 200)
        ELSE IF snapshot = Empty THEN Goto(d, "forgetting") /\ UNCHANGED loaded
        ELSE IF ~AmountMatches(d) THEN Reply(d, 500)
        ELSE Goto(d, "ordering") /\ loaded' = [loaded EXCEPT ![d] = snapshot]
  /\ UNCHANGED <<customerVars, snapshots, provider, events, orders, faults>>

InStockUnchecked(d) == TRUE             \* mutant: the stock is not checked again

InStock(d) == Covers(loaded[d])

Available(d) == \A k \in Products : loaded[d][k] > 0 => k \in sellable

Accepted(d) == Available(d) /\ database = "accepts" /\ InStock(d)

(* createOrderFromCheckout (OrderLedger says what it does inside) refuses:   *)
(* "Products not available", the database's error, "Insufficient stock".     *)
RefuseOrder(d) ==
  /\ pc[d] = "ordering"
  /\ ~Accepted(d)
  /\ refused' = refused \cup {note[d].payment}
  /\ Reply(d, 500)
  /\ UNCHANGED <<customerVars, snapshots, provider, events, database, sellable, stock,
                 order, paymentStatus, faults>>

(* It creates the order; P2002 on paymentId is not an error here.            *)
PlaceOrder(d) ==
  /\ pc[d] = "ordering"
  /\ Accepted(d)
  /\ LET p == note[d].payment
     IN IF order[p] = NoCart
        THEN /\ order' = [order EXCEPT ![p] = loaded[d]]
             /\ paymentStatus' = [paymentStatus EXCEPT ![p] = "pending"]
             /\ stock' = [k \in Products |-> stock[k] - loaded[d][k]]
        ELSE UNCHANGED <<order, paymentStatus, stock>>
  /\ Goto(d, "clearing")
  /\ UNCHANGED <<customerVars, snapshots, provider, events, database, sellable,
                 refused, loaded, faults>>

(* processRejectedOrCancelledPayment *)
LoadForRejection(d) ==
  /\ pc[d] = "rejected"
  /\ IF payload = "bare" \/ Snapshot(Preference(d)) = NoCart THEN Reply(d, 200)
     ELSE Goto(d, "checking") /\ UNCHANGED loaded
  /\ UNCHANGED <<customerVars, snapshots, provider, events, orders, faults>>

(* updateOrderPaymentStatus(.., "rejected") on the order of this payment. *)
RejectExistingOrder(d) ==
  /\ pc[d] = "checking"
  /\ LET p == note[d].payment
     IN IF order[p] # NoCart
        THEN /\ paymentStatus' = [paymentStatus EXCEPT ![p] = "rejected"]
             /\ stock' = [k \in Products |-> stock[k] + order[p][k]]
        ELSE UNCHANGED <<paymentStatus, stock>>
  /\ Goto(d, "clearing")
  /\ UNCHANGED <<customerVars, snapshots, provider, events, database, sellable, order,
                 refused, loaded, faults>>

(* clearCart: external_reference never ends with ":user", so the key is      *)
(* always a guest's.                                                         *)
ClearCart(d) ==
  /\ pc[d] = "clearing"
  /\ IF Preference(d) \in Guests THEN DeleteCart(Preference(d)) ELSE UNCHANGED <<cart, live>>
  /\ Goto(d, "forgetting")
  /\ UNCHANGED <<stage, object, items, edited, snapshots, provider, events, orders,
                 loaded, faults>>

(* clearValidatedCartSnapshot; the handler ends with 200. *)
ForgetSnapshot(d) ==
  /\ pc[d] = "forgetting"
  /\ redisSnapshot' = IF redisUp THEN [redisSnapshot EXCEPT ![Preference(d)] = NoCart]
                      ELSE redisSnapshot
  /\ memorySnapshots' = IF redisUp THEN memorySnapshots
                        ELSE memorySnapshots \ {Preference(d)}
  /\ Reply(d, 200)
  /\ UNCHANGED <<customerVars, redisUp, provider, events, orders, faults>>

-----------------------------------------------------------------------------
(* What can go wrong *)

(* The timeout of handleWebhook answers 500; the handler runs on. *)
Timeout(d) ==
  /\ pc[d] # "idle" /\ ~answered[d]
  /\ Mishap("timeout")
  /\ answered' = [answered EXCEPT ![d] = TRUE]
  /\ UNCHANGED <<customerVars, snapshots, provider, acked, events, orders, pc,
                 note, loaded>>

FailCallReleasing(d) ==                 \* mutant: the claim is given back
  /\ pc[d] # "idle"
  /\ Mishap("call")
  /\ Reply(d, 500)
  /\ events' = events \ {note[d].payment}
  /\ UNCHANGED <<customerVars, snapshots, provider, orders>>

(* An awaited call throws: the database, Redis, or the fetch.  The claim is  *)
(* committed by then and stays.                                              *)
FailCall(d) ==
  /\ pc[d] # "idle"
  /\ Mishap("call")
  /\ Reply(d, 500)
  /\ UNCHANGED <<customerVars, snapshots, provider, events, orders>>

(* The process stops and starts again: what was in memory is gone. *)
Crash ==
  /\ Mishap("crash")
  /\ pc' = [d \in Handlers |-> "idle"]
  /\ note' = [d \in Handlers |-> NoNote]
  /\ loaded' = [d \in Handlers |-> NoCart]
  /\ answered' = [d \in Handlers |-> FALSE]
  /\ memorySnapshots' = {}
  /\ live' = {}
  /\ stage' = [c \in Checkouts |->
                 IF stage[c] \in {"validated", "created"} THEN "failed" ELSE stage[c]]
  /\ UNCHANGED <<cart, object, items, edited, redisUp, redisSnapshot, provider, acked,
                 events, orders>>

-----------------------------------------------------------------------------
CustomerStep(c) ==
  \/ EditCart(c) \/ EmptyCart(c)
  \/ ReadCart(c) \/ CreatePreference(c) \/ StoreSnapshot(c) \/ ExpireSnapshot(c)

Work(d) ==
  \/ LookupEvent(d) \/ Claim(d) \/ FetchPayment(d)
  \/ LoadForOrder(d) \/ RefuseOrder(d) \/ PlaceOrder(d)
  \/ LoadForRejection(d) \/ RejectExistingOrder(d)
  \/ ClearCart(d) \/ ForgetSnapshot(d)

HandlerStep(d) ==
  \/ Work(d) \/ Timeout(d) \/ FailCall(d)
  \/ \E n \in Notes : Deliver(d, n) \/ DeliverLate(d, n)

Next ==
  \/ \E c \in Checkouts : CustomerStep(c)
  \/ \E k \in Products : HideProduct(k) \/ ShowProduct(k)
  \/ \E p \in Payments : MovePayment(p)
  \/ \E d \in Handlers : HandlerStep(d)
  \/ LoseRedis \/ RegainRedis \/ Crash

Spec == Init /\ [][Next]_vars

(* Mercado Pago repeats a notification until a 200, and the event loop does  *)
(* not starve a running handler.  Mishaps are finite in number, and nobody   *)
(* else is obliged to move.                                                  *)
FairSpec ==
  /\ Spec
  /\ WF_vars(\E d \in Handlers, n \in Notes : Deliver(d, n))
  /\ \A d \in Handlers : WF_vars(Work(d))

-----------------------------------------------------------------------------
(* Properties *)

(* The steps between the commit of the claim and the end of the handler. *)
OwnerSteps == {"dispatch", "approved", "ordering", "rejected", "checking",
               "clearing", "forgetting"}

Owns(d, p) == pc[d] \in OwnerSteps /\ note[d].payment = p

(* Every variable has its type; no product is sold below zero while orders   *)
(* are placed one at a time.                                                 *)
TypeOK ==
  /\ redisUp \in BOOLEAN
  /\ cart \in [Checkouts -> Contents]
  /\ stage \in [Checkouts -> {"idle", "validated", "created", "returned", "failed"}]
  /\ object \in [Checkouts -> Contents]
  /\ live \subseteq Checkouts
  /\ items \in [Checkouts -> Contents]
  /\ edited \subseteq Checkouts
  /\ redisSnapshot \in [Checkouts -> Snapshots]
  /\ memorySnapshots \subseteq Checkouts
  /\ payload \in Payloads
  /\ mp \in [Payments -> Statuses]
  /\ paid \in [Payments -> Int]
  /\ sent \subseteq Notes
  /\ acked \subseteq Notes
  /\ events \subseteq Payments
  /\ database \in SumAnswers
  /\ sellable \subseteq Products
  /\ stock \in [Products -> Nat]
  /\ order \in [Payments -> Snapshots]
  /\ paymentStatus \in [Payments -> {"none", "pending", "rejected"}]
  /\ refused \subseteq Payments
  /\ pc \in [Handlers -> OwnerSteps \cup {"idle", "lookup", "claim"}]
  /\ note \in [Handlers -> Notes \cup {NoNote}]
  /\ \A d \in Handlers : pc[d] # "idle" => note[d] \in Notes
  /\ loaded \in [Handlers -> Snapshots]
  /\ \A d \in Handlers : pc[d] = "ordering" => loaded[d] \in Contents
  /\ answered \in [Handlers -> BOOLEAN]
  /\ faults \in Nat

(* However deliveries repeat and overlap, one handler at most is past the    *)
(* claim of a payment, and the row of the claim is there to keep others out. *)
ClaimExclusive ==
  \A d \in Handlers, p \in Payments : Owns(d, p) =>
    /\ p \in events
    /\ \A e \in Handlers \ {d} : ~Owns(e, p)

(* The items of an order are those of the preference its payment was made    *)
(* for, they cost what was paid, and the payment was approved -- although    *)
(* the cart, the stock and the payment move on while the handler awaits.     *)
(* The exception is a snapshot in memory: it is the cart object itself, and  *)
(* what the customer edits while Redis is down edits it too, so that other   *)
(* items of the same total are ordered.                                      *)
OrderMatchesPayment ==
  \A p \in Payments : order[p] # NoCart =>
    /\ order[p] = items[PreferenceOf[p]] \/ PreferenceOf[p] \in edited
    /\ Cost[order[p]] = paid[p]
    /\ mp[p] \in Honoured

(* No order is placed and also rejected: a payment is handled for one of its *)
(* statuses only, so the branch of processRejectedOrCancelledPayment for an  *)
(* existing order (342-344) is dead, and with it updateOrderPaymentStatus.   *)
OneOutcome ==
  \A p \in Payments :
    /\ paymentStatus[p] # "rejected"
    /\ \A d \in Handlers : Owns(d, p) /\ pc[d] = "checking" => order[p] = NoCart

(* What a payment has come to, as PaymentSettlement sees it.                 *)
Settled(p) ==
  IF order[p] # NoCart THEN "ordered"
  ELSE IF p \notin events THEN "open"
  ELSE IF \E d \in Handlers : Owns(d, p) THEN "claimed" ELSE "dropped"

Settlement == INSTANCE PaymentSettlement
                WITH settled <- [p \in Payments |-> Settled(p)]

(* The webhook implements PaymentSettlement: a payment is claimed at most    *)
(* once, and one whose handler ended without an order never gets one.        *)
SettlesOnce == Settlement!Spec

(* A notification that Mercado Pago repeats is acknowledged in the end, in   *)
(* spite of failed calls, timeouts, crashes and handlers of the same payment *)
(* that overlap.                                                             *)
AllAcknowledged == \A n \in Notes : n \in sent ~> n \in acked

(* An approved payment is put to createOrderFromCheckout, which places its   *)
(* order or refuses it, unless the approval is taken back: repeats, overlaps *)
(* and timeouts lose none, and neither do customers who go on with their     *)
(* carts, as long as no call fails and the snapshot is there.                *)
ApprovedReachesOrder ==
  \A p \in Payments :
    mp[p] = "approved" ~> (order[p] # NoCart \/ p \in refused \/ mp[p] # "approved")

(* docs/CHECKOUT.md:497, "approved | Payment successful | Creates OUTBOUND   *)
(* movements": an approved payment gets its order, unless it is taken back.  *)
ApprovedGetsOrder ==
  \A p \in Payments : mp[p] = "approved" ~> (order[p] # NoCart \/ mp[p] # "approved")

=============================================================================
