------------------------------ MODULE CartLock ------------------------------
(***************************************************************************)
(* Carts and their locks: src/src/modules/cart/service.ts, called by the    *)
(* mutations of src/src/modules/cart/resolver.ts.                           *)
(*                                                                         *)
(* A call that edits a cart takes the cart's lock in Redis, reads the cart, *)
(* writes it and deletes the lock, one await at a time.  The lock has a     *)
(* time to live and no owner.  A cart lives in Redis, or in this process    *)
(* while Redis cannot be reached (variable side).                           *)
(***************************************************************************)
EXTENDS CartContents, FiniteSets

CONSTANTS
  Calls,       \* mutations under way, each made once
  Carts,       \* Redis keys of carts
  Requests,    \* what the calls may ask for, taken together
  Opening,     \* Opening[k]: contents of cart k when the behaviour starts
  LockRetries, \* CART_LOCK_RETRY_COUNT
  MaxFaults    \* bound: failed commands and losses of Redis

Sides == {"redis", "memory"}
Steps == {"idle", "locking", "lockingUser", "reading", "readingUser", "saving", "emptying",
          "unlocking", "ended"}

(* Only a merge has another cart to write than to read. *)
Asks == {r \in [op: {"add", "set", "clear", "merge"}, cart: Carts, into: Carts,
                product: Products, units: Nat] : (r.op = "merge") <=> (r.cart # r.into)}

ASSUME CartConstants ==
  /\ Requests \subseteq [Calls -> Asks]
  /\ Opening \in [Carts -> Contents]
  /\ LockRetries \in Nat \ {0}
  /\ MaxFaults \in Nat

VARIABLES
  asks,       \* asks[c]: the request of call c
  side,       \* where isRedisAvailable sends commands
  store,      \* store[s][k]: contents of cart k in Redis or in memoryCarts
  lock,       \* lock[k]: the key lock:<cart> is set
  pc,         \* pc[c]: progress of call c
  tries,      \* tries[c]: failed SET NX of the lock it is after
  got,        \* got[c]: carts whose lock acquireLock said it has
  copy,       \* copy[c]: the cart it will save; for a merge, first the guest cart
  faults,     \* bounded by MaxFaults
  applied,    \* history: calls whose write was made
  overrun,    \* history: carts whose lock ran out under a call, until the last is gone
  disturbed   \* history: carts touched in another way while a call was at work on them

redis == <<store, lock>>
locals == <<tries, got, copy>>
history == <<applied, overrun, disturbed>>
vars == <<asks, side, redis, pc, locals, faults, history>>

Merging(c) == asks[c].op = "merge"
Guest(c) == asks[c].cart
User(c) == asks[c].into
Holders(k) == {c \in Calls : k \in got[c]}
Loose == overrun \cup disturbed

-----------------------------------------------------------------------------
Init ==
  /\ asks \in Requests
  /\ side = "redis"
  /\ store = [s \in Sides |-> IF s = "redis" THEN Opening ELSE [k \in Carts |-> Empty]]
  /\ lock = [k \in Carts |-> FALSE]
  /\ pc = [c \in Calls |-> "idle"]
  /\ tries = [c \in Calls |-> 0]
  /\ got = [c \in Calls |-> {}]
  /\ copy = [c \in Calls |-> Empty]
  /\ faults = 0
  /\ applied = {}
  /\ overrun = {}
  /\ disturbed = {}

Goto(c, step) == pc' = [pc EXCEPT ![c] = step]

(* Call c no longer works on the carts ks: those nobody works on are calm again. *)
Leave(c, ks) ==
  LET calm == {k \in ks : Holders(k) \subseteq {c}}
  IN  /\ got' = [got EXCEPT ![c] = @ \ ks]
      /\ overrun' = overrun \ calm
      /\ disturbed' = disturbed \ calm

(* A merge needs Redis to begin with; the other edits find out in acquireLock. *)
Begin(c) ==
  /\ pc[c] = "idle"
  /\ asks[c].op # "clear"
  /\ Goto(c, IF Merging(c) /\ side = "memory" THEN "ended" ELSE "locking")
  /\ UNCHANGED <<asks, side, redis, locals, faults, history>>

(* clearCart takes no lock. *)
ClearCart(c) ==
  /\ pc[c] = "idle"
  /\ asks[c].op = "clear"
  /\ Goto(c, "ended")
  /\ store' = [store EXCEPT ![side][Guest(c)] = Empty]
  /\ applied' = applied \cup {c}
  /\ disturbed' = disturbed \cup {k \in {Guest(c)} : Holders(k) # {}}
  /\ UNCHANGED <<asks, side, lock, locals, faults, overrun>>

-----------------------------------------------------------------------------
(* acquireLock: of the guest cart first and then, whatever came of it, of the user's. *)

Wanted(c) == IF pc[c] = "lockingUser" THEN User(c) ELSE Guest(c)

(* mutant: a merge that is refused one lock keeps the other *)
AttemptedForgetting(c, held) ==
  Goto(c, IF Merging(c) /\ pc[c] = "locking" THEN "lockingUser"
          ELSE IF held = {Guest(c), User(c)} THEN "reading"
          ELSE "ended")

(* Where call c goes after its attempts on one lock, with the locks of held. *)
Attempted(c, held) ==
  Goto(c, IF Merging(c) /\ pc[c] = "locking" THEN "lockingUser"
          ELSE IF held = {Guest(c), User(c)} THEN "reading"
          ELSE IF held = {} THEN "ended"
          ELSE "unlocking")

Locking(c) == pc[c] \in {"locking", "lockingUser"}

(* mutant: SET without NX *)
LockTakenAnyway(c) ==
  /\ Locking(c)
  /\ side = "redis"
  /\ lock' = [lock EXCEPT ![Wanted(c)] = TRUE]
  /\ got' = [got EXCEPT ![c] = @ \cup {Wanted(c)}]
  /\ tries' = [tries EXCEPT ![c] = 0]
  /\ Attempted(c, got[c] \cup {Wanted(c)})
  /\ UNCHANGED <<asks, side, store, copy, faults, history>>

(* SET NX answers OK. *)
LockTaken(c) ==
  /\ Locking(c)
  /\ side = "redis"
  /\ ~lock[Wanted(c)]
  /\ lock' = [lock EXCEPT ![Wanted(c)] = TRUE]
  /\ got' = [got EXCEPT ![c] = @ \cup {Wanted(c)}]
  /\ tries' = [tries EXCEPT ![c] = 0]
  /\ Attempted(c, got[c] \cup {Wanted(c)})
  /\ UNCHANGED <<asks, side, store, copy, faults, history>>

(* mutant: one attempt too many *)
LockBusyOnceMore(c) ==
  /\ Locking(c)
  /\ side = "redis"
  /\ lock[Wanted(c)]
  /\ tries[c] < LockRetries
  /\ tries' = [tries EXCEPT ![c] = @ + 1]
  /\ UNCHANGED <<asks, side, redis, pc, got, copy, faults, history>>

(* mutant: the attempts are not counted *)
LockBusyForever(c) ==
  /\ Locking(c)
  /\ side = "redis"
  /\ lock[Wanted(c)]
  /\ UNCHANGED vars

(* SET NX answers nil, and the call sleeps before the next attempt. *)
LockBusy(c) ==
  /\ Locking(c)
  /\ side = "redis"
  /\ lock[Wanted(c)]
  /\ tries[c] + 1 < LockRetries
  /\ tries' = [tries EXCEPT ![c] = @ + 1]
  /\ UNCHANGED <<asks, side, redis, pc, got, copy, faults, history>>

(* The last attempt was in vain, or there is no Redis to ask. *)
LockRefused(c) ==
  /\ Locking(c)
  /\ side = "redis" => lock[Wanted(c)] /\ tries[c] + 1 >= LockRetries
  /\ tries' = [tries EXCEPT ![c] = 0]
  /\ Attempted(c, got[c])
  /\ UNCHANGED <<asks, side, redis, got, copy, faults, history>>

-----------------------------------------------------------------------------
Edited(cart, ask) ==
  IF ask.op = "add" THEN Added(cart, ask.product, ask.units)
                    ELSE Changed(cart, ask.product, ask.units)

(* getCartRaw answers a cart in memory by reference: an edit of one that is there *)
(* shows before it is saved.  An empty cart may be there or not.                  *)
ShownAtOnce(k, edited) ==
  IF side = "redis" THEN store' = store
  ELSE \/ store' = [store EXCEPT !["memory"][k] = edited]
       \/ store["memory"][k] = Empty /\ store' = store

(* addToCart, updateCartItem: the read, and the edit of what it answers. *)
ReadCart(c) ==
  LET cart == store[side][Guest(c)]
      edited == Edited(cart, asks[c])
  IN  /\ pc[c] = "reading"
      /\ ~Merging(c)
      /\ asks[c].op = "set" => cart[asks[c].product] > 0
      /\ Goto(c, "saving")
      /\ copy' = [copy EXCEPT ![c] = edited]
      /\ ShownAtOnce(Guest(c), edited)
      /\ UNCHANGED <<asks, side, lock, tries, got, faults, history>>

(* updateCartItem: "Item not found in cart" *)
ItemMissing(c) ==
  /\ pc[c] = "reading"
  /\ asks[c].op = "set"
  /\ store[side][Guest(c)][asks[c].product] = 0
  /\ Goto(c, "unlocking")
  /\ UNCHANGED <<asks, side, redis, locals, faults, history>>

ReadGuestCart(c) ==
  /\ pc[c] = "reading"
  /\ Merging(c)
  /\ Goto(c, "readingUser")
  /\ copy' = [copy EXCEPT ![c] = store[side][Guest(c)]]
  /\ UNCHANGED <<asks, side, redis, tries, got, faults, history>>

(* The merge is computed at once when the user's cart has been read. *)
ReadUserCart(c) ==
  LET joined == Joined(store[side][User(c)], copy[c])
  IN  /\ pc[c] = "readingUser"
      /\ Goto(c, "saving")
      /\ copy' = [copy EXCEPT ![c] = joined]
      /\ ShownAtOnce(User(c), joined)
      /\ UNCHANGED <<asks, side, lock, tries, got, faults, history>>

(* Of a merge with one cart loose, nothing is promised of the other one either. *)
Spread(c) ==
  disturbed' = IF {Guest(c), User(c)} \cap Loose = {} THEN disturbed
               ELSE disturbed \cup {Guest(c), User(c)}

SaveCart(c) ==
  /\ pc[c] = "saving"
  /\ store' = [store EXCEPT ![side][User(c)] = copy[c]]
  /\ applied' = applied \cup {c}
  /\ Spread(c)
  /\ Goto(c, IF Merging(c) THEN "emptying" ELSE "unlocking")
  /\ UNCHANGED <<asks, side, lock, locals, faults, overrun>>

(* mutant: the guest cart is not deleted *)
EmptyGuestNot(c) ==
  /\ pc[c] = "emptying"
  /\ side = "redis"
  /\ Goto(c, "unlocking")
  /\ UNCHANGED <<asks, side, redis, locals, faults, history>>

(* redis.del(guestKey), which does not ask for isRedisAvailable; without Redis it *)
(* fails and is an EmptyFails.                                                    *)
EmptyGuest(c) ==
  /\ pc[c] = "emptying"
  /\ side = "redis"
  /\ store' = [store EXCEPT !["redis"][Guest(c)] = Empty]
  /\ Goto(c, "unlocking")
  /\ UNCHANGED <<asks, side, lock, locals, faults, history>>

(* Of two locks, the guest cart's first. *)
Released(c) == IF Guest(c) \in got[c] THEN Guest(c) ELSE User(c)

(* releaseLock deletes the key, whoever set it. *)
Unlock(c) ==
  /\ pc[c] = "unlocking"
  /\ side = "redis"
  /\ lock' = [lock EXCEPT ![Released(c)] = FALSE]
  /\ Leave(c, {Released(c)})
  /\ Goto(c, IF got[c] = {Released(c)} THEN "ended" ELSE "unlocking")
  /\ UNCHANGED <<asks, side, store, tries, copy, faults, applied>>

(* releaseLock throws: the locks stay until they run out. *)
UnlockFails(c) ==
  /\ pc[c] = "unlocking"
  /\ side = "memory"
  /\ Leave(c, got[c])
  /\ Goto(c, "ended")
  /\ UNCHANGED <<asks, side, redis, tries, copy, faults, applied>>

-----------------------------------------------------------------------------
(* What may go wrong around the calls. *)

Fault ==
  /\ faults < MaxFaults
  /\ faults' = faults + 1

(* SET NX fails, done or not; acquireLock is called outside of the try, so that a *)
(* merge keeps the guest cart's lock.                                             *)
LockFails(c) ==
  /\ Fault
  /\ Locking(c)
  /\ side = "redis"
  /\ lock' \in {lock, [lock EXCEPT ![Wanted(c)] = TRUE]}
  /\ Leave(c, got[c])
  /\ Goto(c, "ended")
  /\ UNCHANGED <<asks, side, store, tries, copy, applied>>

ReadFails(c) ==
  /\ Fault
  /\ pc[c] \in {"reading", "readingUser"}
  /\ side = "redis"
  /\ Goto(c, "unlocking")
  /\ UNCHANGED <<asks, side, redis, locals, history>>

(* getCartRaw answers null when the GET was answered and its EXPIRE was not: the cart *)
(* is taken for an empty one.                                                         *)
ExpireFails(c) ==
  /\ Fault
  /\ pc[c] \in {"reading", "readingUser"}
  /\ side = "redis"
  /\ copy' = [copy EXCEPT ![c] = IF asks[c].op = "add" THEN Edited(Empty, asks[c]) ELSE @]
  /\ Goto(c, IF pc[c] = "readingUser" \/ asks[c].op = "add" THEN "saving"
             ELSE IF Merging(c) THEN "readingUser" ELSE "unlocking")
  /\ disturbed' = disturbed \cup got[c]
  /\ UNCHANGED <<asks, side, redis, tries, got, applied, overrun>>

(* saveCart fails, done or not. *)
SaveFails(c) ==
  /\ Fault
  /\ pc[c] = "saving"
  /\ side = "redis"
  /\ \/ UNCHANGED <<store, applied>>
     \/ /\ store' = [store EXCEPT !["redis"][User(c)] = copy[c]]
        /\ applied' = applied \cup {c}
  /\ disturbed' = disturbed \cup got[c]
  /\ Goto(c, "unlocking")
  /\ UNCHANGED <<asks, side, lock, locals, overrun>>

(* redis.del(guestKey) fails, done or not: what was merged may be there twice. *)
EmptyFails(c) ==
  /\ pc[c] = "emptying"
  /\ IF side = "redis" THEN Fault ELSE faults' = faults
  /\ store' \in {store, [store EXCEPT !["redis"][Guest(c)] = Empty]}
  /\ disturbed' = disturbed \cup got[c]
  /\ Goto(c, "unlocking")
  /\ UNCHANGED <<asks, side, lock, locals, applied, overrun>>

(* The DEL of releaseLock fails, done or not. *)
ReleaseFails(c) ==
  /\ Fault
  /\ pc[c] = "unlocking"
  /\ side = "redis"
  /\ lock' \in {lock, [lock EXCEPT ![Released(c)] = FALSE]}
  /\ Leave(c, got[c])
  /\ Goto(c, "ended")
  /\ UNCHANGED <<asks, side, store, tries, copy, applied>>

WorkedOn == {k \in Carts : Holders(k) # {}}

LoseRedis ==
  /\ Fault
  /\ side = "redis"
  /\ side' = "memory"
  /\ disturbed' = disturbed \cup WorkedOn
  /\ UNCHANGED <<asks, redis, pc, locals, applied, overrun>>

RegainRedis ==
  /\ side = "memory"
  /\ side' = "redis"
  /\ disturbed' = disturbed \cup WorkedOn
  /\ UNCHANGED <<asks, redis, pc, locals, faults, applied, overrun>>

(* The lock lives CART_LOCK_TTL_SECONDS, however long its holder takes. *)
LockExpires(k) ==
  /\ lock[k]
  /\ lock' = [lock EXCEPT ![k] = FALSE]
  /\ overrun' = overrun \cup ({k} \cap WorkedOn)
  /\ UNCHANGED <<asks, side, store, pc, locals, faults, applied, disturbed>>

-----------------------------------------------------------------------------
(* A call that has begun: each await ends, well or badly. *)
Await(c) ==
  \/ LockTaken(c) \/ LockBusy(c) \/ LockRefused(c)
  \/ ReadCart(c) \/ ItemMissing(c) \/ ReadGuestCart(c) \/ ReadUserCart(c)
  \/ SaveCart(c) \/ EmptyGuest(c) \/ Unlock(c) \/ UnlockFails(c)
  \/ LockFails(c) \/ ReadFails(c) \/ ExpireFails(c) \/ SaveFails(c) \/ EmptyFails(c)
  \/ ReleaseFails(c)

Next ==
  \/ \E c \in Calls : Begin(c) \/ ClearCart(c) \/ Await(c)
  \/ \E k \in Carts : LockExpires(k)
  \/ LoseRedis \/ RegainRedis

(* Nothing is asked of customers, of Redis and of the clock. *)
Spec == Init /\ [][Next]_vars /\ \A c \in Calls : WF_vars(Await(c))

-----------------------------------------------------------------------------
(* Every variable keeps its type; no call tries a lock more than LockRetries times. *)
TypeOK ==
  /\ asks \in [Calls -> Asks]
  /\ side \in Sides
  /\ store \in [Sides -> [Carts -> Contents]]
  /\ lock \in [Carts -> BOOLEAN]
  /\ pc \in [Calls -> Steps]
  /\ tries \in [Calls -> 0 .. LockRetries - 1]
  /\ got \in [Calls -> SUBSET Carts]
  /\ copy \in [Calls -> Contents]
  /\ faults \in 0 .. MaxFaults
  /\ applied \subseteq Calls
  /\ overrun \subseteq Carts
  /\ disturbed \subseteq Carts

(* Two calls work on one cart only if its lock ran out under a call that has not *)
(* left it since, be it as the one that finished late or as its successor, whose *)
(* lock releaseLock deletes.                                                     *)
LockExclusive ==
  \A k \in Carts \ overrun : \A c, d \in Holders(k) : c = d

(* Unless a command failed or Redis was lost, whoever has set a lock still works: *)
(* no path through acquireLock, the merge's refusals and the finally blocks       *)
(* forgets one.                                                                   *)
NoLockLeftBehind ==
  faults = 0 => \A k \in Carts : lock[k] => \E c \in Holders(k) : pc[c] # "ended"

(* The edits are those of CartEdits: on a cart that kept its lock and that nothing *)
(* else touched, each call applies once and to what is there.  A merge applies     *)
(* when it saves the user's cart; until the guest cart is deleted it is shown as   *)
(* empty.                                                                          *)
Shown == [s \in Sides |-> [k \in Carts |->
            IF s = "redis" /\ k \notin Loose
               /\ \E c \in Calls : pc[c] = "emptying" /\ Guest(c) = k
            THEN Empty ELSE store[s][k]]]
Edits == INSTANCE CartEdits WITH carts <- Shown, loose <- Loose
EditsApplyOnce == Edits!Spec

(* A call that has begun ends, whatever becomes of the locks: it waits LockRetries *)
(* times at most, even for a lock that nobody will release.                        *)
CallsEnd == \A c \in Calls : (pc[c] # "idle") ~> (pc[c] = "ended")

=============================================================================
