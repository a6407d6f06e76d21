--------------------------- MODULE CartLockProofs ---------------------------
(***************************************************************************)
(* What the locks of the cart service guarantee, for any calls and carts,   *)
(* any number of attempts and of failures.                                  *)
(***************************************************************************)
EXTENDS CartLock, TLAPS

(* What an edit makes of a cart is a cart. *)
LEMMA EditTypes ==
  ASSUME NEW cart \in Contents, NEW other \in Contents, NEW ask \in Asks
  PROVE  Edited(cart, ask) \in Contents /\ Joined(cart, other) \in Contents /\ Empty \in Contents
<1>1. ask.product \in Products /\ ask.units \in Nat
  BY DEF Asks
<1>2. Added(cart, ask.product, ask.units) \in Contents
  BY <1>1 DEF Added, Contents
<1>3. Changed(cart, ask.product, ask.units) \in Contents
  BY <1>1 DEF Changed, Contents
<1>4. Joined(cart, other) \in Contents
  BY DEF Joined, Contents
<1>5. Empty \in Contents
  BY DEF Empty, Contents
<1> QED BY <1>2, <1>3, <1>4, <1>5 DEF Edited

(* The request of a call, and its two carts. *)
LEMMA AskTypes ==
  ASSUME TypeOK, NEW c \in Calls
  PROVE  /\ asks[c] \in Asks /\ Guest(c) \in Carts /\ User(c) \in Carts
         /\ Merging(c) <=> Guest(c) # User(c)
         /\ Wanted(c) \in {Guest(c), User(c)} /\ Released(c) \in {Guest(c), User(c)}
         /\ asks[c].op \in {"add", "set", "clear", "merge"}
BY DEF TypeOK, Asks, Guest, User, Merging, Wanted, Released

LEMMA GotoTypes ==
  ASSUME TypeOK, NEW c \in Calls, NEW step \in Steps, Goto(c, step)
  PROVE  pc' \in [Calls -> Steps]
BY DEF TypeOK, Goto

LEMMA AttemptedTypes ==
  ASSUME TypeOK, NEW c \in Calls, NEW held, Attempted(c, held)
  PROVE  pc' \in [Calls -> Steps]
BY DEF TypeOK, Attempted, Goto, Steps

LEMMA LeaveTypes ==
  ASSUME TypeOK, NEW c \in Calls, NEW ks, Leave(c, ks)
  PROVE  /\ got' \in [Calls -> SUBSET Carts]
         /\ overrun' \subseteq Carts /\ disturbed' \subseteq Carts
BY DEF TypeOK, Leave

LEMMA ShownTypes ==
  ASSUME TypeOK, NEW k \in Carts, NEW edited \in Contents, ShownAtOnce(k, edited)
  PROVE  store' \in [Sides -> [Carts -> Contents]]
BY DEF TypeOK, ShownAtOnce, Sides

LEMMA FaultTypes ==
  ASSUME TypeOK, Fault
  PROVE  faults' \in 0 .. MaxFaults
BY CartConstants DEF TypeOK, Fault

LEMMA LockingTypes ==
  ASSUME TypeOK, NEW c \in Calls, LockTaken(c) \/ LockBusy(c) \/ LockRefused(c)
  PROVE  TypeOK'
<1>1. 0 \in 0 .. LockRetries - 1
  BY CartConstants
<1>2. CASE LockTaken(c)
  BY <1>1, <1>2, AskTypes, AttemptedTypes DEF LockTaken, TypeOK, history
<1>3. CASE LockBusy(c)
  <2>1. tries' \in [Calls -> 0 .. LockRetries - 1]
    BY <1>3, CartConstants DEF LockBusy, TypeOK
  <2> QED BY <1>3, <2>1 DEF LockBusy, TypeOK, history, redis
<1>4. CASE LockRefused(c)
  BY <1>1, <1>4, AttemptedTypes DEF LockRefused, TypeOK, history, redis
<1> QED BY <1>2, <1>3, <1>4

LEMMA ReadingTypes ==
  ASSUME TypeOK, NEW c \in Calls,
         ReadCart(c) \/ ItemMissing(c) \/ ReadGuestCart(c) \/ ReadUserCart(c)
  PROVE  TypeOK'
<1>1. store[side][Guest(c)] \in Contents /\ store[side][User(c)] \in Contents
      /\ copy[c] \in Contents
  BY AskTypes DEF TypeOK
<1>2. CASE ReadCart(c)
  <2>1. Edited(store[side][Guest(c)], asks[c]) \in Contents
    BY <1>1, AskTypes, EditTypes
  <2>2. store' \in [Sides -> [Carts -> Contents]]
    BY <1>2, <2>1, AskTypes, ShownTypes DEF ReadCart
  <2>3. pc' \in [Calls -> Steps]
    BY <1>2, GotoTypes DEF ReadCart, Steps
  <2> QED BY <1>2, <2>1, <2>2, <2>3 DEF ReadCart, TypeOK, history
<1>3. CASE ItemMissing(c)
  BY <1>3, GotoTypes DEF ItemMissing, Steps, TypeOK, history, redis, locals
<1>4. CASE ReadGuestCart(c)
  BY <1>1, <1>4, GotoTypes DEF ReadGuestCart, Steps, TypeOK, history, redis
<1>5. CASE ReadUserCart(c)
  <2>1. Joined(store[side][User(c)], copy[c]) \in Contents
    BY <1>1, AskTypes, EditTypes
  <2>2. store' \in [Sides -> [Carts -> Contents]]
    BY <1>5, <2>1, AskTypes, ShownTypes DEF ReadUserCart
  <2>3. pc' \in [Calls -> Steps]
    BY <1>5, GotoTypes DEF ReadUserCart, Steps
  <2> QED BY <1>5, <2>1, <2>2, <2>3 DEF ReadUserCart, TypeOK, history
<1> QED BY <1>2, <1>3, <1>4, <1>5

LEMMA WritingTypes ==
  ASSUME TypeOK, NEW c \in Calls,
         SaveCart(c) \/ EmptyGuest(c) \/ Unlock(c) \/ UnlockFails(c)
  PROVE  TypeOK'
<1>1. copy[c] \in Contents /\ Empty \in Contents
  BY AskTypes, EditTypes DEF TypeOK
<1>2. CASE SaveCart(c)
  <2>1. pc' \in [Calls -> Steps]
    BY <1>2, GotoTypes DEF SaveCart, Steps
  <2>2. disturbed' \subseteq Carts
    BY <1>2, AskTypes DEF SaveCart, Spread, TypeOK
  <2> QED BY <1>1, <1>2, <2>1, <2>2, AskTypes DEF SaveCart, TypeOK, locals
<1>3. CASE EmptyGuest(c)
  <2>1. pc' \in [Calls -> Steps]
    BY <1>3, GotoTypes DEF EmptyGuest, Steps
  <2> QED BY <1>1, <1>3, <2>1, AskTypes DEF EmptyGuest, TypeOK, locals, history
<1>4. CASE Unlock(c)
  <2>1. pc' \in [Calls -> Steps]
    BY <1>4, GotoTypes DEF Unlock, Steps
  <2> QED BY <1>4, <2>1, AskTypes, LeaveTypes DEF Unlock, TypeOK
<1>5. CASE UnlockFails(c)
  <2>1. pc' \in [Calls -> Steps]
    BY <1>5, GotoTypes DEF UnlockFails, Steps
  <2> QED BY <1>5, <2>1, LeaveTypes DEF UnlockFails, TypeOK, redis
<1> QED BY <1>2, <1>3, <1>4, <1>5

LEMMA FailingTypes ==
  ASSUME TypeOK, NEW c \in Calls,
         LockFails(c) \/ ReadFails(c) \/ ExpireFails(c) \/ SaveFails(c) \/ EmptyFails(c)
           \/ ReleaseFails(c)
  PROVE  TypeOK'
<1>1. copy[c] \in Contents /\ Empty \in Contents /\ Edited(Empty, asks[c]) \in Contents
  BY AskTypes, EditTypes DEF TypeOK
<1>2. CASE LockFails(c)
  <2>1. pc' \in [Calls -> Steps]
    BY <1>2, GotoTypes DEF LockFails, Steps
  <2> QED BY <1>2, <2>1, AskTypes, LeaveTypes, FaultTypes DEF LockFails, TypeOK
<1>3. CASE ReadFails(c)
  <2>1. pc' \in [Calls -> Steps]
    BY <1>3, GotoTypes DEF ReadFails, Steps
  <2> QED BY <1>3, <2>1, FaultTypes DEF ReadFails, TypeOK, redis, locals, history
<1>4. CASE ExpireFails(c)
  <2>1. pc' \in [Calls -> Steps]
    BY <1>4, GotoTypes DEF ExpireFails, Steps
  <2>2. copy' \in [Calls -> Contents]
    BY <1>1, <1>4 DEF ExpireFails, TypeOK
  <2> QED BY <1>4, <2>1, <2>2, FaultTypes DEF ExpireFails, TypeOK, redis
<1>5. CASE SaveFails(c)
  <2>1. pc' \in [Calls -> Steps]
    BY <1>5, GotoTypes DEF SaveFails, Steps
  <2>2. store' \in [Sides -> [Carts -> Contents]]
    BY <1>1, <1>5, AskTypes DEF SaveFails, TypeOK, Sides
  <2> QED BY <1>5, <2>1, <2>2, FaultTypes DEF SaveFails, TypeOK, locals
<1>6. CASE EmptyFails(c)
  <2>1. pc' \in [Calls -> Steps]
    BY <1>6, GotoTypes DEF EmptyFails, Steps
  <2>2. store' \in [Sides -> [Carts -> Contents]]
    BY <1>1, <1>6, AskTypes DEF EmptyFails, TypeOK, Sides
  <2>3. faults' \in 0 .. MaxFaults
    BY <1>6, FaultTypes DEF EmptyFails, TypeOK
  <2> QED BY <1>6, <2>1, <2>2, <2>3 DEF EmptyFails, TypeOK, locals
<1>7. CASE ReleaseFails(c)
  <2>1. pc' \in [Calls -> Steps]
    BY <1>7, GotoTypes DEF ReleaseFails, Steps
  <2> QED BY <1>7, <2>1, AskTypes, LeaveTypes, FaultTypes DEF ReleaseFails, TypeOK
<1> QED BY <1>2, <1>3, <1>4, <1>5, <1>6, <1>7

LEMMA NextType == TypeOK /\ [Next]_vars => TypeOK'
<1> SUFFICES ASSUME TypeOK, [Next]_vars PROVE TypeOK'
  OBVIOUS
<1>1. ASSUME NEW c \in Calls, Begin(c) PROVE TypeOK'
  BY <1>1, GotoTypes DEF Begin, Steps, TypeOK, redis, locals, history
<1>2. ASSUME NEW c \in Calls, ClearCart(c) PROVE TypeOK'
  <2>1. pc' \in [Calls -> Steps]
    BY <1>2, GotoTypes DEF ClearCart, Steps
  <2>2. store' \in [Sides -> [Carts -> Contents]]
    BY <1>2, AskTypes, EditTypes DEF ClearCart, TypeOK
  <2>3. disturbed' \subseteq Carts
    BY <1>2, AskTypes DEF ClearCart, TypeOK
  <2> QED BY <1>2, <2>1, <2>2, <2>3 DEF ClearCart, TypeOK, locals
<1>3. ASSUME NEW k \in Carts, LockExpires(k) PROVE TypeOK'
  BY <1>3 DEF LockExpires, TypeOK, locals
<1>4. CASE LoseRedis
  BY <1>4, FaultTypes DEF LoseRedis, WorkedOn, TypeOK, Sides, redis, locals
<1>5. CASE RegainRedis
  BY <1>5 DEF RegainRedis, WorkedOn, TypeOK, Sides, redis, locals
<1>6. CASE UNCHANGED vars
  BY <1>6 DEF vars, redis, locals, history, TypeOK
<1> QED BY <1>1, <1>2, <1>3, <1>4, <1>5, <1>6, LockingTypes, ReadingTypes, WritingTypes,
           FailingTypes DEF Next, Await

LEMMA InitTypes == Init => TypeOK
<1>1. \A k \in Carts : Opening[k] \in Contents
  BY CartConstants
<1>2. Empty \in Contents
  BY DEF Empty, Contents
<1>3. 0 \in 0 .. LockRetries - 1 /\ 0 \in 0 .. MaxFaults
  BY CartConstants
<1> QED BY <1>1, <1>2, <1>3, CartConstants DEF Init, TypeOK, Sides, Steps

(* Every variable keeps its type, and no call tries a lock more than LockRetries times: *)
(* acquireLock.                                                                        *)
THEOREM CartTypes == Spec => []TypeOK
BY InitTypes, NextType, PTL DEF Spec

-----------------------------------------------------------------------------
(* Which locks a call believes it has, by how far it has come. *)
LocksByProgress ==
  \A c \in Calls :
    /\ got[c] \subseteq {Guest(c), User(c)}
    /\ pc[c] \in {"idle", "locking", "ended"} => got[c] = {}
    /\ pc[c] = "lockingUser" => Merging(c) /\ got[c] \subseteq {Guest(c)}
    /\ pc[c] \in {"reading", "readingUser", "saving", "emptying"} => got[c] = {Guest(c), User(c)}
    /\ pc[c] \in {"readingUser", "emptying"} => Merging(c)
    /\ pc[c] = "unlocking" => got[c] # {}

(* The steps of call c, by what they do to locks. *)
Quiet == got' = got /\ lock' = lock /\ overrun' = overrun

Takes(c) ==
  /\ ~lock[Wanted(c)]
  /\ lock' = [lock EXCEPT ![Wanted(c)] = TRUE]
  /\ got' = [got EXCEPT ![c] = @ \cup {Wanted(c)}]
  /\ overrun' = overrun

Leaves(c) ==
  \E ks \in SUBSET Carts :
    /\ ks \subseteq got[c]
    /\ Leave(c, ks)
    /\ lock' \in [Carts -> BOOLEAN]
    /\ \A k \in Carts \ ks : lock[k] => lock'[k]

(* What another call has come to is its own affair. *)
LEMMA OthersProgress ==
  ASSUME TypeOK, LocksByProgress, NEW c \in Calls,
         asks' = asks,
         \A d \in Calls \ {c} : pc'[d] = pc[d] /\ got'[d] = got[d],
         LocksByProgress!(c)'
  PROVE  LocksByProgress'
<1> SUFFICES ASSUME NEW d \in Calls PROVE LocksByProgress!(d)'
  BY DEF LocksByProgress
<1>1. CASE d = c
  BY <1>1
<1>2. CASE d # c
  BY <1>2 DEF LocksByProgress, Guest, User, Merging
<1> QED BY <1>1, <1>2

LEMMA LockingProgress ==
  ASSUME TypeOK, LocksByProgress, NEW c \in Calls,
         LockTaken(c) \/ LockBusy(c) \/ LockRefused(c)
  PROVE  LocksByProgress' /\ (Quiet \/ Takes(c))
<1>1. /\ asks' = asks
      /\ \A d \in Calls \ {c} : pc'[d] = pc[d] /\ got'[d] = got[d]
  BY DEF LockTaken, LockBusy, LockRefused, Attempted, Goto, TypeOK
<1>2. CASE LockBusy(c)
  BY <1>2 DEF LockBusy, LocksByProgress, Quiet, Guest, User, Merging, redis, history
<1>3. CASE LockTaken(c)
  <2>1. got'[c] = got[c] \cup {Wanted(c)}
    BY <1>3 DEF LockTaken, TypeOK
  <2>2. LocksByProgress!(c)'
    BY <1>3, <2>1, AskTypes
       DEF LockTaken, Locking, Attempted, Goto, Wanted, LocksByProgress, TypeOK, Guest, User,
           Merging
  <2> QED BY <1>1, <1>3, <2>2, OthersProgress DEF LockTaken, Takes, history
<1>4. CASE LockRefused(c)
  <2>1. LocksByProgress!(c)'
    BY <1>4, AskTypes
       DEF LockRefused, Locking, Attempted, Goto, LocksByProgress, TypeOK, Guest, User, Merging
  <2> QED BY <1>1, <1>4, <2>1, OthersProgress DEF LockRefused, Quiet, redis, history
<1> QED BY <1>2, <1>3, <1>4

LEMMA WorkingProgress ==
  ASSUME TypeOK, LocksByProgress, NEW c \in Calls,
         \/ Begin(c) \/ ClearCart(c)
         \/ ReadCart(c) \/ ItemMissing(c) \/ ReadGuestCart(c) \/ ReadUserCart(c)
         \/ SaveCart(c) \/ EmptyGuest(c)
         \/ ReadFails(c) \/ ExpireFails(c) \/ SaveFails(c) \/ EmptyFails(c)
  PROVE  LocksByProgress' /\ Quiet
<1>1. Quiet /\ asks' = asks
  BY DEF Begin, ClearCart, ReadCart, ItemMissing, ReadGuestCart, ReadUserCart, SaveCart,
         EmptyGuest, ReadFails, ExpireFails, SaveFails, EmptyFails, Quiet, redis, locals, history
<1>2. \A d \in Calls \ {c} : pc'[d] = pc[d]
  BY DEF Begin, ClearCart, ReadCart, ItemMissing, ReadGuestCart, ReadUserCart, SaveCart,
         EmptyGuest, ReadFails, ExpireFails, SaveFails, EmptyFails, Goto, TypeOK
<1>3. CASE Begin(c) \/ ClearCart(c)
  <2>1. LocksByProgress!(c)'
    BY <1>1, <1>3 DEF Begin, ClearCart, Goto, TypeOK, LocksByProgress, Quiet, Guest, User, Merging
  <2> QED BY <1>1, <1>2, <2>1, OthersProgress DEF Quiet
<1>4. CASE ~(Begin(c) \/ ClearCart(c))
  <2>1. /\ pc[c] \in {"reading", "readingUser", "saving", "emptying"}
        /\ pc'[c] \in {"readingUser", "saving", "emptying", "unlocking"}
        /\ pc'[c] \in {"readingUser", "emptying"} => Merging(c)
    BY <1>4 DEF ReadCart, ItemMissing, ReadGuestCart, ReadUserCart, SaveCart,
                EmptyGuest, ReadFails, ExpireFails, SaveFails, EmptyFails, Goto, TypeOK
  <2>2. LocksByProgress!(c)'
    BY <1>1, <2>1 DEF LocksByProgress, Quiet, Guest, User, Merging
  <2> QED BY <1>1, <1>2, <2>2, OthersProgress DEF Quiet
<1> QED BY <1>3, <1>4

LEMMA LeavingProgress ==
  ASSUME TypeOK, LocksByProgress, NEW c \in Calls,
         Unlock(c) \/ UnlockFails(c) \/ LockFails(c) \/ ReleaseFails(c)
  PROVE  LocksByProgress' /\ Leaves(c)
<1>1. /\ asks' = asks
      /\ \A d \in Calls \ {c} : pc'[d] = pc[d] /\ got'[d] = got[d]
  BY DEF Unlock, UnlockFails, LockFails, ReleaseFails, Leave, Goto, TypeOK
<1>2. got[c] \in SUBSET Carts
  BY DEF TypeOK
<1>3. CASE Unlock(c)
  <2>1. Released(c) \in got[c] /\ got'[c] = got[c] \ {Released(c)}
    BY <1>3 DEF Unlock, Leave, Released, LocksByProgress, TypeOK
  <2>2. LocksByProgress!(c)'
    BY <1>3, <2>1 DEF Unlock, Goto, TypeOK, LocksByProgress, Guest, User, Merging
  <2>3. Leaves(c)
    BY <1>2, <1>3, <2>1 DEF Unlock, Leaves, TypeOK
  <2> QED BY <1>1, <2>2, <2>3, OthersProgress
<1>4. CASE UnlockFails(c) \/ LockFails(c) \/ ReleaseFails(c)
  <2>1. got'[c] = {} /\ pc'[c] = "ended"
    BY <1>4 DEF UnlockFails, LockFails, ReleaseFails, Leave, Goto, TypeOK
  <2>2. LocksByProgress!(c)'
    BY <2>1
  <2>3. Leave(c, got[c]) /\ lock' \in [Carts -> BOOLEAN]
    BY <1>4 DEF UnlockFails, LockFails, ReleaseFails, TypeOK, redis
  <2>4. ASSUME NEW k \in Carts \ got[c], lock[k] PROVE lock'[k]
    <3>1. CASE UnlockFails(c) \/ LockFails(c)
      BY <2>4, <3>1, AskTypes DEF UnlockFails, LockFails, TypeOK, redis
    <3>2. CASE ReleaseFails(c)
      <4>1. Released(c) \in got[c]
        BY <3>2 DEF ReleaseFails, Released, LocksByProgress
      <4> QED BY <2>4, <3>2, <4>1 DEF ReleaseFails, TypeOK
    <3> QED BY <1>4, <3>1, <3>2
  <2>5. Leaves(c)
    <3> SUFFICES \E ks \in SUBSET Carts : /\ ks \subseteq got[c]
                                         /\ Leave(c, ks)
                                         /\ lock' \in [Carts -> BOOLEAN]
                                         /\ \A k \in Carts \ ks : lock[k] => lock'[k]
      BY DEF Leaves
    <3> WITNESS got[c] \in SUBSET Carts
    <3> QED BY <2>3, <2>4
  <2> QED BY <1>1, <2>2, <2>5, OthersProgress
<1> QED BY <1>3, <1>4

(* Every step is that of one call, or of a lock that runs out, or of Redis. *)
LEMMA StepProgress ==
  ASSUME TypeOK, LocksByProgress, [Next]_vars
  PROVE  /\ LocksByProgress'
         /\ \/ Quiet
            \/ \E c \in Calls : Takes(c) \/ Leaves(c)
            \/ \E k \in Carts : LockExpires(k)
<1>1. CASE LoseRedis \/ RegainRedis \/ UNCHANGED vars
  <2>1. Quiet /\ pc' = pc /\ asks' = asks
    BY <1>1 DEF LoseRedis, RegainRedis, vars, redis, locals, history, Quiet
  <2> QED BY <2>1 DEF LocksByProgress, Quiet, Guest, User, Merging
<1>2. ASSUME NEW k \in Carts, LockExpires(k) PROVE LocksByProgress'
  BY <1>2 DEF LockExpires, locals, LocksByProgress, Guest, User, Merging
<1> QED BY <1>1, <1>2, LockingProgress, WorkingProgress, LeavingProgress DEF Next, Await

LEMMA InitProgress == Init => LocksByProgress
BY DEF Init, LocksByProgress

-----------------------------------------------------------------------------
(* A cart whose lock never ran out under a call has its lock, if a call works on it, *)
(* and one such call.                                                               *)
LockedWhileHeld == \A k \in Carts \ overrun : Holders(k) # {} => lock[k]

LockInv == LockExclusive /\ LockedWhileHeld

LEMMA NextLock ==
  ASSUME TypeOK, LocksByProgress, LockInv, [Next]_vars
  PROVE  LockInv'
<1>1. CASE Quiet
  BY <1>1 DEF Quiet, LockInv, LockExclusive, LockedWhileHeld, Holders
<1>2. ASSUME NEW c \in Calls, Takes(c) PROVE LockInv'
  <2> SUFFICES ASSUME NEW k \in Carts \ overrun
               PROVE  (\A d, e \in Holders(k)' : d = e) /\ (Holders(k)' # {} => lock'[k])
    BY <1>2 DEF LockInv, LockExclusive, LockedWhileHeld, Takes
  <2>1. CASE k = Wanted(c)
    <3>1. Holders(k) = {}
      BY <1>2, <2>1 DEF Takes, LockInv, LockedWhileHeld
    <3>2. Holders(k)' \subseteq {c}
      BY <1>2, <3>1 DEF Takes, Holders, TypeOK
    <3> QED BY <1>2, <2>1, <3>2 DEF Takes, TypeOK
  <2>2. CASE k # Wanted(c)
    <3>1. Holders(k)' = Holders(k) /\ lock'[k] = lock[k]
      BY <1>2, <2>2 DEF Takes, Holders, TypeOK
    <3> QED BY <3>1 DEF LockInv, LockExclusive, LockedWhileHeld
  <2> QED BY <2>1, <2>2
<1>3. ASSUME NEW c \in Calls, Leaves(c) PROVE LockInv'
  <2>1. PICK ks \in SUBSET Carts : /\ ks \subseteq got[c]
                                  /\ Leave(c, ks)
                                  /\ \A k \in Carts \ ks : lock[k] => lock'[k]
    BY <1>3 DEF Leaves
  <2> SUFFICES ASSUME NEW k \in Carts \ overrun'
               PROVE  (\A d, e \in Holders(k)' : d = e) /\ (Holders(k)' # {} => lock'[k])
    BY DEF LockInv, LockExclusive, LockedWhileHeld
  <2>2. Holders(k)' = IF k \in ks THEN Holders(k) \ {c} ELSE Holders(k)
    BY <2>1 DEF Leave, Holders, TypeOK
  <2>3. CASE k \in overrun
    <3>1. k \in ks /\ Holders(k) \subseteq {c}
      BY <2>1, <2>3 DEF Leave
    <3> QED BY <2>2, <3>1
  <2>4. CASE k \notin overrun /\ k \in ks
    <3>1. c \in Holders(k)
      BY <2>1, <2>4 DEF Holders
    <3>2. Holders(k)' = {}
      BY <2>2, <2>4, <3>1 DEF LockInv, LockExclusive
    <3> QED BY <3>2
  <2>5. CASE k \notin overrun /\ k \notin ks
    BY <2>1, <2>2, <2>5 DEF LockInv, LockExclusive, LockedWhileHeld
  <2> QED BY <2>3, <2>4, <2>5
<1>4. ASSUME NEW k \in Carts, LockExpires(k) PROVE LockInv'
  <2>1. got' = got
    BY <1>4 DEF LockExpires, locals
  <2> QED BY <1>4, <2>1
          DEF LockExpires, WorkedOn, LockInv, LockExclusive, LockedWhileHeld, Holders, TypeOK
<1> QED BY <1>1, <1>2, <1>3, <1>4, StepProgress

(* At most one call works on a cart whose lock did not run out under a call: the lock  *)
(* of cart/service.ts is exclusive as long as nobody outlives it, although releaseLock *)
(* deletes it whoever has set it.                                                      *)
THEOREM LocksExclude == Spec => []LockExclusive
<1>1. Init => LockInv
  BY DEF Init, LockInv, LockExclusive, LockedWhileHeld, Holders
<1>2. TypeOK /\ LocksByProgress /\ LockInv /\ [Next]_vars => LocksByProgress' /\ LockInv'
  BY NextLock, StepProgress
<1>3. LockInv => LockExclusive
  BY DEF LockInv
<1> QED BY <1>1, <1>2, <1>3, InitProgress, CartTypes, PTL DEF Spec

-----------------------------------------------------------------------------
(* While nothing has failed Redis is there, and a lock that is set has a holder. *)
LocksHaveHolders ==
  faults = 0 => side = "redis" /\ \A k \in Carts : lock[k] => Holders(k) # {}

LEMMA NextHolders ==
  ASSUME TypeOK, LocksByProgress, LocksHaveHolders, [Next]_vars
  PROVE  LocksHaveHolders'
<1> SUFFICES ASSUME faults' = 0
             PROVE  side' = "redis" /\ \A k \in Carts : lock'[k] => Holders(k)' # {}
  BY DEF LocksHaveHolders
<1>0. ~Fault
  BY DEF Fault, TypeOK
<1>1. faults = 0 /\ side = "redis" /\ \A k \in Carts : lock[k] => Holders(k) # {}
  <2>1. faults' = faults
    BY <1>0 DEF Next, Await, Begin, ClearCart, LockTaken, LockBusy, LockRefused, ReadCart,
       ItemMissing, ReadGuestCart, ReadUserCart, SaveCart, EmptyGuest, Unlock, UnlockFails,
       LockFails, ReadFails, ExpireFails, SaveFails, EmptyFails, ReleaseFails, LockExpires,
       LoseRedis, RegainRedis, vars
  <2> QED BY <2>1 DEF LocksHaveHolders
<1>2. side' = "redis"
  BY <1>0, <1>1 DEF Next, Await, Begin, ClearCart, LockTaken, LockBusy, LockRefused, ReadCart,
     ItemMissing, ReadGuestCart, ReadUserCart, SaveCart, EmptyGuest, Unlock, UnlockFails,
     LockFails, ReadFails, ExpireFails, SaveFails, EmptyFails, ReleaseFails, LockExpires,
     LoseRedis, RegainRedis, vars
<1>3. ASSUME NEW c \in Calls, LockTaken(c) \/ LockBusy(c) \/ LockRefused(c), NEW k \in Carts,
             lock'[k]
      PROVE  Holders(k)' # {}
  <2>1. CASE Quiet
    BY <1>1, <1>3, <2>1 DEF Quiet, Holders
  <2>2. CASE Takes(c)
    <3>1. \A d \in Calls : got[d] \subseteq got'[d]
      BY <2>2 DEF Takes, TypeOK
    <3>2. k = Wanted(c) => c \in Holders(k)'
      BY <2>2 DEF Takes, Holders, TypeOK
    <3>3. k # Wanted(c) => lock[k]
      BY <1>3, <2>2 DEF Takes, TypeOK
    <3> QED BY <1>1, <3>1, <3>2, <3>3 DEF Holders
  <2> QED BY <1>3, <2>1, <2>2, LockingProgress
<1>4. ASSUME NEW c \in Calls, Unlock(c), NEW k \in Carts, lock'[k]
      PROVE  Holders(k)' # {}
  <2>1. k # Released(c) /\ lock[k]
    BY <1>4 DEF Unlock, TypeOK
  <2>2. Holders(k)' = Holders(k)
    BY <1>4, <2>1 DEF Unlock, Leave, Holders, TypeOK
  <2> QED BY <1>1, <2>1, <2>2
<1>5. ASSUME NEW k \in Carts, LockExpires(k), NEW l \in Carts, lock'[l]
      PROVE  Holders(l)' # {}
  BY <1>1, <1>5 DEF LockExpires, locals, Holders, TypeOK
<1>6. CASE Quiet
  BY <1>1, <1>2, <1>6 DEF Quiet, Holders
<1>7. ASSUME NEW c \in Calls, UnlockFails(c) \/ LockFails(c) \/ ReleaseFails(c) PROVE FALSE
  BY <1>0, <1>1, <1>7 DEF UnlockFails, LockFails, ReleaseFails
<1>8. CASE LoseRedis \/ RegainRedis \/ UNCHANGED vars
  BY <1>6, <1>8 DEF LoseRedis, RegainRedis, vars, redis, locals, history, Quiet
<1> QED BY <1>2, <1>3, <1>4, <1>5, <1>6, <1>7, <1>8, WorkingProgress DEF Next, Await

(* As long as no command fails and Redis is there, a lock that is set is the lock of a *)
(* call that still runs: no path of cart/service.ts forgets one.                       *)
THEOREM LocksAreReleased == Spec => []NoLockLeftBehind
<1>1. Init => LocksHaveHolders
  BY DEF Init, LocksHaveHolders
<1>2. TypeOK /\ LocksByProgress /\ LocksHaveHolders /\ [Next]_vars
        => LocksByProgress' /\ LocksHaveHolders'
  BY NextHolders, StepProgress
<1>3. LocksByProgress /\ LocksHaveHolders => NoLockLeftBehind
  BY DEF LocksByProgress, LocksHaveHolders, NoLockLeftBehind, Holders
<1> QED BY <1>1, <1>2, <1>3, InitProgress, CartTypes, PTL DEF Spec

-----------------------------------------------------------------------------
(* The edits of CartLock are those of CartEdits *)

(* Without Redis nothing is promised of the carts calls are at work on. *)
MemoryIsLoose == side = "memory" => WorkedOn \subseteq disturbed

(* What a call is to save, made of what the carts hold in Redis. *)
Due(c) ==
  IF Merging(c) THEN Joined(store["redis"][User(c)], store["redis"][Guest(c)])
                ELSE Edited(store["redis"][Guest(c)], asks[c])

(* What a call has read of carts that are not loose is still so. *)
CopiesAreCurrent ==
  \A c \in Calls :
    /\ pc[c] \in {"idle", "locking", "lockingUser", "reading", "readingUser", "saving"}
         => c \notin applied
    /\ pc[c] \notin {"idle", "ended"} => asks[c].op # "clear"
    /\ pc[c] = "readingUser" /\ Guest(c) \notin Loose => copy[c] = store["redis"][Guest(c)]
    /\ pc[c] = "saving" /\ Guest(c) \notin Loose /\ User(c) \notin Loose =>
         /\ copy[c] = Due(c)
         /\ asks[c].op = "set" => store["redis"][Guest(c)][asks[c].product] > 0

EditsInv == TypeOK /\ LocksByProgress /\ LockInv /\ MemoryIsLoose /\ CopiesAreCurrent

(* What no step of c does to call d. *)
Spares(d) ==
  /\ pc'[d] = pc[d] /\ copy'[d] = copy[d] /\ got'[d] = got[d]
  /\ asks' = asks
  /\ d \in applied' <=> d \in applied
  /\ \A k \in got[d] : k \notin Loose' =>
       k \notin Loose /\ store'["redis"][k] = store["redis"][k]

LEMMA SparedCopies ==
  ASSUME EditsInv, NEW d \in Calls, Spares(d)
  PROVE  CopiesAreCurrent!(d)'
<1>1. pc[d] \in {"readingUser", "saving"} => got[d] = {Guest(d), User(d)}
  BY DEF EditsInv, LocksByProgress
<1>2. Guest(d)' = Guest(d) /\ User(d)' = User(d) /\ Merging(d)' = Merging(d)
  BY DEF Spares, Guest, User, Merging
<1>3. ASSUME pc[d] \in {"readingUser", "saving"}, Guest(d) \notin Loose'
      PROVE  Guest(d) \notin Loose /\ store'["redis"][Guest(d)] = store["redis"][Guest(d)]
  BY <1>1, <1>3 DEF Spares
<1>4. ASSUME pc[d] = "saving", User(d) \notin Loose'
      PROVE  User(d) \notin Loose /\ store'["redis"][User(d)] = store["redis"][User(d)]
  BY <1>1, <1>4 DEF Spares
<1>5. CASE pc[d] = "saving" /\ Guest(d) \notin Loose' /\ User(d) \notin Loose'
  <2>1. Due(d)' = Due(d)
    BY <1>2, <1>3, <1>4, <1>5 DEF Due, Spares
  <2> QED BY <1>2, <1>3, <1>4, <1>5, <2>1 DEF EditsInv, CopiesAreCurrent, Spares
<1>6. CASE ~(pc[d] = "saving" /\ Guest(d) \notin Loose' /\ User(d) \notin Loose')
  BY <1>2, <1>3, <1>6 DEF EditsInv, CopiesAreCurrent, Spares
<1> QED BY <1>5, <1>6

(* Only a holder writes to a cart, or whoever has no lock and makes it loose. *)
LEMMA WorkSpares ==
  ASSUME EditsInv, NEW c \in Calls, NEW d \in Calls \ {c},
         \/ Begin(c) \/ ClearCart(c)
         \/ ReadCart(c) \/ ItemMissing(c) \/ ReadGuestCart(c) \/ ReadUserCart(c)
         \/ SaveCart(c) \/ EmptyGuest(c)
         \/ ReadFails(c) \/ ExpireFails(c) \/ SaveFails(c) \/ EmptyFails(c)
  PROVE  Spares(d)
<1> USE DEF EditsInv
<1>1. /\ pc'[d] = pc[d] /\ copy'[d] = copy[d] /\ got'[d] = got[d] /\ asks' = asks
      /\ d \in applied' <=> d \in applied
  BY DEF Begin, ClearCart, ReadCart, ItemMissing, ReadGuestCart, ReadUserCart, SaveCart,
         EmptyGuest, ReadFails, ExpireFails, SaveFails, EmptyFails, Goto, TypeOK, redis, locals,
         history
<1>2. overrun' = overrun /\ disturbed \subseteq disturbed'
  BY DEF Begin, ClearCart, ReadCart, ItemMissing, ReadGuestCart, ReadUserCart, SaveCart, Spread,
         EmptyGuest, ReadFails, ExpireFails, SaveFails, EmptyFails, redis, locals, history
<1>3. ASSUME NEW k \in got[d], store'["redis"][k] # store["redis"][k] PROVE k \in Loose'
  <2>1. k \in Carts /\ d \in Holders(k)
    BY DEF TypeOK, Holders
  <2>2. CASE ClearCart(c)
    <3>1. k = Guest(c)
      BY <1>3, <2>1, <2>2 DEF ClearCart, TypeOK, Sides
    <3> QED BY <2>1, <2>2, <3>1 DEF ClearCart, Loose
  <2>3. CASE ~ClearCart(c)
    <3>1. store' = store \/ (k \in {Guest(c), User(c)}
                              /\ pc[c] \in {"reading", "readingUser", "saving", "emptying"})
      BY <1>3, <2>1, <2>3, AskTypes
         DEF Begin, ReadCart, ItemMissing, ReadGuestCart, ReadUserCart, SaveCart, EmptyGuest,
             ReadFails, ExpireFails, SaveFails, EmptyFails, ShownAtOnce, TypeOK, Sides, redis
    <3>2. c \in Holders(k)
      BY <1>3, <3>1 DEF LocksByProgress, Holders
    <3> QED BY <1>2, <2>1, <3>2 DEF LockInv, LockExclusive, Loose
  <2> QED BY <2>2, <2>3
<1> QED BY <1>1, <1>2, <1>3 DEF Spares, Loose

(* Taking a lock, in vain or not, and leaving touch no cart, and none is calm again *)
(* while d holds it.                                                                *)
LEMMA LocksSpare ==
  ASSUME EditsInv, NEW c \in Calls, NEW d \in Calls \ {c},
         \/ LockTaken(c) \/ LockBusy(c) \/ LockRefused(c)
         \/ Unlock(c) \/ UnlockFails(c) \/ LockFails(c) \/ ReleaseFails(c)
  PROVE  Spares(d)
<1> USE DEF EditsInv
<1>1. /\ pc'[d] = pc[d] /\ copy'[d] = copy[d] /\ got'[d] = got[d] /\ asks' = asks
      /\ d \in applied' <=> d \in applied
      /\ store' = store
  BY DEF LockTaken, LockBusy, LockRefused, Unlock, UnlockFails, LockFails, ReleaseFails, Leave,
         Attempted, Goto, TypeOK, redis, locals, history
<1>2. CASE LockTaken(c) \/ LockBusy(c) \/ LockRefused(c)
  BY <1>1, <1>2 DEF LockTaken, LockBusy, LockRefused, history, Spares, Loose
<1>3. CASE Unlock(c) \/ UnlockFails(c) \/ LockFails(c) \/ ReleaseFails(c)
  <2>1. PICK ks : Leave(c, ks)
    BY <1>3 DEF Unlock, UnlockFails, LockFails, ReleaseFails
  <2>2. \A k \in got[d] : k \in Loose => k \in Loose'
    BY <2>1 DEF Leave, Loose, Holders
  <2> QED BY <1>1, <2>2 DEF Spares
<1> QED BY <1>2, <1>3

LEMMA WorldSpares ==
  ASSUME EditsInv, NEW d \in Calls,
         LoseRedis \/ RegainRedis \/ UNCHANGED vars \/ \E k \in Carts : LockExpires(k)
  PROVE  Spares(d)
BY DEF LoseRedis, RegainRedis, vars, LockExpires, redis, locals, history, Spares, Loose

(* A call on what it has itself read. *)
LEMMA OwnCopies ==
  ASSUME EditsInv, NEW c \in Calls,
         \/ Begin(c) \/ ClearCart(c)
         \/ ReadCart(c) \/ ItemMissing(c) \/ ReadGuestCart(c) \/ ReadUserCart(c)
         \/ SaveCart(c) \/ EmptyGuest(c)
         \/ ReadFails(c) \/ ExpireFails(c) \/ SaveFails(c) \/ EmptyFails(c)
  PROVE  CopiesAreCurrent!(c)'
<1> USE DEF EditsInv
<1>0. asks' = asks /\ Guest(c)' = Guest(c) /\ User(c)' = User(c) /\ Merging(c)' = Merging(c)
  BY DEF Begin, ClearCart, ReadCart, ItemMissing, ReadGuestCart, ReadUserCart, SaveCart,
         EmptyGuest, ReadFails, ExpireFails, SaveFails, EmptyFails, Guest, User, Merging
<1>1. CASE Begin(c) \/ ClearCart(c)
  BY <1>0, <1>1 DEF Begin, ClearCart, Goto, TypeOK, CopiesAreCurrent, history
<1>2. CASE ItemMissing(c) \/ SaveCart(c) \/ EmptyGuest(c) \/ ReadFails(c) \/ SaveFails(c)
             \/ EmptyFails(c)
  <2>1. pc'[c] \in {"emptying", "unlocking"} /\ pc[c] \notin {"idle", "ended"}
    BY <1>2 DEF ItemMissing, SaveCart, EmptyGuest, ReadFails, SaveFails, EmptyFails, Goto, TypeOK
  <2> QED BY <1>0, <2>1 DEF CopiesAreCurrent
<1>3. CASE ExpireFails(c)
  <2>1. got[c] = {Guest(c), User(c)} /\ got[c] \subseteq Loose' /\ applied' = applied
    BY <1>3 DEF ExpireFails, LocksByProgress, Loose
  <2>2. pc'[c] \in {"readingUser", "saving", "unlocking"} /\ pc[c] \in {"reading", "readingUser"}
    BY <1>3 DEF ExpireFails, Goto, TypeOK
  <2> QED BY <1>0, <2>1, <2>2 DEF CopiesAreCurrent
<1>4. ASSUME pc[c] \in {"reading", "readingUser"}, NEW k \in {Guest(c), User(c)}, k \notin Loose
      PROVE  side = "redis"
  <2>1. k \in Carts /\ k \in WorkedOn
    BY <1>4, AskTypes DEF LocksByProgress, WorkedOn, Holders
  <2> QED BY <1>4, <2>1 DEF MemoryIsLoose, Loose, TypeOK, Sides
<1>5. CASE ReadCart(c)
  <2>1. pc'[c] = "saving" /\ pc[c] = "reading" /\ applied' = applied /\ Loose' = Loose
    BY <1>5 DEF ReadCart, Goto, TypeOK, history, Loose
  <2>2. ASSUME Guest(c) \notin Loose
        PROVE  /\ copy'[c] = Due(c)'
               /\ asks[c].op = "set" => store'["redis"][Guest(c)][asks[c].product] > 0
    <3>1. side = "redis" /\ store' = store
      BY <1>4, <1>5, <2>1, <2>2 DEF ReadCart, ShownAtOnce
    <3> QED BY <1>0, <1>5, <3>1 DEF ReadCart, Due, TypeOK
  <2> QED BY <1>0, <2>1, <2>2 DEF CopiesAreCurrent
<1>6. CASE ReadGuestCart(c)
  <2>1. pc'[c] = "readingUser" /\ pc[c] = "reading" /\ applied' = applied /\ Loose' = Loose
        /\ store' = store
    BY <1>6 DEF ReadGuestCart, Goto, TypeOK, history, redis, Loose
  <2>2. Guest(c) \notin Loose => copy'[c] = store["redis"][Guest(c)]
    BY <1>4, <1>6, <2>1 DEF ReadGuestCart, TypeOK
  <2> QED BY <1>0, <2>1, <2>2 DEF CopiesAreCurrent
<1>7. CASE ReadUserCart(c)
  <2>1. pc'[c] = "saving" /\ pc[c] = "readingUser" /\ applied' = applied /\ Loose' = Loose
    BY <1>7 DEF ReadUserCart, Goto, TypeOK, history, Loose
  <2>2. asks[c].op = "merge" /\ Merging(c)
    BY <2>1 DEF LocksByProgress, Merging
  <2>3. ASSUME Guest(c) \notin Loose, User(c) \notin Loose PROVE copy'[c] = Due(c)'
    <3>1. side = "redis" /\ store' = store
      BY <1>4, <1>7, <2>1, <2>3 DEF ReadUserCart, ShownAtOnce
    <3>2. copy[c] = store["redis"][Guest(c)]
      BY <2>1, <2>3 DEF CopiesAreCurrent
    <3> QED BY <1>0, <1>7, <2>2, <3>1, <3>2 DEF ReadUserCart, Due, TypeOK
  <2> QED BY <1>0, <2>1, <2>2, <2>3 DEF CopiesAreCurrent
<1> QED BY <1>1, <1>2, <1>3, <1>5, <1>6, <1>7

LEMMA OwnLocks ==
  ASSUME EditsInv, NEW c \in Calls,
         \/ LockTaken(c) \/ LockBusy(c) \/ LockRefused(c)
         \/ Unlock(c) \/ UnlockFails(c) \/ LockFails(c) \/ ReleaseFails(c)
  PROVE  CopiesAreCurrent!(c)'
<1> USE DEF EditsInv
<1>1. asks' = asks /\ applied' = applied
  BY DEF LockTaken, LockBusy, LockRefused, Unlock, UnlockFails, LockFails, ReleaseFails, history
<1>2. CASE LockTaken(c) \/ LockBusy(c) \/ LockRefused(c)
  <2>1. pc[c] \in {"locking", "lockingUser"}
        /\ pc'[c] \in {"locking", "lockingUser", "reading", "unlocking", "ended"}
    BY <1>2 DEF LockTaken, LockBusy, LockRefused, Locking, Attempted, Goto, TypeOK
  <2> QED BY <1>1, <2>1 DEF CopiesAreCurrent
<1>3. CASE Unlock(c) \/ UnlockFails(c) \/ LockFails(c) \/ ReleaseFails(c)
  <2>1. pc[c] \in {"locking", "lockingUser", "unlocking"} /\ pc'[c] \in {"unlocking", "ended"}
        /\ (pc'[c] = "unlocking" => pc[c] = "unlocking")
    BY <1>3 DEF Unlock, UnlockFails, LockFails, ReleaseFails, Locking, Goto, TypeOK
  <2> QED BY <1>1, <2>1 DEF CopiesAreCurrent
<1> QED BY <1>2, <1>3

LEMMA NextCopies ==
  ASSUME EditsInv, [Next]_vars
  PROVE  CopiesAreCurrent'
<1> SUFFICES ASSUME NEW d \in Calls PROVE CopiesAreCurrent!(d)'
  BY DEF CopiesAreCurrent
<1>1. ASSUME NEW c \in Calls, Begin(c) \/ ClearCart(c) \/ Await(c)
      PROVE  CopiesAreCurrent!(d)'
  <2>1. CASE c = d
    BY <1>1, <2>1, OwnCopies, OwnLocks DEF Await
  <2>2. CASE c # d
    BY <1>1, <2>2, WorkSpares, LocksSpare, SparedCopies DEF Await
  <2> QED BY <2>1, <2>2
<1> QED BY <1>1, WorldSpares, SparedCopies DEF Next

LEMMA NextMemory ==
  ASSUME EditsInv, [Next]_vars
  PROVE  MemoryIsLoose'
<1> USE DEF EditsInv
<1> SUFFICES ASSUME side' = "memory", NEW k \in WorkedOn' PROVE k \in disturbed'
  BY DEF MemoryIsLoose
<1>1. k \in Carts
  BY DEF WorkedOn
<1>2. CASE LoseRedis \/ RegainRedis \/ UNCHANGED vars \/ \E l \in Carts : LockExpires(l)
  BY <1>1, <1>2 DEF LoseRedis, RegainRedis, LockExpires, vars, redis, locals, history, WorkedOn,
                    Holders, MemoryIsLoose
<1>3. ASSUME NEW c \in Calls, Begin(c) \/ ClearCart(c) \/ Await(c) PROVE k \in disturbed'
  <2>1. side = "memory"
    BY <1>3 DEF Await, Begin, ClearCart, LockTaken, LockBusy, LockRefused, ReadCart, ItemMissing,
       ReadGuestCart, ReadUserCart, SaveCart, EmptyGuest, Unlock, UnlockFails, LockFails,
       ReadFails, ExpireFails, SaveFails, EmptyFails, ReleaseFails
  <2>2. CASE UnlockFails(c)
    <3>1. Holders(k)' = Holders(k) \ {d \in {c} : k \in got[c]}
      BY <2>2 DEF UnlockFails, Leave, Holders, TypeOK
    <3>2. k \in disturbed /\ ~(Holders(k) \subseteq {c} /\ k \in got[c])
      BY <1>1, <2>1, <3>1 DEF WorkedOn, MemoryIsLoose
    <3> QED BY <2>2, <3>2 DEF UnlockFails, Leave
  <2>3. CASE ~UnlockFails(c)
    <3>1. got' = got /\ disturbed \subseteq disturbed'
      BY <1>3, <2>1, <2>3 DEF Await, Begin, ClearCart, LockTaken, LockBusy, LockRefused,
         ReadCart, ItemMissing, ReadGuestCart, ReadUserCart, SaveCart, Spread, EmptyGuest, Unlock,
         LockFails, ReadFails, ExpireFails, SaveFails, EmptyFails, ReleaseFails, locals, history
    <3> QED BY <1>1, <2>1, <3>1 DEF WorkedOn, Holders, MemoryIsLoose
  <2> QED BY <2>2, <2>3
<1> QED BY <1>2, <1>3 DEF Next

LEMMA EditsInvariant == Spec => []EditsInv
<1>1. Init => EditsInv
  <2> SUFFICES ASSUME Init PROVE EditsInv
    OBVIOUS
  <2>1. TypeOK
    BY InitTypes
  <2>2. LockInv /\ MemoryIsLoose /\ CopiesAreCurrent
    BY DEF Init, LockInv, LockExclusive, LockedWhileHeld, Holders, MemoryIsLoose,
           CopiesAreCurrent
  <2> QED BY <2>1, <2>2, InitProgress DEF EditsInv
<1>2. EditsInv /\ [Next]_vars => EditsInv'
  BY NextType, StepProgress, NextLock, NextMemory, NextCopies DEF EditsInv
<1> QED BY <1>1, <1>2, PTL DEF Spec

-----------------------------------------------------------------------------
(* A merge has saved cart k into another, and has not emptied it yet. *)
Emptying(k) == \E c \in Calls : pc[c] = "emptying" /\ Guest(c) = k

ShownCart(s, k) ==
  IF s = "redis" /\ k \notin Loose /\ Emptying(k) THEN Empty ELSE store[s][k]

LEMMA ShownValue == \A s \in Sides, k \in Carts : Shown[s][k] = ShownCart(s, k)
BY DEF Shown, ShownCart, Emptying

LEMMA ShownNext == \A s \in Sides, k \in Carts : Shown'[s][k] = ShownCart(s, k)'
BY DEF Shown, ShownCart, Emptying

(* Shown has carts on both sides, before and after. *)
LEMMA ShownDomains ==
  /\ Shown = [s \in Sides |-> [k \in Carts |-> Shown[s][k]]]
  /\ Shown' = [s \in Sides |-> [k \in Carts |-> Shown'[s][k]]]
BY DEF Shown

(* One cart on one side becomes another; the rest is as it was. *)
LEMMA ShownBecomes ==
  ASSUME NEW s \in Sides, NEW k \in Carts, NEW cart,
         Shown'[s][k] = cart,
         \A z \in Sides, l \in Carts : z # s \/ l # k => Shown'[z][l] = Shown[z][l]
  PROVE  Shown' = [Shown EXCEPT ![s][k] = cart]
BY ShownDomains

(* Two carts of one side do. *)
LEMMA ShownBecomeTwo ==
  ASSUME NEW s \in Sides, NEW k \in Carts, NEW j \in Carts, NEW cart, NEW other, k # j,
         Shown'[s][k] = cart, Shown'[s][j] = other,
         \A z \in Sides, l \in Carts : z # s \/ l \notin {k, j} => Shown'[z][l] = Shown[z][l]
  PROVE  Shown' = [Shown EXCEPT ![s][k] = cart, ![s][j] = other]
<1> DEFINE one == [z \in Sides |-> [l \in Carts |-> IF z = s /\ l = k THEN cart ELSE Shown[z][l]]]
           two == [z \in Sides |-> [l \in Carts |-> IF z = s /\ l = j THEN other ELSE one[z][l]]]
<1>1. [Shown EXCEPT ![s][k] = cart] = one
  BY ShownDomains
<1>2. [one EXCEPT ![s][j] = other] = two
  OBVIOUS
<1>3. Shown' = two
  <2>1. \A z \in Sides, l \in Carts : Shown'[z][l] = two[z][l]
    OBVIOUS
  <2> HIDE DEF two
  <2>2. two = [z \in Sides |-> [l \in Carts |-> two[z][l]]]
    BY DEF two
  <2> QED BY <2>1, <2>2, ShownDomains
<1>4. [Shown EXCEPT ![s][k] = cart, ![s][j] = other] = [one EXCEPT ![s][j] = other]
  BY <1>1
<1> QED BY <1>2, <1>3, <1>4

(* A step that changes loose carts alone. *)
LEMMA StraySteps ==
  ASSUME EditsInv, asks' = asks, applied \subseteq applied',
         \A s \in Sides, k \in Carts : k \in Loose' \/ store'[s][k] = store[s][k],
         \A k \in Carts \ Loose' : Emptying(k)' <=> (k \notin Loose /\ Emptying(k))
  PROVE  Edits!Stray
<1>1. ASSUME NEW s \in Sides, NEW k \in Carts, k \notin Loose'
      PROVE  Shown'[s][k] = Shown[s][k]
  BY <1>1, ShownValue, ShownNext DEF ShownCart
<1> QED BY <1>1 DEF Edits!Stray

(* Whoever empties a cart that kept its lock is the only one at work on it. *)
LEMMA EmptyingHolds ==
  ASSUME EditsInv, NEW c \in Calls, NEW k \in Carts \ overrun, c \in Holders(k), Emptying(k)
  PROVE  pc[c] = "emptying" /\ Guest(c) = k
<1>1. PICK d \in Calls : pc[d] = "emptying" /\ Guest(d) = k
  BY DEF Emptying
<1>2. d \in Holders(k)
  BY <1>1 DEF EditsInv, LocksByProgress, Holders
<1> QED BY <1>1, <1>2 DEF EditsInv, LockInv, LockExclusive

(* The steps of c that begin and end outside of "emptying" change nobody's emptying. *)
LEMMA SameEmptying ==
  ASSUME EditsInv, NEW c \in Calls, asks' = asks,
         pc[c] # "emptying", pc'[c] # "emptying",
         \A d \in Calls \ {c} : pc'[d] = pc[d],
         NEW k
  PROVE  Emptying(k)' <=> Emptying(k)
BY DEF Emptying, Guest

(* Reads, locks that are taken and failures before the save *)
LEMMA ReadsStray ==
  ASSUME EditsInv, NEW c \in Calls,
         \/ Begin(c) \/ LockTaken(c) \/ LockBusy(c) \/ LockRefused(c)
         \/ ReadCart(c) \/ ItemMissing(c) \/ ReadGuestCart(c) \/ ReadUserCart(c)
         \/ ReadFails(c) \/ ExpireFails(c)
  PROVE  Edits!Stray
<1> USE DEF EditsInv
<1>1. asks' = asks /\ applied' = applied /\ overrun' = overrun /\ disturbed \subseteq disturbed'
  BY DEF Begin, LockTaken, LockBusy, LockRefused, ReadCart, ItemMissing, ReadGuestCart,
         ReadUserCart, ReadFails, ExpireFails, redis, locals, history
<1>2. pc[c] # "emptying" /\ pc'[c] # "emptying" /\ \A d \in Calls \ {c} : pc'[d] = pc[d]
  BY DEF Begin, LockTaken, LockBusy, LockRefused, Locking, Attempted, ReadCart, ItemMissing,
         ReadGuestCart, ReadUserCart, ReadFails, ExpireFails, Goto, TypeOK
<1>3. ASSUME NEW s \in Sides, NEW k \in Carts, store'[s][k] # store[s][k] PROVE k \in Loose'
  <2>1. /\ pc[c] \in {"reading", "readingUser"} /\ side = "memory"
        /\ k \in {Guest(c), User(c)}
    BY <1>3, AskTypes DEF Begin, LockTaken, LockBusy, LockRefused, ReadCart, ItemMissing,
       ReadGuestCart, ReadUserCart, ReadFails, ExpireFails, ShownAtOnce, redis, TypeOK, Sides
  <2>2. k \in WorkedOn
    BY <2>1 DEF LocksByProgress, WorkedOn, Holders
  <2> QED BY <1>1, <2>1, <2>2 DEF MemoryIsLoose, Loose
<1> QED BY <1>1, <1>2, <1>3, SameEmptying, StraySteps DEF Loose

(* Leaving carts: those that are calm again are nobody's to empty. *)
LEMMA LeavesStray ==
  ASSUME EditsInv, NEW c \in Calls,
         Unlock(c) \/ UnlockFails(c) \/ LockFails(c) \/ ReleaseFails(c)
  PROVE  Edits!Stray
<1> USE DEF EditsInv
<1>1. asks' = asks /\ applied' = applied /\ store' = store
  BY DEF Unlock, UnlockFails, LockFails, ReleaseFails, redis
<1>2. pc[c] # "emptying" /\ pc'[c] # "emptying" /\ \A d \in Calls \ {c} : pc'[d] = pc[d]
  BY DEF Unlock, UnlockFails, LockFails, ReleaseFails, Locking, Goto, TypeOK
<1>3. ASSUME NEW k \in Carts \ Loose', k \in Loose PROVE ~Emptying(k)
  <2>1. Holders(k) \subseteq {c}
    BY <1>3 DEF Unlock, UnlockFails, LockFails, ReleaseFails, Leave, Loose
  <2> QED BY <1>2, <2>1 DEF Emptying, LocksByProgress, Holders
<1> QED BY <1>1, <1>2, <1>3, SameEmptying, StraySteps

(* What fails in or after the save leaves its carts loose. *)
LEMMA FailuresStray ==
  ASSUME EditsInv, NEW c \in Calls, SaveFails(c) \/ EmptyFails(c)
  PROVE  Edits!Stray
<1> USE DEF EditsInv
<1>1. /\ asks' = asks /\ applied \subseteq applied'
      /\ overrun' = overrun /\ disturbed' = disturbed \cup got[c]
      /\ got[c] = {Guest(c), User(c)}
  BY DEF SaveFails, EmptyFails, LocksByProgress
<1>2. pc'[c] # "emptying" /\ \A d \in Calls \ {c} : pc'[d] = pc[d]
  BY DEF SaveFails, EmptyFails, Goto, TypeOK
<1>3. ASSUME NEW k \in Carts \ Loose' PROVE Emptying(k)' <=> (k \notin Loose /\ Emptying(k))
  BY <1>1, <1>2, <1>3 DEF Emptying, Guest, Loose
<1>4. ASSUME NEW s \in Sides, NEW k \in Carts, k \notin Loose' PROVE store'[s][k] = store[s][k]
  BY <1>1, <1>4, AskTypes DEF SaveFails, EmptyFails, Loose, TypeOK, Sides
<1> QED BY <1>1, <1>3, <1>4, StraySteps

(* The guest cart was shown as empty since the save. *)
LEMMA EmptyingStrays ==
  ASSUME EditsInv, NEW c \in Calls, EmptyGuest(c)
  PROVE  Edits!Stray
<1> USE DEF EditsInv
<1>1. /\ asks' = asks /\ applied' = applied /\ Loose' = Loose
      /\ pc[c] = "emptying" /\ pc'[c] = "unlocking"
      /\ \A d \in Calls \ {c} : pc'[d] = pc[d]
      /\ got[c] = {Guest(c), User(c)}
  BY DEF EmptyGuest, Goto, TypeOK, LocksByProgress, history, Loose
<1>2. ASSUME NEW s \in Sides, NEW k \in Carts, k \notin Loose
      PROVE  Shown'[s][k] = Shown[s][k]
  <2>1. CASE k = Guest(c)
    <3>1. c \in Holders(k) /\ Emptying(k) /\ k \notin overrun
      BY <1>1, <1>2, <2>1 DEF Holders, Emptying, Loose
    <3>2. ~Emptying(k)'
      <4> SUFFICES ASSUME NEW d \in Calls, pc'[d] = "emptying", Guest(d)' = k PROVE FALSE
        BY DEF Emptying
      <4>1. d # c /\ pc[d] = "emptying" /\ Guest(d) = k
        BY <1>1 DEF Guest
      <4>2. d \in Holders(k)
        BY <4>1 DEF LocksByProgress, Holders
      <4> QED BY <3>1, <4>1, <4>2 DEF LockInv, LockExclusive
    <3>3. store'[s][k] = IF s = "redis" THEN Empty ELSE store[s][k]
      BY <2>1, AskTypes DEF EmptyGuest, TypeOK, Sides
    <3> QED BY <1>1, <1>2, <3>1, <3>2, <3>3, ShownValue, ShownNext DEF ShownCart
  <2>2. CASE k # Guest(c)
    <3>1. Emptying(k)' <=> Emptying(k)
      BY <1>1, <2>2 DEF Emptying, Guest
    <3>2. store'[s][k] = store[s][k]
      BY <2>2, AskTypes DEF EmptyGuest, TypeOK, Sides
    <3> QED BY <1>1, <3>1, <3>2, ShownValue, ShownNext DEF ShownCart
  <2> QED BY <2>1, <2>2
<1> QED BY <1>1, <1>2 DEF Edits!Stray

(* clearCart, on a cart nobody is at work on; on another it makes the cart loose. *)
LEMMA ClearsApply ==
  ASSUME EditsInv, NEW c \in Calls, ClearCart(c)
  PROVE  Edits!Stray \/ Edits!Apply(c)
<1> USE DEF EditsInv
<1>1. /\ asks' = asks /\ applied' = applied \cup {c} /\ c \notin applied
      /\ pc[c] = "idle" /\ pc'[c] = "ended" /\ asks[c].op = "clear"
      /\ \A d \in Calls \ {c} : pc'[d] = pc[d]
      /\ Loose \subseteq Loose' /\ Loose' \subseteq Loose \cup {Guest(c)}
      /\ side \in Sides /\ Guest(c) \in Carts
  BY AskTypes DEF ClearCart, Goto, TypeOK, CopiesAreCurrent, Loose
<1>2. \A s \in Sides, k \in Carts :
        store'[s][k] = IF s = side /\ k = Guest(c) THEN Empty ELSE store[s][k]
  BY <1>1 DEF ClearCart, TypeOK
<1>3. \A k : Emptying(k)' <=> Emptying(k)
  BY <1>1, SameEmptying
<1>4. CASE Guest(c) \in Loose'
  BY <1>1, <1>2, <1>3, <1>4, StraySteps
<1>5. CASE Guest(c) \notin Loose'
  <2>1. Holders(Guest(c)) = {} /\ Loose' = Loose
    BY <1>1, <1>5 DEF ClearCart, Loose
  <2>2. ~Emptying(Guest(c))
    BY <2>1 DEF Emptying, LocksByProgress, Holders
  <2>3. Shown'[side][Guest(c)] = Empty
    BY <1>1, <1>2, <1>3, <2>1, <2>2, ShownNext DEF ShownCart
  <2>4. \A s \in Sides, k \in Carts : s # side \/ k # Guest(c) => Shown'[s][k] = Shown[s][k]
    BY <1>2, <1>3, <2>1, ShownValue, ShownNext DEF ShownCart
  <2>5. Shown' = [Shown EXCEPT ![side][Guest(c)] = Empty]
    BY <1>1, <2>3, <2>4, ShownBecomes
  <2>6. Edits!Clear(c, side)
    BY <1>1, <2>5 DEF Edits!Clear, Edits!Becomes, Edits!Empty, Empty, Guest
  <2> QED BY <1>1, <2>6 DEF Edits!Apply
<1> QED BY <1>4, <1>5

(* A save of what was made of loose carts *)
LEMMA LooseSavesStray ==
  ASSUME EditsInv, NEW c \in Calls, SaveCart(c), {Guest(c), User(c)} \cap Loose # {}
  PROVE  Edits!Stray
<1> USE DEF EditsInv
<1>1. /\ asks' = asks /\ applied \subseteq applied'
      /\ Loose' = Loose \cup {Guest(c), User(c)}
      /\ pc[c] = "saving" /\ \A d \in Calls \ {c} : pc'[d] = pc[d]
  BY DEF SaveCart, Spread, Goto, TypeOK, Loose
<1>2. ASSUME NEW k \in Carts \ Loose' PROVE Emptying(k)' <=> (k \notin Loose /\ Emptying(k))
  BY <1>1, <1>2 DEF Emptying, Guest
<1>3. ASSUME NEW s \in Sides, NEW k \in Carts, k \notin Loose' PROVE store'[s][k] = store[s][k]
  BY <1>1, <1>3, AskTypes DEF SaveCart, TypeOK, Sides
<1> QED BY <1>1, <1>2, <1>3, StraySteps

(* Any other save is the edit itself. *)
LEMMA SavesApply ==
  ASSUME EditsInv, NEW c \in Calls, SaveCart(c), {Guest(c), User(c)} \cap Loose = {}
  PROVE  Edits!Apply(c)
<1> USE DEF EditsInv
<1>1. /\ asks' = asks /\ applied' = applied \cup {c} /\ c \notin applied
      /\ pc[c] = "saving" /\ pc'[c] = (IF Merging(c) THEN "emptying" ELSE "unlocking")
      /\ \A d \in Calls \ {c} : pc'[d] = pc[d]
      /\ Loose' = Loose /\ got[c] = {Guest(c), User(c)}
      /\ Guest(c) \in Carts /\ User(c) \in Carts
      /\ asks[c].op # "clear"
  BY AskTypes DEF SaveCart, Spread, Goto, TypeOK, LocksByProgress, CopiesAreCurrent, Loose
<1>2. side = "redis"
  <2>1. Guest(c) \in WorkedOn
    BY <1>1 DEF WorkedOn, Holders
  <2> QED BY <2>1 DEF MemoryIsLoose, Loose, TypeOK, Sides
<1>3. /\ copy[c] = Due(c)
      /\ asks[c].op = "set" => store["redis"][Guest(c)][asks[c].product] > 0
  BY <1>1 DEF CopiesAreCurrent
<1>4. \A s \in Sides, k \in Carts :
        store'[s][k] = IF s = "redis" /\ k = User(c) THEN Due(c) ELSE store[s][k]
  BY <1>1, <1>2, <1>3 DEF SaveCart, TypeOK, Sides
<1>5. ~Emptying(Guest(c)) /\ ~Emptying(User(c))
  <2>1. c \in Holders(Guest(c)) /\ c \in Holders(User(c))
        /\ Guest(c) \notin overrun /\ User(c) \notin overrun
    BY <1>1 DEF Holders, Loose
  <2> QED BY <1>1, <2>1, EmptyingHolds
<1>6. \A k : Emptying(k)' <=> Emptying(k) \/ (Merging(c) /\ k = Guest(c))
  BY <1>1 DEF Emptying, Guest
<1>7. "redis" \in Sides
  BY DEF Sides
<1>8. Shown["redis"][Guest(c)] = store["redis"][Guest(c)]
      /\ Shown["redis"][User(c)] = store["redis"][User(c)]
  BY <1>1, <1>5, <1>7, ShownValue DEF ShownCart
<1>9. asks[c] \in Asks /\ (Merging(c) <=> Guest(c) # User(c))
      /\ asks[c].op \in {"add", "set", "clear", "merge"}
  BY AskTypes
<1>10. CASE Merging(c)
  <2>1. Shown'["redis"][User(c)] = Due(c)
    BY <1>1, <1>4, <1>5, <1>6, <1>7, <1>9, <1>10, ShownNext DEF ShownCart
  <2>2. Shown'["redis"][Guest(c)] = Empty
    BY <1>1, <1>6, <1>7, <1>10, ShownNext DEF ShownCart
  <2>3. \A s \in Sides, k \in Carts :
          s # "redis" \/ k \notin {User(c), Guest(c)} => Shown'[s][k] = Shown[s][k]
    BY <1>1, <1>4, <1>6, ShownValue, ShownNext DEF ShownCart
  <2>4. Shown' = [Shown EXCEPT !["redis"][User(c)] = Due(c), !["redis"][Guest(c)] = Empty]
    BY <1>1, <1>7, <1>9, <1>10, <2>1, <2>2, <2>3, ShownBecomeTwo
  <2>5. Due(c) = Edits!Joined(Shown["redis"][User(c)], Shown["redis"][Guest(c)])
    BY <1>8, <1>10 DEF Due, Joined, Edits!Joined
  <2>6. Edits!Merge(c, "redis")
    BY <1>10, <2>4, <2>5 DEF Edits!Merge, Edits!Empty, Empty, Guest, User, Merging
  <2> QED BY <1>1, <1>7, <2>6 DEF Edits!Apply
<1>11. CASE ~Merging(c)
  <2>1. Shown'["redis"][Guest(c)] = Due(c)
    BY <1>1, <1>4, <1>5, <1>6, <1>7, <1>9, <1>11, ShownNext DEF ShownCart
  <2>2. \A s \in Sides, k \in Carts :
          s # "redis" \/ k # Guest(c) => Shown'[s][k] = Shown[s][k]
    BY <1>1, <1>4, <1>6, <1>9, <1>11, ShownValue, ShownNext DEF ShownCart
  <2>3. Shown' = [Shown EXCEPT !["redis"][Guest(c)] = Due(c)]
    BY <1>1, <1>7, <2>1, <2>2, ShownBecomes
  <2>4. Due(c) = Edited(Shown["redis"][Guest(c)], asks[c])
    BY <1>8, <1>11 DEF Due
  <2>5. CASE asks[c].op = "add"
    <3>1. Edits!Add(c, "redis")
      BY <2>3, <2>4, <2>5 DEF Edits!Add, Edits!Becomes, Edits!Added, Added, Edited, Guest
    <3> QED BY <1>1, <1>7, <3>1 DEF Edits!Apply
  <2>6. CASE asks[c].op = "set"
    <3>1. Edits!Change(c, "redis")
      BY <1>3, <1>8, <2>3, <2>4, <2>6
         DEF Edits!Change, Edits!Becomes, Edits!Changed, Changed, Edited, Guest
    <3> QED BY <1>1, <1>7, <3>1 DEF Edits!Apply
  <2> QED BY <1>1, <1>9, <1>11, <2>5, <2>6 DEF Merging
<1> QED BY <1>10, <1>11

(* Redis and the clock only make carts loose. *)
LEMMA WorldStrays ==
  ASSUME EditsInv, LoseRedis \/ RegainRedis \/ UNCHANGED vars \/ \E k \in Carts : LockExpires(k)
  PROVE  Edits!Stray
<1>1. /\ asks' = asks /\ applied' = applied /\ store' = store /\ pc' = pc
      /\ Loose \subseteq Loose'
  BY DEF LoseRedis, RegainRedis, LockExpires, vars, redis, locals, history, Loose
<1>2. \A k : Emptying(k)' <=> Emptying(k)
  BY <1>1 DEF Emptying, Guest
<1> QED BY <1>1, <1>2, StraySteps

LEMMA EditsStep == EditsInv /\ [Next]_vars => Edits!Next
<1> SUFFICES ASSUME EditsInv, [Next]_vars PROVE Edits!Next
  OBVIOUS
<1>1. ASSUME NEW c \in Calls, SaveCart(c) PROVE Edits!Next
  BY <1>1, LooseSavesStray, SavesApply DEF Edits!Next
<1>2. ASSUME NEW c \in Calls, ClearCart(c) PROVE Edits!Next
  BY <1>2, ClearsApply DEF Edits!Next
<1>3. ASSUME NEW c \in Calls, Begin(c) \/ (Await(c) /\ ~SaveCart(c)) PROVE Edits!Stray
  BY <1>3, ReadsStray, LeavesStray, FailuresStray, EmptyingStrays DEF Await
<1> QED BY <1>1, <1>2, <1>3, WorldStrays DEF Next, Edits!Next

(* Every call on carts that keep their locks, and that nothing else touches, changes  *)
(* them once and by an edit of what they hold at that moment, however calls, failures, *)
(* expiring locks and losses of Redis interleave: cart/service.ts implements CartEdits.*)
THEOREM CartsImplementEdits == Spec => EditsApplyOnce
<1>1. Init => Edits!Init
  <2> SUFFICES ASSUME Init PROVE Edits!Init
    OBVIOUS
  <2>1. \A k \in Carts : ~Emptying(k)
    BY DEF Init, Emptying
  <2>2. \A s \in Sides, k \in Carts : Shown[s][k] = store[s][k]
    BY <2>1, ShownValue DEF ShownCart
  <2>3. store \in [Sides -> [Carts -> Contents]]
    BY InitTypes DEF TypeOK
  <2>4. Shown \in [Sides -> [Carts -> Contents]]
    BY <2>2, <2>3, ShownDomains
  <2> QED BY <2>4 DEF Init, Edits!Init, Edits!Contents, Contents, Loose
<1>2. EditsInv /\ [Next]_vars => [Edits!Next]_(Edits!vars)
  BY EditsStep
<1> QED BY <1>1, <1>2, EditsInvariant, PTL DEF Spec, EditsApplyOnce, Edits!Spec

=============================================================================
