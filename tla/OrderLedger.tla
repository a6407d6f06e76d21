---------------------------- MODULE OrderLedger ----------------------------
(***************************************************************************)
(* Orders and the stock ledger of one branch of one tenant:                *)
(* src/src/modules/orders/service.ts and src/src/modules/inventory/        *)
(* service.ts over the PostgreSQL tables Order and StockMovement.          *)
(*                                                                         *)
(* StockMovement is append-only: the stock of a key (productId:variantId)  *)
(* is the SUM of its rows, and what an order has taken and given back are   *)
(* the rows whose referenceId it is.                                        *)
(*                                                                         *)
(* A prisma.$transaction is split where another one can run: it reads its  *)
(* SUM, obtains the row locks one key at a time, and commits (all its      *)
(* writes become visible at once) or rolls back (no trace).                *)
(***************************************************************************)
EXTENDS Integers

CONSTANTS
  Keys,          \* stock keys, `productId:variantId`
  Orders,        \* calls of createOrderFromCheckout, each asking for one order
  Items,         \* Items[o][k]: quantity of key k in the items of call o
  PaymentOf,     \* PaymentOf[o]: the paymentId given to call o
  Sellable,      \* keys whose product is active and visible
  Opening,       \* Opening[k]: sum of the ledger of k when the behaviour starts
  Manual,        \* calls of createStockMovement
  Movement,      \* Movement[m]: the input of call m
  Staff,         \* calls of updateOrderStatus
  SumAnswers,    \* what the database may do with SELECT SUM(..) .. FOR UPDATE
  MaxQuantity    \* largest quantity createStockMovement accepts

Txs == Orders \cup Manual
MovementTypes == {"INBOUND", "OUTBOUND", "ADJUSTMENT", "TRANSFER"}
OrderStatuses == {"pending", "confirmed", "cancelled", "refunded"}

(* Statuses whose orders give their items back. *)
ReturningRefundsOnly == {"refunded"}   \* mutant: a cancellation restocks nothing
Returning == {"cancelled", "refunded"}

ASSUME LedgerConstants ==
  /\ Orders \cap Manual = {}
  /\ Items \in [Orders -> [Keys -> Nat]]
  /\ \A o \in Orders : \E k \in Keys : Items[o][k] > 0
  /\ Sellable \subseteq Keys
  /\ Opening \in [Keys -> Nat]
  /\ Movement \in [Manual -> [type: MovementTypes, key: Keys,
                              quantity: Int, owned: BOOLEAN]]
  /\ MaxQuantity \in Nat
  /\ SumAnswers \subseteq {"accepts", "refuses"}

VARIABLES
  database,   \* whether it accepts or refuses FOR UPDATE beside an aggregate
  stock,      \* stock[k]: SUM(quantity) of the committed rows of key k
  status,     \* status[o]: Order.status, "none" while there is no row
  balance,    \* balance[o]: net movements with referenceId o, in units of o's items
  tx,         \* tx[t]: progress of the transaction of call t
  seen,       \* seen[t]: the sums its statement read when it started
  held,       \* held[t]: keys whose ledger rows it has locked
  rivals,     \* rivals[t]: withdrawals committed on a key of t since t read its sums
  call,       \* call[s]: progress of status call s
  contested,  \* history: orders where a status call committed over a rival's
  overrun     \* history: overrun[k]: taken of k by withdrawals committed over a rival's

ledger == <<stock, balance, overrun>>
work == <<tx, seen, held, rivals>>
vars == <<database, ledger, status, work, call, contested>>

-----------------------------------------------------------------------------
(* The keys a withdrawal draws on, and how much it takes of each. *)
Draw(t, k) ==
  IF t \in Orders THEN Items[t][k]
  ELSE IF Movement[t].key = k THEN Movement[t].quantity ELSE 0

Need(t) ==
  IF t \in Orders THEN {k \in Keys : Items[t][k] > 0} ELSE {Movement[t].key}

NothingSeen == [k \in Keys |-> 0]

(* VALID_TRANSITIONS *)
ValidTransitionsSkipping ==            \* mutant: a pending order can be refunded
  [pending   |-> {"confirmed", "cancelled", "refunded"},
   confirmed |-> {"cancelled", "refunded"},
   cancelled |-> {},
   refunded  |-> {}]

ValidTransitions ==
  [pending   |-> {"confirmed", "cancelled"},
   confirmed |-> {"cancelled", "refunded"},
   cancelled |-> {},
   refunded  |-> {}]

WellFormedSigned(m) ==                 \* mutant: a signed adjustment is accepted
  /\ Movement[m].quantity > 0 \/ Movement[m].type = "ADJUSTMENT"
  /\ Movement[m].quantity <= MaxQuantity
  /\ Movement[m].owned

(* The checks createStockMovement makes before it opens its transaction. *)
WellFormed(m) ==
  /\ Movement[m].quantity > 0
  /\ Movement[m].quantity <= MaxQuantity
  /\ Movement[m].owned

Outbound(m) == Movement[m].type = "OUTBOUND"

Init ==
  /\ database \in SumAnswers
  /\ stock = Opening
  /\ status = [o \in Orders |-> "none"]
  /\ balance = [o \in Orders |-> 0]
  /\ tx = [t \in Txs |-> "idle"]
  /\ seen = [t \in Txs |-> NothingSeen]
  /\ held = [t \in Txs |-> {}]
  /\ rivals = [t \in Txs |-> {}]
  /\ call = [s \in Staff |-> [pc |-> "idle"]]
  /\ contested = {}
  /\ overrun = NothingSeen

-----------------------------------------------------------------------------
(* PostgreSQL, as far as the transactions use it. *)

(* The SUM statement starts: it sees what is committed now. *)
ReadSums(t) ==
  /\ tx' = [tx EXCEPT ![t] = "summing"]
  /\ seen' = [seen EXCEPT ![t] = [k \in Keys |-> IF k \in Need(t) THEN stock[k] ELSE 0]]
  /\ UNCHANGED <<database, ledger, status, held, rivals, call, contested>>

(* FOR UPDATE locks the rows of one more key.  The rows are immutable, so  *)
(* the statement does not see what was inserted while it waited.           *)
LockRows(t, k) ==
  /\ tx[t] = "summing"
  /\ k \in Need(t) \ held[t]
  /\ \A u \in Txs : k \notin held[u]
  /\ held' = [held EXCEPT ![t] = @ \cup {k}]
  /\ UNCHANGED <<database, ledger, status, tx, seen, rivals, call, contested>>

Locked(t) == tx[t] = "summing" /\ held[t] = Need(t)

(* Its locks and its local state are gone when a transaction ends. *)
Finish(t, outcome) ==
  /\ tx' = [tx EXCEPT ![t] = outcome]
  /\ held' = [held EXCEPT ![t] = {}]
  /\ seen' = [seen EXCEPT ![t] = NothingSeen]

(* Someone else's withdrawal of k was committed since t read its sum. *)
Rivalled(t, k) == \E u \in rivals[t] : k \in Need(u)

(* The writes of a withdrawal become visible. *)
Withdraw(t) ==
  /\ stock' = [k \in Keys |-> stock[k] - Draw(t, k)]
  /\ rivals' = [u \in Txs |->
                  IF u = t THEN {}
                  ELSE IF tx[u] = "summing" /\ Need(u) \cap Need(t) # {}
                  THEN rivals[u] \cup {t} ELSE rivals[u]]
  /\ overrun' = [k \in Keys |-> IF Rivalled(t, k) THEN overrun[k] + Draw(t, k) ELSE overrun[k]]

(* A transaction gives up without a trace. *)
RollBack(t) ==
  /\ Finish(t, "failed")
  /\ rivals' = [rivals EXCEPT ![t] = {}]
  /\ UNCHANGED <<database, ledger, status, call, contested>>

(* Every transaction in flight waits for a row another one has locked. *)
Deadlocked ==
  \A t \in Txs : tx[t] = "summing" =>
    /\ ~Locked(t)
    /\ \A k \in Need(t) \ held[t] : \E u \in Txs : k \in held[u]

(* The deadlock detector cancels one of them. *)
DeadlockVictim(t) ==
  /\ tx[t] = "summing"
  /\ Deadlocked
  /\ RollBack(t)

(* The connection or the process is lost before COMMIT. *)
ConnectionLost(t) ==
  /\ tx[t] = "summing"
  /\ RollBack(t)

-----------------------------------------------------------------------------
(* createOrderFromCheckout *)

BeginOrder(o) ==
  /\ tx[o] = "idle"
  /\ Need(o) \subseteq Sellable
  /\ database = "accepts"
  /\ ReadSums(o)

RefuseOrder(o) ==
  /\ tx[o] = "idle"
  /\ ~(Need(o) \subseteq Sellable) \/ database = "refuses"
  /\ RollBack(o)

CoveredSome(t) ==                       \* mutant: one item in stock is enough
  \E k \in Need(t) : seen[t][k] >= Draw(t, k)

Covered(t) == \A k \in Need(t) : seen[t][k] >= Draw(t, k)

PaymentUnused(o) ==
  \A p \in Orders : PaymentOf[p] = PaymentOf[o] => status[p] = "none"

CommitOrderPaid(o) ==                   \* mutant: the payment's status as the order's
  /\ Locked(o)
  /\ Covered(o)
  /\ PaymentUnused(o)
  /\ status' = [status EXCEPT ![o] = "approved"]
  /\ balance' = [balance EXCEPT ![o] = @ - 1]
  /\ Withdraw(o)
  /\ Finish(o, "done")
  /\ UNCHANGED <<database, call, contested>>

CommitOrder(o) ==
  /\ Locked(o)
  /\ Covered(o)
  /\ PaymentUnused(o)
  /\ status' = [status EXCEPT ![o] = "pending"]
  /\ balance' = [balance EXCEPT ![o] = @ - 1]
  /\ Withdraw(o)
  /\ Finish(o, "done")
  /\ UNCHANGED <<database, call, contested>>

RejectOrderDuplicate(o) ==              \* mutant: a short order is left in limbo
  /\ Locked(o)
  /\ Covered(o) /\ ~PaymentUnused(o)
  /\ RollBack(o)

(* "Insufficient stock", or P2002 on Order.paymentId. *)
RejectOrder(o) ==
  /\ Locked(o)
  /\ ~(Covered(o) /\ PaymentUnused(o))
  /\ RollBack(o)

-----------------------------------------------------------------------------
(* createStockMovement; its transaction is SERIALIZABLE *)

BeginOutbound(m) ==
  /\ tx[m] = "idle"
  /\ WellFormed(m) /\ Outbound(m)
  /\ database = "accepts"
  /\ ReadSums(m)

(* A call whose input is refused ends there, and is no step. *)
RefuseMovement(m) ==
  /\ tx[m] = "idle"
  /\ WellFormed(m) /\ Outbound(m)
  /\ database = "refuses"
  /\ RollBack(m)

SerializableNot(m) == m \in Manual       \* mutant: READ COMMITTED movements

(* Two SERIALIZABLE withdrawals that read and wrote the same key cannot    *)
(* both commit.  Orders run READ COMMITTED and take no part in this.       *)
Serializable(m) == rivals[m] \cap Manual = {}

CommitOutbound(m) ==
  /\ Locked(m)
  /\ Covered(m)
  /\ Serializable(m)
  /\ Withdraw(m)
  /\ Finish(m, "done")
  /\ UNCHANGED <<database, balance, status, call, contested>>

RejectOutbound(m) ==
  /\ Locked(m)
  /\ ~(Covered(m) /\ Serializable(m))
  /\ RollBack(m)

(* INBOUND, ADJUSTMENT and TRANSFER read nothing and always add. *)
RecordReceipt(m) ==
  /\ tx[m] = "idle"
  /\ WellFormed(m) /\ ~Outbound(m)
  /\ stock' = [stock EXCEPT ![Movement[m].key] = @ + Movement[m].quantity]
  /\ Finish(m, "done")
  /\ UNCHANGED <<database, balance, overrun, status, rivals, call, contested>>

-----------------------------------------------------------------------------
(* updateOrderStatus; its transaction is READ COMMITTED *)

ReadStatus(s, o, to) ==
  /\ call[s].pc = "idle"
  /\ status[o] # "none"
  /\ to \in ValidTransitions[status[o]]
  /\ call' = [call EXCEPT ![s] = [pc |-> "read", order |-> o, from |-> status[o],
                                  to |-> to, overtaken |-> FALSE]]
  /\ UNCHANGED <<database, ledger, status, work, contested>>

(* What status `to` gives back of key k of order o. *)
Restock(o, to, k) == IF to \in Returning THEN Items[o][k] ELSE 0

(* The other status calls in flight on the same order have read a status   *)
(* that is no longer the one in the row.                                   *)
Overtake(s) ==
  call' = [r \in Staff |->
    IF r = s THEN [pc |-> "done"]
    ELSE IF call[r].pc = "read" /\ call[r].order = call[s].order
    THEN [call[r] EXCEPT !.overtaken = TRUE] ELSE call[r]]

(* UPDATE "Order" WHERE id, the INBOUND rows, COMMIT. *)
WriteStatus(s) ==
  /\ call[s].pc = "read"
  /\ LET o == call[s].order
         to == call[s].to
     IN /\ status' = [status EXCEPT ![o] = to]
        /\ balance' = [balance EXCEPT ![o] = IF to \in Returning THEN @ + 1 ELSE @]
        /\ stock' = [k \in Keys |-> stock[k] + Restock(o, to, k)]
        /\ contested' = IF call[s].overtaken THEN contested \cup {o} ELSE contested
  /\ Overtake(s)
  /\ UNCHANGED <<database, overrun, work>>

(* The call fails before COMMIT. *)
AbandonStatus(s) ==
  /\ call[s].pc = "read"
  /\ call' = [call EXCEPT ![s] = [pc |-> "done"]]
  /\ UNCHANGED <<database, ledger, status, work, contested>>

-----------------------------------------------------------------------------
OrderStep(o) == BeginOrder(o) \/ RefuseOrder(o) \/ CommitOrder(o) \/ RejectOrder(o)

MovementStep(m) ==
  \/ BeginOutbound(m) \/ RefuseMovement(m) \/ CommitOutbound(m)
  \/ RejectOutbound(m) \/ RecordReceipt(m)

DatabaseStep(t) ==
  (\E k \in Keys : LockRows(t, k)) \/ DeadlockVictim(t) \/ ConnectionLost(t)

StatusStep(s) ==
  \/ \E o \in Orders, to \in OrderStatuses : ReadStatus(s, o, to)
  \/ WriteStatus(s)
  \/ AbandonStatus(s)

Next ==
  \/ \E o \in Orders : OrderStep(o)
  \/ \E m \in Manual : MovementStep(m)
  \/ \E t \in Txs : DatabaseStep(t)
  \/ \E s \in Staff : StatusStep(s)

Spec == Init /\ [][Next]_vars

(* While some transaction can take a lock, end, or be picked by the deadlock *)
(* detector, one of them eventually does.  Nobody is obliged to call.        *)
Progress(t) ==
  \/ \E k \in Keys : LockRows(t, k)
  \/ t \in Orders /\ (CommitOrder(t) \/ RejectOrder(t))
  \/ t \in Manual /\ (CommitOutbound(t) \/ RejectOutbound(t))
  \/ DeadlockVictim(t)

FairSpec == Spec /\ WF_vars(\E t \in Txs : Progress(t))

-----------------------------------------------------------------------------
(* Properties *)

TxStates == {"idle", "summing", "done", "failed"}

CallStates ==
  [pc: {"idle", "done"}]
  \cup [pc: {"read"}, order: Orders, from: OrderStatuses, to: OrderStatuses,
        overtaken: BOOLEAN]

(* Every variable has its type; the rows locked by a transaction are rows   *)
(* it draws on.                                                             *)
TypeOK ==
  /\ database \in SumAnswers
  /\ stock \in [Keys -> Int]
  /\ status \in [Orders -> OrderStatuses \cup {"none"}]
  /\ balance \in [Orders -> Int]
  /\ tx \in [Txs -> TxStates]
  /\ seen \in [Txs -> [Keys -> Int]]
  /\ held \in [Txs -> SUBSET Keys]
  /\ rivals \in [Txs -> SUBSET Txs]
  /\ call \in [Staff -> CallStates]
  /\ contested \subseteq Orders
  /\ overrun \in [Keys -> Int]

(* A key is oversold (its SUM goes below zero) by no more than what was      *)
(* taken by withdrawals that committed over one they had not seen, and so    *)
(* not at all unless withdrawals of it overlapped: the sum read before a     *)
(* rival's commit is the only hole in createOrderFromCheckout and            *)
(* createStockMovement.                                                      *)
OversellBounded == \A k \in Keys : stock[k] + overrun[k] >= 0

(* While no order has been placed, SERIALIZABLE createStockMovement calls   *)
(* alone never oversell, however they overlap.                              *)
SerializableSuffices ==
  (\A o \in Orders : status[o] = "none") => \A k \in Keys : stock[k] >= 0

(* What the ledger holds for an order agrees with its status: its items are *)
(* out while it is pending or confirmed and back, once, when it is          *)
(* cancelled or refunded -- unless status calls overlapped on it.           *)
BalanceMatchesStatus ==
  \A o \in Orders : o \notin contested =>
    balance[o] = IF status[o] \in {"pending", "confirmed"} THEN -1 ELSE 0

(* The sum of a key goes down only when a call commits that locked its rows  *)
(* first, and by no more than the sum that call had read -- although         *)
(* docs/CHECKOUT.md:445-446 has an ADJUSTMENT or TRANSFER take stock off,    *)
(* which is neither read nor locked.                                         *)
OnlyWithdrawalsLower ==
  [][\A k \in Keys : stock'[k] < stock[k] =>
       \E t \in Txs : /\ k \in held[t] /\ tx'[t] = "done"
                      /\ stock[k] - stock'[k] <= seen[t][k]]_vars

(* The status of an existing order moves only along the transition table of *)
(* docs/CHECKOUT.md:329-336, unless status calls overlapped on it.          *)
DocumentedTransitions ==
  {<<"pending", "confirmed">>, <<"pending", "cancelled">>,
   <<"confirmed", "cancelled">>, <<"confirmed", "refunded">>}

LegalTransitions ==
  [][\A o \in Orders :
       status[o] \notin {"none", status'[o]} /\ o \notin contested' =>
         <<status[o], status'[o]>> \in DocumentedTransitions]_vars

(* No transaction hangs on a row lock: once the finitely many calls have    *)
(* begun, every one of them ends, although rows are locked key by key in    *)
(* any order and two orders may each hold the row the other one needs.      *)
TransactionsEnd == <>[](\A t \in Txs : tx[t] # "summing")

(* docs/CHECKOUT.md:335-336: cancelled and refunded are terminal states.    *)
TerminalIsFinal ==
  [][\A o \in Orders : status[o] \in Returning => status'[o] = status[o]]_vars

=============================================================================
