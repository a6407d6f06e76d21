------------------------- MODULE OrderLedgerProofs -------------------------
(***************************************************************************)
(* What OrderLedger guarantees for any keys, orders, movements and calls.  *)
(***************************************************************************)
EXTENDS OrderLedger, TLAPS

(* Inductive invariants *)

(* A sum read before a rival's commit is the only way to read too much. *)
StaleOnlyByRivals ==
  \A t \in Txs : tx[t] = "summing" =>
    \A k \in Need(t) : seen[t][k] > stock[k] => \E u \in rivals[t] : k \in Need(u)

(* A rival is a transaction that has committed; an order's commit leaves a row. *)
RivalsCommitted ==
  \A t \in Txs : \A u \in rivals[t] : u \in Orders => status[u] # "none"

(* There is a row for an order only after its transaction committed. *)
RowsAfterCommit ==
  \A o \in Orders : status[o] # "none" => tx[o] = "done"

(* What a status call read about its order, as long as it is current. *)
CallsAreCurrent ==
  \A s \in Staff : call[s].pc = "read" =>
    /\ status[call[s].order] # "none"
    /\ call[s].to \in ValidTransitions[call[s].from]
    /\ ~call[s].overtaken => status[call[s].order] = call[s].from

(* Only a withdrawal of something reads sums. *)
SumsForWithdrawals == \A m \in Manual : tx[m] = "summing" => WellFormed(m) /\ Outbound(m)

(* What overran a rival was taken, not given. *)
OverrunTakes == \A k \in Keys : overrun[k] >= 0

StockInv == StaleOnlyByRivals /\ OverrunTakes /\ OversellBounded
SerialInv == RivalsCommitted /\ SerializableSuffices
StatusInv == RowsAfterCommit /\ CallsAreCurrent /\ BalanceMatchesStatus

-----------------------------------------------------------------------------
(* Lemmas about the operators of the model *)

(* A key a withdrawal does not need is not drawn on. *)
LEMMA DrawOutsideNeed ==
  ASSUME NEW t \in Txs, NEW k \in Keys, k \notin Need(t)
  PROVE  Draw(t, k) = 0
  <1>1. CASE t \in Orders
    BY <1>1, LedgerConstants DEF Draw, Need
  <1>2. CASE t \notin Orders
    BY <1>2 DEF Draw, Need
  <1>. QED BY <1>1, <1>2

(* Quantities are integers, and keys needed are keys. *)
LEMMA DrawType ==
  ASSUME NEW t \in Txs
  PROVE  /\ \A k \in Keys : Draw(t, k) \in Int
         /\ Need(t) \subseteq Keys
  <1>1. CASE t \in Orders
    BY <1>1, LedgerConstants DEF Draw, Need
  <1>2. CASE t \notin Orders
    <2>1. Movement[t].quantity \in Int /\ Movement[t].key \in Keys
      BY <1>2, LedgerConstants DEF Txs
    <2>. QED BY <1>2, <2>1 DEF Draw, Need
  <1>. QED BY <1>1, <1>2

(* A status call gives nothing back or what the order took. *)
LEMMA RestockType ==
  ASSUME NEW o \in Orders, NEW to \in OrderStatuses, NEW k \in Keys
  PROVE  Restock(o, to, k) \in Nat
  BY LedgerConstants DEF Restock

-----------------------------------------------------------------------------
(* Type correctness *)

LEMMA FinishType ==
  ASSUME TypeOK, NEW t \in Txs, NEW outcome \in TxStates, Finish(t, outcome)
  PROVE  /\ tx' \in [Txs -> TxStates]
         /\ held' \in [Txs -> SUBSET Keys]
         /\ seen' \in [Txs -> [Keys -> Int]]
  <1>1. NothingSeen \in [Keys -> Int]
    BY DEF NothingSeen
  <1>. QED BY <1>1 DEF TypeOK, Finish

LEMMA WithdrawType ==
  ASSUME TypeOK, NEW t \in Txs, Withdraw(t)
  PROVE  /\ stock' \in [Keys -> Int]
         /\ rivals' \in [Txs -> SUBSET Txs]
         /\ overrun' \in [Keys -> Int]
  BY DrawType DEF TypeOK, Withdraw

LEMMA RollBackType ==
  ASSUME TypeOK, NEW t \in Txs, RollBack(t)
  PROVE  TypeOK'
  <1>1. Finish(t, "failed") /\ "failed" \in TxStates
    BY DEF RollBack, TxStates
  <1>2. /\ tx' \in [Txs -> TxStates]
        /\ held' \in [Txs -> SUBSET Keys]
        /\ seen' \in [Txs -> [Keys -> Int]]
    BY <1>1, FinishType
  <1>. QED BY <1>2 DEF TypeOK, RollBack, ledger

LEMMA ReadSumsType ==
  ASSUME TypeOK, NEW t \in Txs, ReadSums(t)
  PROVE  TypeOK'
  BY DEF TypeOK, ReadSums, ledger, TxStates

LEMMA OrderStepType ==
  ASSUME TypeOK, NEW o \in Orders, OrderStep(o)
  PROVE  TypeOK'
  <1>. o \in Txs  BY DEF Txs
  <1>1. CASE BeginOrder(o)
    BY <1>1, ReadSumsType DEF BeginOrder
  <1>2. CASE RefuseOrder(o) \/ RejectOrder(o)
    BY <1>2, RollBackType DEF RefuseOrder, RejectOrder
  <1>3. CASE CommitOrder(o)
    <2>1. Finish(o, "done") /\ "done" \in TxStates /\ Withdraw(o)
      BY <1>3 DEF CommitOrder, TxStates
    <2>2. /\ tx' \in [Txs -> TxStates]
          /\ held' \in [Txs -> SUBSET Keys]
          /\ seen' \in [Txs -> [Keys -> Int]]
      BY <2>1, FinishType
    <2>3. /\ stock' \in [Keys -> Int]
          /\ rivals' \in [Txs -> SUBSET Txs]
          /\ overrun' \in [Keys -> Int]
      BY <2>1, WithdrawType
    <2>4. status' \in [Orders -> OrderStatuses \cup {"none"}] /\ balance' \in [Orders -> Int]
      BY <1>3 DEF TypeOK, CommitOrder, OrderStatuses
    <2>. QED BY <1>3, <2>2, <2>3, <2>4 DEF TypeOK, CommitOrder
  <1>. QED BY <1>1, <1>2, <1>3 DEF OrderStep

LEMMA MovementStepType ==
  ASSUME TypeOK, NEW m \in Manual, MovementStep(m)
  PROVE  TypeOK'
  <1>. m \in Txs  BY DEF Txs
  <1>1. CASE BeginOutbound(m)
    BY <1>1, ReadSumsType DEF BeginOutbound
  <1>2. CASE RefuseMovement(m) \/ RejectOutbound(m)
    BY <1>2, RollBackType DEF RefuseMovement, RejectOutbound
  <1>3. CASE CommitOutbound(m)
    <2>1. Finish(m, "done") /\ "done" \in TxStates /\ Withdraw(m)
      BY <1>3 DEF CommitOutbound, TxStates
    <2>2. /\ tx' \in [Txs -> TxStates]
          /\ held' \in [Txs -> SUBSET Keys]
          /\ seen' \in [Txs -> [Keys -> Int]]
      BY <2>1, FinishType
    <2>3. /\ stock' \in [Keys -> Int]
          /\ rivals' \in [Txs -> SUBSET Txs]
          /\ overrun' \in [Keys -> Int]
      BY <2>1, WithdrawType
    <2>. QED BY <1>3, <2>2, <2>3 DEF TypeOK, CommitOutbound
  <1>4. CASE RecordReceipt(m)
    <2>1. Finish(m, "done") /\ "done" \in TxStates
      BY <1>4 DEF RecordReceipt, TxStates
    <2>2. /\ tx' \in [Txs -> TxStates]
          /\ held' \in [Txs -> SUBSET Keys]
          /\ seen' \in [Txs -> [Keys -> Int]]
      BY <2>1, FinishType
    <2>3. Movement[m].key \in Keys /\ Movement[m].quantity \in Int
      BY LedgerConstants
    <2>4. stock' \in [Keys -> Int]
      BY <1>4, <2>3 DEF TypeOK, RecordReceipt
    <2>. QED BY <1>4, <2>2, <2>4 DEF TypeOK, RecordReceipt
  <1>. QED BY <1>1, <1>2, <1>3, <1>4 DEF MovementStep

LEMMA DatabaseStepType ==
  ASSUME TypeOK, NEW t \in Txs, DatabaseStep(t)
  PROVE  TypeOK'
  <1>1. ASSUME NEW k \in Keys, LockRows(t, k)
        PROVE  TypeOK'
    BY <1>1 DEF TypeOK, LockRows, ledger
  <1>2. CASE DeadlockVictim(t) \/ ConnectionLost(t)
    BY <1>2, RollBackType DEF DeadlockVictim, ConnectionLost
  <1>. QED BY <1>1, <1>2 DEF DatabaseStep

LEMMA StatusStepType ==
  ASSUME TypeOK, NEW s \in Staff, StatusStep(s)
  PROVE  TypeOK'
  <1>1. ASSUME NEW o \in Orders, NEW to \in OrderStatuses, ReadStatus(s, o, to)
        PROVE  TypeOK'
    <2>1. [pc |-> "read", order |-> o, from |-> status[o], to |-> to, overtaken |-> FALSE]
            \in CallStates
      BY <1>1 DEF ReadStatus, TypeOK, CallStates
    <2>. QED BY <1>1, <2>1 DEF TypeOK, ReadStatus, ledger, work
  <1>2. CASE WriteStatus(s)
    <2>1. /\ call[s].pc = "read"
          /\ call[s].order \in Orders
          /\ call[s].to \in OrderStatuses
      BY <1>2 DEF WriteStatus, TypeOK, CallStates
    <2>2. call' \in [Staff -> CallStates]
      <3>. USE DEF Overtake
      <3>1. ASSUME NEW r \in Staff  PROVE call'[r] \in CallStates
        <4>1. CASE r = s
          BY <1>2, <4>1 DEF WriteStatus, CallStates
        <4>2. CASE r # s /\ call[r].pc = "read" /\ call[r].order = call[s].order
          <5>1. call'[r] = [call[r] EXCEPT !.overtaken = TRUE]
            BY <1>2, <4>2 DEF WriteStatus
          <5>2. call[r] \in [pc: {"read"}, order: Orders, from: OrderStatuses,
                             to: OrderStatuses, overtaken: BOOLEAN]
            BY <4>2 DEF TypeOK, CallStates
          <5>. QED BY <5>1, <5>2 DEF CallStates
        <4>3. CASE r # s /\ ~(call[r].pc = "read" /\ call[r].order = call[s].order)
          BY <1>2, <4>3 DEF WriteStatus, TypeOK
        <4>. QED BY <4>1, <4>2, <4>3
      <3>. QED BY <1>2, <3>1 DEF WriteStatus
    <2>3. stock' \in [Keys -> Int]
      BY <1>2, <2>1, RestockType DEF WriteStatus, TypeOK
    <2>4. /\ status' \in [Orders -> OrderStatuses \cup {"none"}]
          /\ balance' \in [Orders -> Int]
          /\ contested' \subseteq Orders
      BY <1>2, <2>1 DEF WriteStatus, TypeOK
    <2>. QED BY <1>2, <2>2, <2>3, <2>4 DEF WriteStatus, TypeOK, work
  <1>3. CASE AbandonStatus(s)
    <2>1. [pc |-> "done"] \in CallStates
      BY DEF CallStates
    <2>. QED BY <1>3, <2>1 DEF TypeOK, AbandonStatus, ledger, work
  <1>. QED BY <1>1, <1>2, <1>3 DEF StatusStep

(* Every variable keeps its type, for any number of keys, orders, movements *)
(* and status calls.                                                        *)
THEOREM TypeCorrect == Spec => []TypeOK
  <1>1. Init => TypeOK
    <2>1. NothingSeen \in [Keys -> Int]
      BY DEF NothingSeen
    <2>2. [pc |-> "idle"] \in CallStates
      BY DEF CallStates
    <2>. QED BY <2>1, <2>2, LedgerConstants DEF Init, TypeOK, TxStates
  <1>2. TypeOK /\ [Next]_vars => TypeOK'
    <2>1. TypeOK /\ UNCHANGED vars => TypeOK'
      BY DEF TypeOK, vars, ledger, work
    <2>. QED BY <2>1, OrderStepType, MovementStepType, DatabaseStepType, StatusStepType
             DEF Next
  <1>. QED BY <1>1, <1>2, PTL DEF Spec

-----------------------------------------------------------------------------
(* Overselling *)

LEMMA NextSums == TypeOK /\ SumsForWithdrawals /\ [Next]_vars => SumsForWithdrawals'
<1> SUFFICES ASSUME TypeOK, SumsForWithdrawals, [Next]_vars, NEW m \in Manual,
                    tx'[m] = "summing", tx[m] # "summing"
             PROVE  WellFormed(m) /\ Outbound(m)
  BY DEF SumsForWithdrawals, WellFormed, Outbound
<1>. m \in Txs  BY DEF Txs
<1>1. ASSUME NEW t \in Txs, RollBack(t) PROVE FALSE
  BY <1>1 DEF RollBack, Finish, TypeOK
<1>2. ASSUME NEW t \in Txs, ReadSums(t) PROVE t = m
  BY <1>2 DEF ReadSums, TypeOK
<1>3. ASSUME NEW o \in Orders, OrderStep(o) PROVE WellFormed(m) /\ Outbound(m)
  <2>1. o \in Txs /\ o # m  BY LedgerConstants DEF Txs
  <2>2. CASE CommitOrder(o)  BY <2>1, <2>2 DEF CommitOrder, Finish, TypeOK
  <2> QED BY <1>1, <1>2, <1>3, <2>1, <2>2 DEF OrderStep, BeginOrder, RefuseOrder, RejectOrder
<1>4. ASSUME NEW n \in Manual, MovementStep(n) PROVE WellFormed(m) /\ Outbound(m)
  <2>1. n \in Txs  BY DEF Txs
  <2>2. CASE BeginOutbound(n)  BY <1>2, <2>1, <2>2 DEF BeginOutbound
  <2>3. CASE CommitOutbound(n) \/ RecordReceipt(n)
    BY <2>1, <2>3 DEF CommitOutbound, RecordReceipt, Finish, TypeOK
  <2> QED BY <1>1, <1>4, <2>1, <2>2, <2>3 DEF MovementStep, RefuseMovement, RejectOutbound
<1>5. ASSUME NEW t \in Txs, DatabaseStep(t) PROVE WellFormed(m) /\ Outbound(m)
  BY <1>1, <1>5 DEF DatabaseStep, LockRows, DeadlockVictim, ConnectionLost
<1>6. ASSUME NEW s \in Staff, StatusStep(s) PROVE WellFormed(m) /\ Outbound(m)
  BY <1>6 DEF StatusStep, ReadStatus, WriteStatus, AbandonStatus, work
<1>7. CASE UNCHANGED vars  BY <1>7 DEF vars, work
<1> QED BY <1>3, <1>4, <1>5, <1>6, <1>7 DEF Next

LEMMA WithdrawalsOnly == Spec => []SumsForWithdrawals
<1>1. Init => SumsForWithdrawals
  BY DEF Init, SumsForWithdrawals, Txs
<1> QED BY <1>1, NextSums, TypeCorrect, PTL DEF Spec

(* What a withdrawal in flight draws is not negative. *)
LEMMA WithdrawalsTake ==
  ASSUME SumsForWithdrawals, NEW t \in Txs, tx[t] = "summing", NEW k \in Keys
  PROVE  Draw(t, k) >= 0
<1>1. CASE t \in Orders
  BY <1>1, LedgerConstants DEF Draw
<1>2. CASE t \notin Orders
  <2>1. t \in Manual /\ Movement[t].quantity \in Int
    BY <1>2, LedgerConstants DEF Txs
  <2>2. Movement[t].quantity > 0
    BY <2>1 DEF SumsForWithdrawals, WellFormed
  <2> QED BY <1>2, <2>1, <2>2 DEF Draw
<1> QED BY <1>1, <1>2

LEMMA RollBackStock ==
  ASSUME TypeOK, StockInv, NEW t \in Txs, RollBack(t)
  PROVE  StockInv'
  <1>1. /\ \A u \in Txs : tx'[u] = "summing" => u # t /\ tx[u] = "summing"
        /\ \A u \in Txs : u # t => seen'[u] = seen[u] /\ rivals'[u] = rivals[u]
        /\ stock' = stock /\ overrun' = overrun
    BY DEF RollBack, Finish, ledger, TypeOK
  <1>. QED BY <1>1 DEF StockInv, StaleOnlyByRivals, OverrunTakes, OversellBounded

LEMMA ReadSumsStock ==
  ASSUME TypeOK, StockInv, NEW t \in Txs, ReadSums(t)
  PROVE  StockInv'
  <1>1. /\ \A u \in Txs : u # t => tx'[u] = tx[u] /\ seen'[u] = seen[u]
        /\ \A k \in Need(t) : seen'[t][k] = stock[k]
        /\ rivals' = rivals /\ stock' = stock /\ overrun' = overrun
    BY DrawType DEF ReadSums, ledger, TypeOK
  <1>2. StaleOnlyByRivals'
    <2>1. ASSUME NEW u \in Txs, tx'[u] = "summing", NEW k \in Need(u),
                 seen'[u][k] > stock'[k]
          PROVE  \E v \in rivals'[u] : k \in Need(v)
      <3>1. CASE u = t
        BY <1>1, <2>1, <3>1, DrawType DEF TypeOK
      <3>2. CASE u # t
        BY <1>1, <2>1, <3>2 DEF StockInv, StaleOnlyByRivals
      <3>. QED BY <3>1, <3>2
    <2>. QED BY <2>1 DEF StaleOnlyByRivals
  <1>. QED BY <1>1, <1>2 DEF StockInv, OverrunTakes, OversellBounded

(* Stock that only grows keeps every sum that was not too large so. *)
LEMMA GrowingStock ==
  ASSUME TypeOK, StockInv, UNCHANGED <<seen, rivals, overrun>>,
         stock' \in [Keys -> Int], \A k \in Keys : stock'[k] >= stock[k],
         \A u \in Txs : tx'[u] = "summing" => tx[u] = "summing"
  PROVE  StockInv'
  <1>1. StaleOnlyByRivals'
    <2>1. ASSUME NEW u \in Txs, tx'[u] = "summing", NEW k \in Need(u),
                 seen'[u][k] > stock'[k]
          PROVE  \E v \in rivals'[u] : k \in Need(v)
      <3>1. k \in Keys /\ seen[u][k] \in Int /\ stock[k] \in Int /\ stock'[k] \in Int
        BY DrawType DEF TypeOK
      <3>2. seen[u][k] > stock[k]
        BY <2>1, <3>1
      <3>. QED BY <2>1, <3>2 DEF StockInv, StaleOnlyByRivals
    <2>. QED BY <2>1 DEF StaleOnlyByRivals
  <1>2. OverrunTakes' /\ OversellBounded'
    <2>1. ASSUME NEW k \in Keys  PROVE overrun[k] >= 0 /\ stock'[k] + overrun[k] >= 0
      <3>1. /\ stock[k] + overrun[k] >= 0 /\ overrun[k] >= 0
            /\ stock[k] \in Int /\ stock'[k] \in Int /\ overrun[k] \in Int
            /\ stock'[k] >= stock[k]
        BY <2>1 DEF StockInv, OverrunTakes, OversellBounded, TypeOK
      <3>. QED BY <3>1
    <2>. QED BY <2>1 DEF OverrunTakes, OversellBounded
  <1>. QED BY <1>1, <1>2 DEF StockInv

(* A committed withdrawal is remembered by everyone who read a sum it changes. *)
LEMMA WithdrawStock ==
  ASSUME TypeOK, StockInv, SumsForWithdrawals, NEW t \in Txs, Locked(t), Covered(t),
         Withdraw(t), Finish(t, "done")
  PROVE  StockInv'
  <1>1. /\ tx[t] = "summing" /\ tx'[t] = "done"
        /\ \A u \in Txs : u # t => tx'[u] = tx[u] /\ seen'[u] = seen[u]
        /\ \A k \in Keys : stock'[k] = stock[k] - Draw(t, k)
    BY DEF Locked, Finish, Withdraw, TypeOK
  <1>2. StaleOnlyByRivals'
    <2>1. ASSUME NEW u \in Txs, tx'[u] = "summing", NEW k \in Need(u),
                 seen'[u][k] > stock'[k]
          PROVE  \E v \in rivals'[u] : k \in Need(v)
      <3>1. u # t /\ tx[u] = "summing" /\ k \in Keys
        BY <1>1, <2>1, DrawType
      <3>2. CASE k \in Need(t)
        <4>1. rivals'[u] = rivals[u] \cup {t}
          BY <2>1, <3>1, <3>2 DEF Withdraw
        <4>. QED BY <3>2, <4>1
      <3>3. CASE k \notin Need(t)
        <4>1. stock'[k] = stock[k]
          BY <1>1, <3>1, <3>3, DrawOutsideNeed DEF TypeOK
        <4>2. \E v \in rivals[u] : k \in Need(v)
          BY <1>1, <2>1, <3>1, <4>1 DEF StockInv, StaleOnlyByRivals
        <4>3. rivals[u] \subseteq rivals'[u]
          BY <3>1 DEF Withdraw
        <4>. QED BY <4>2, <4>3
      <3>. QED BY <3>2, <3>3
    <2>. QED BY <2>1 DEF StaleOnlyByRivals
  <1>3. ASSUME NEW k \in Keys
        PROVE  overrun'[k] >= 0 /\ stock'[k] + overrun'[k] >= 0
    <2>1. /\ stock[k] + overrun[k] >= 0 /\ overrun[k] >= 0
          /\ stock[k] \in Int /\ overrun[k] \in Int /\ seen[t][k] \in Int
      BY <1>3 DEF StockInv, OverrunTakes, OversellBounded, TypeOK
    <2>2. Draw(t, k) \in Int /\ Draw(t, k) >= 0
      BY <1>1, DrawType, WithdrawalsTake
    <2>3. /\ stock'[k] = stock[k] - Draw(t, k)
          /\ overrun'[k] = IF Rivalled(t, k) THEN overrun[k] + Draw(t, k) ELSE overrun[k]
      BY DEF Withdraw
    <2>4. CASE Rivalled(t, k)
      BY <2>1, <2>2, <2>3, <2>4
    <2>5. CASE ~Rivalled(t, k) /\ k \in Need(t)
      <3>1. ~(seen[t][k] > stock[k])
        BY <1>1, <2>5 DEF StockInv, StaleOnlyByRivals, Rivalled
      <3>2. seen[t][k] >= Draw(t, k)
        BY <2>5 DEF Covered
      <3>. QED BY <2>1, <2>2, <2>3, <2>5, <3>1, <3>2
    <2>6. CASE ~Rivalled(t, k) /\ k \notin Need(t)
      BY <2>1, <2>3, <2>6, DrawOutsideNeed
    <2>. QED BY <2>4, <2>5, <2>6
  <1>. QED BY <1>2, <1>3 DEF StockInv, OverrunTakes, OversellBounded

LEMMA ReceiptStock ==
  ASSUME TypeOK, StockInv, NEW m \in Manual, RecordReceipt(m)
  PROVE  StockInv'
  <1>. m \in Txs  BY DEF Txs
  <1>1. Movement[m].key \in Keys /\ Movement[m].quantity \in Int /\ Movement[m].quantity > 0
    BY LedgerConstants DEF RecordReceipt, WellFormed
  <1>2. /\ stock' \in [Keys -> Int]
        /\ \A k \in Keys : stock'[k] >= stock[k]
    BY <1>1 DEF RecordReceipt, TypeOK
  <1>3. /\ \A u \in Txs : tx'[u] = "summing" => u # m /\ tx[u] = "summing"
        /\ \A u \in Txs : u # m => seen'[u] = seen[u]
        /\ rivals' = rivals /\ overrun' = overrun
    BY DEF RecordReceipt, Finish, TypeOK
  <1>4. StaleOnlyByRivals'
    <2>1. ASSUME NEW u \in Txs, tx'[u] = "summing", NEW k \in Need(u),
                 seen'[u][k] > stock'[k]
          PROVE  \E v \in rivals'[u] : k \in Need(v)
      <3>1. k \in Keys /\ seen[u][k] \in Int /\ stock[k] \in Int
        BY DrawType DEF TypeOK
      <3>2. seen[u][k] > stock[k] /\ tx[u] = "summing"
        BY <1>2, <1>3, <2>1, <3>1
      <3>. QED BY <1>3, <3>2 DEF StockInv, StaleOnlyByRivals
    <2>. QED BY <2>1 DEF StaleOnlyByRivals
  <1>5. OverrunTakes' /\ OversellBounded'
    <2>1. ASSUME NEW k \in Keys  PROVE overrun[k] >= 0 /\ stock'[k] + overrun[k] >= 0
      <3>1. /\ stock[k] + overrun[k] >= 0 /\ overrun[k] >= 0
            /\ stock[k] \in Int /\ stock'[k] \in Int /\ overrun[k] \in Int
            /\ stock'[k] >= stock[k]
        BY <1>2, <2>1 DEF StockInv, OverrunTakes, OversellBounded, TypeOK
      <3>. QED BY <3>1
    <2>. QED BY <1>3, <2>1 DEF OverrunTakes, OversellBounded
  <1>. QED BY <1>4, <1>5 DEF StockInv

LEMMA WriteStatusStock ==
  ASSUME TypeOK, StockInv, NEW s \in Staff, WriteStatus(s)
  PROVE  StockInv'
  <1>1. call[s].order \in Orders /\ call[s].to \in OrderStatuses
    BY DEF WriteStatus, TypeOK, CallStates
  <1>2. /\ stock' \in [Keys -> Int]
        /\ \A k \in Keys : stock'[k] >= stock[k]
    BY <1>1, RestockType DEF WriteStatus, TypeOK
  <1>3. UNCHANGED <<seen, rivals, overrun>> /\ tx' = tx
    BY DEF WriteStatus, work
  <1>. QED BY <1>2, <1>3, GrowingStock

LEMMA StockInvariant == Spec => []StockInv
  <1>1. Init => StockInv
    <2> SUFFICES ASSUME Init  PROVE StockInv
      OBVIOUS
    <2>1. StaleOnlyByRivals
      BY DEF Init, StaleOnlyByRivals
    <2>2. ASSUME NEW k \in Keys  PROVE overrun[k] = 0 /\ stock[k] \in Nat
      BY <2>2, LedgerConstants DEF Init, NothingSeen
    <2>. QED BY <2>1, <2>2 DEF StockInv, OverrunTakes, OversellBounded
  <1>2. TypeOK /\ SumsForWithdrawals /\ StockInv /\ [Next]_vars => StockInv'
    <2> SUFFICES ASSUME TypeOK, SumsForWithdrawals, StockInv, [Next]_vars  PROVE StockInv'
      OBVIOUS
    <2>1. ASSUME NEW o \in Orders, OrderStep(o)  PROVE StockInv'
      <3>. o \in Txs  BY DEF Txs
      <3>. QED BY <2>1, ReadSumsStock, RollBackStock, WithdrawStock
               DEF OrderStep, BeginOrder, RefuseOrder, CommitOrder, RejectOrder
    <2>2. ASSUME NEW m \in Manual, MovementStep(m)  PROVE StockInv'
      <3>. m \in Txs  BY DEF Txs
      <3>. QED BY <2>2, ReadSumsStock, RollBackStock, WithdrawStock, ReceiptStock
               DEF MovementStep, BeginOutbound, RefuseMovement, CommitOutbound, RejectOutbound
    <2>3. ASSUME NEW t \in Txs, DatabaseStep(t)  PROVE StockInv'
      <3>1. ASSUME NEW k \in Keys, LockRows(t, k)  PROVE StockInv'
        BY <3>1 DEF LockRows, ledger, StockInv, StaleOnlyByRivals, OverrunTakes, OversellBounded
      <3>. QED BY <2>3, <3>1, RollBackStock DEF DatabaseStep, DeadlockVictim, ConnectionLost
    <2>4. ASSUME NEW s \in Staff, StatusStep(s)  PROVE StockInv'
      <3>1. ASSUME NEW o \in Orders, NEW to \in OrderStatuses, ReadStatus(s, o, to)
            PROVE  StockInv'
        BY <3>1 DEF ReadStatus, ledger, work, StockInv, StaleOnlyByRivals,
                    OverrunTakes, OversellBounded
      <3>2. CASE AbandonStatus(s)
        BY <3>2 DEF AbandonStatus, ledger, work, StockInv, StaleOnlyByRivals,
                    OverrunTakes, OversellBounded
      <3>. QED BY <2>4, <3>1, <3>2, WriteStatusStock DEF StatusStep
    <2>5. CASE UNCHANGED vars
      BY <2>5 DEF vars, ledger, work, StockInv, StaleOnlyByRivals, OverrunTakes, OversellBounded
    <2>. QED BY <2>1, <2>2, <2>3, <2>4, <2>5 DEF Next
  <1>. QED BY <1>1, <1>2, WithdrawalsOnly, TypeCorrect, PTL DEF Spec

(* A key is oversold by no more than what withdrawals took that committed    *)
(* over a rival they had not seen: not at all where none overlapped.         *)
THEOREM OversellNeedsOverlap == Spec => []OversellBounded
  <1>1. StockInv => OversellBounded
    BY DEF StockInv
  <1>. QED BY <1>1, StockInvariant, PTL

(* The sum of a key is lowered only by a call that locked the key, and by no *)
(* more than what it read: no other step of any order, movement or status    *)
(* call takes stock off.                                                     *)
THEOREM StockIsLoweredByWithdrawals == Spec => OnlyWithdrawalsLower
  <1>. DEFINE Lowered(k) == \E t \in Txs : /\ k \in held[t] /\ tx'[t] = "done"
                                          /\ stock[k] - stock'[k] <= seen[t][k]
  <1>1. TypeOK /\ [Next]_vars => \A k \in Keys : stock'[k] < stock[k] => Lowered(k)
    <2> SUFFICES ASSUME TypeOK, [Next]_vars, NEW k \in Keys, stock'[k] < stock[k]
                 PROVE  Lowered(k)
      OBVIOUS
    <2>1. stock[k] \in Int
      BY DEF TypeOK
    <2>2. ASSUME stock' = stock  PROVE FALSE
      BY <2>1, <2>2
    <2>3. ASSUME NEW t \in Txs, Locked(t), Covered(t), Withdraw(t), Finish(t, "done")
          PROVE  Lowered(k)
      <3>1. stock'[k] = stock[k] - Draw(t, k) /\ Draw(t, k) \in Int /\ seen[t][k] \in Int
        BY <2>3, DrawType DEF Withdraw, TypeOK
      <3>2. k \in Need(t)
        BY <2>1, <3>1, DrawOutsideNeed
      <3>3. k \in held[t] /\ tx'[t] = "done" /\ Draw(t, k) <= seen[t][k]
        BY <2>3, <3>1, <3>2 DEF Locked, Covered, Finish, TypeOK
      <3>. QED BY <2>1, <3>1, <3>3
    <2>4. ASSUME NEW o \in Orders, OrderStep(o)  PROVE Lowered(k)
      <3>. o \in Txs  BY DEF Txs
      <3>1. CASE CommitOrder(o)
        BY <2>3, <3>1 DEF CommitOrder
      <3>. QED BY <2>2, <2>4, <3>1 DEF OrderStep, BeginOrder, RefuseOrder, RejectOrder,
                                       ReadSums, RollBack, ledger
    <2>5. ASSUME NEW m \in Manual, MovementStep(m)  PROVE Lowered(k)
      <3>. m \in Txs  BY DEF Txs
      <3>1. CASE CommitOutbound(m)
        BY <2>3, <3>1 DEF CommitOutbound
      <3>2. CASE RecordReceipt(m)
        <4>1. Movement[m].key \in Keys /\ Movement[m].quantity \in Int /\ Movement[m].quantity > 0
          BY <3>2, LedgerConstants DEF RecordReceipt, WellFormed
        <4>2. stock'[k] >= stock[k]
          BY <2>1, <3>2, <4>1 DEF RecordReceipt, TypeOK
        <4>3. stock'[k] \in Int
          BY <2>1, <3>2, <4>1 DEF RecordReceipt, TypeOK
        <4>. QED BY <2>1, <4>2, <4>3
      <3>. QED BY <2>2, <2>5, <3>1, <3>2 DEF MovementStep, BeginOutbound, RefuseMovement,
                                             RejectOutbound, ReadSums, RollBack, ledger
    <2>6. ASSUME NEW t \in Txs, DatabaseStep(t)  PROVE Lowered(k)
      BY <2>2, <2>6 DEF DatabaseStep, LockRows, DeadlockVictim, ConnectionLost, RollBack, ledger
    <2>7. ASSUME NEW s \in Staff, StatusStep(s)  PROVE Lowered(k)
      <3>1. CASE WriteStatus(s)
        <4>1. call[s].order \in Orders /\ call[s].to \in OrderStatuses
          BY <3>1 DEF WriteStatus, TypeOK, CallStates
        <4>2. stock'[k] = stock[k] + Restock(call[s].order, call[s].to, k)
          BY <3>1 DEF WriteStatus
        <4>. QED BY <2>1, <4>1, <4>2, RestockType
      <3>. QED BY <2>2, <2>7, <3>1 DEF StatusStep, ReadStatus, AbandonStatus, ledger
    <2>8. CASE UNCHANGED vars
      BY <2>2, <2>8 DEF vars, ledger
    <2>. QED BY <2>4, <2>5, <2>6, <2>7, <2>8 DEF Next
  <1>2. TypeOK /\ [Next]_vars =>
          [\A k \in Keys : stock'[k] < stock[k] =>
             \E t \in Txs : /\ k \in held[t] /\ tx'[t] = "done"
                            /\ stock[k] - stock'[k] <= seen[t][k]]_vars
    BY <1>1
  <1>. QED BY <1>2, TypeCorrect, PTL DEF Spec, OnlyWithdrawalsLower

-----------------------------------------------------------------------------
(* Movements without orders *)

LEMMA KeptSerialInv ==
  ASSUME TypeOK, TypeOK', SerialInv,
         \A o \in Orders : status[o] # "none" => status'[o] # "none",
         \A t \in Txs : rivals'[t] \subseteq rivals[t],
         \A k \in Keys : stock'[k] >= stock[k]
  PROVE  SerialInv'
  <1>1. RivalsCommitted'
    BY DEF SerialInv, RivalsCommitted
  <1>2. SerializableSuffices'
    <2>1. ASSUME \A o \in Orders : status'[o] = "none", NEW k \in Keys
          PROVE  stock'[k] >= 0
      <3>1. stock[k] >= 0 /\ stock[k] \in Int /\ stock'[k] \in Int
        BY <2>1 DEF SerialInv, SerializableSuffices, TypeOK
      <3>. QED BY <3>1
    <2>. QED BY <2>1 DEF SerializableSuffices
  <1>. QED BY <1>1, <1>2 DEF SerialInv

(* The rivals a committed withdrawal makes are itself. *)
LEMMA WithdrawRivals ==
  ASSUME TypeOK, SerialInv, NEW t \in Txs, Withdraw(t),
         t \in Orders => status'[t] # "none",
         \A o \in Orders : status[o] # "none" => status'[o] # "none"
  PROVE  RivalsCommitted'
  <1>1. \A u \in Txs : rivals'[u] \subseteq rivals[u] \cup {t}
    BY DEF Withdraw
  <1>. QED BY <1>1 DEF SerialInv, RivalsCommitted

LEMMA CommitOrderSerial ==
  ASSUME TypeOK, SerialInv, NEW o \in Orders, CommitOrder(o)
  PROVE  SerialInv'
  <1>1. o \in Txs /\ Withdraw(o)
    BY DEF Txs, CommitOrder
  <1>2. \A p \in Orders : status'[p] = IF p = o THEN "pending" ELSE status[p]
    BY DEF CommitOrder, TypeOK
  <1>3. RivalsCommitted'
    BY <1>1, <1>2, WithdrawRivals
  <1>4. SerializableSuffices'
    BY <1>2 DEF SerializableSuffices
  <1>. QED BY <1>3, <1>4 DEF SerialInv

(* With no order there is no rival to a movement that is serializable, so    *)
(* what it read is still there.                                              *)
LEMMA CommitOutboundSerial ==
  ASSUME TypeOK, StockInv, SerialInv, NEW m \in Manual, CommitOutbound(m)
  PROVE  SerialInv'
  <1>1. /\ m \in Txs /\ tx[m] = "summing"
        /\ Withdraw(m) /\ Covered(m) /\ Serializable(m) /\ status' = status
    BY DEF Txs, CommitOutbound, Locked
  <1>2. RivalsCommitted'
    BY <1>1, WithdrawRivals, LedgerConstants
  <1>3. ASSUME \A o \in Orders : status[o] = "none", NEW k \in Keys
        PROVE  stock'[k] >= 0
    <2>1. stock[k] >= 0 /\ stock[k] \in Int /\ Draw(m, k) \in Int /\ seen[m][k] \in Int
      BY <1>1, <1>3, DrawType DEF SerialInv, SerializableSuffices, TypeOK
    <2>2. stock'[k] = stock[k] - Draw(m, k)
      BY <1>1 DEF Withdraw
    <2>3. rivals[m] = {}
      <3>1. rivals[m] \cap Orders = {}
        BY <1>1, <1>3 DEF SerialInv, RivalsCommitted
      <3>2. rivals[m] \subseteq Orders \cup Manual
        BY <1>1 DEF TypeOK, Txs
      <3>. QED BY <1>1, <3>1, <3>2 DEF Serializable
    <2>4. CASE k \in Need(m)
      <3>1. ~(seen[m][k] > stock[k])
        BY <1>1, <2>3, <2>4 DEF StockInv, StaleOnlyByRivals
      <3>2. seen[m][k] >= Draw(m, k)
        BY <1>1, <2>4 DEF Covered
      <3>. QED BY <2>1, <2>2, <3>1, <3>2
    <2>5. CASE k \notin Need(m)
      BY <1>1, <2>1, <2>2, <2>5, DrawOutsideNeed
    <2>. QED BY <2>4, <2>5
  <1>. QED BY <1>1, <1>2, <1>3 DEF SerialInv, SerializableSuffices

LEMMA RollBackSerial ==
  ASSUME TypeOK, TypeOK', SerialInv, NEW t \in Txs, RollBack(t)
  PROVE  SerialInv'
  <1>1. status' = status /\ stock' = stock /\ \A u \in Txs : rivals'[u] \subseteq rivals[u]
    BY DEF RollBack, ledger, TypeOK
  <1>. QED BY <1>1, KeptSerialInv DEF TypeOK

LEMMA SerialInvStep ==
  TypeOK /\ TypeOK' /\ StockInv /\ SerialInv /\ [Next]_vars => SerialInv'
  <1>. SUFFICES ASSUME TypeOK, TypeOK', StockInv, SerialInv, [Next]_vars  PROVE SerialInv'
    OBVIOUS
  <1>1. ASSUME UNCHANGED <<stock, status, rivals>>  PROVE SerialInv'
    BY <1>1 DEF SerialInv, RivalsCommitted, SerializableSuffices
  <1>2. ASSUME NEW o \in Orders, OrderStep(o)  PROVE SerialInv'
    <2>. o \in Txs  BY DEF Txs
    <2>1. ASSUME ReadSums(o)  PROVE SerialInv'
      BY <1>1, <2>1 DEF ReadSums, ledger
    <2>. QED BY <1>2, <2>1, RollBackSerial, CommitOrderSerial
             DEF OrderStep, BeginOrder, RefuseOrder, RejectOrder
  <1>3. ASSUME NEW m \in Manual, MovementStep(m)  PROVE SerialInv'
    <2>. m \in Txs  BY DEF Txs
    <2>1. ASSUME ReadSums(m)  PROVE SerialInv'
      BY <1>1, <2>1 DEF ReadSums, ledger
    <2>2. ASSUME RecordReceipt(m)  PROVE SerialInv'
      <3>1. Movement[m].key \in Keys /\ Movement[m].quantity \in Int /\ Movement[m].quantity > 0
        BY <2>2, LedgerConstants DEF RecordReceipt, WellFormed
      <3>2. \A k \in Keys : stock'[k] >= stock[k]
        BY <2>2, <3>1 DEF RecordReceipt, TypeOK
      <3>. QED BY <2>2, <3>2, KeptSerialInv DEF RecordReceipt
    <2>. QED BY <1>3, <2>1, <2>2, RollBackSerial, CommitOutboundSerial
             DEF MovementStep, BeginOutbound, RefuseMovement, RejectOutbound
  <1>4. ASSUME NEW t \in Txs, DatabaseStep(t)  PROVE SerialInv'
    <2>1. ASSUME NEW k \in Keys, LockRows(t, k)  PROVE SerialInv'
      BY <1>1, <2>1 DEF LockRows, ledger
    <2>. QED BY <1>4, <2>1, RollBackSerial DEF DatabaseStep, DeadlockVictim, ConnectionLost
  <1>5. ASSUME NEW s \in Staff, StatusStep(s)  PROVE SerialInv'
    <2>1. ASSUME WriteStatus(s)  PROVE SerialInv'
      <3>1. call[s].order \in Orders /\ call[s].to \in OrderStatuses
        BY <2>1 DEF WriteStatus, TypeOK, CallStates
      <3>2. \A k \in Keys : stock'[k] >= stock[k]
        BY <2>1, <3>1, RestockType DEF WriteStatus, TypeOK
      <3>3. \A o \in Orders : status[o] # "none" => status'[o] # "none"
        BY <2>1, <3>1 DEF WriteStatus, TypeOK, OrderStatuses
      <3>. QED BY <2>1, <3>2, <3>3, KeptSerialInv DEF WriteStatus, work
    <2>2. ASSUME ~WriteStatus(s)  PROVE UNCHANGED <<stock, status, rivals>>
      BY <1>5, <2>2 DEF StatusStep, ReadStatus, AbandonStatus, ledger, work
    <2>. QED BY <1>1, <2>1, <2>2
  <1>6. CASE UNCHANGED vars
    BY <1>1, <1>6 DEF vars, ledger, work
  <1>. QED BY <1>2, <1>3, <1>4, <1>5, <1>6 DEF Next

(* While no order has been placed, SERIALIZABLE movements never oversell,    *)
(* however they overlap.                                                     *)
THEOREM MovementsNeverOversell == Spec => []SerializableSuffices
  <1>1. Init => SerialInv
    BY LedgerConstants DEF Init, SerialInv, RivalsCommitted, SerializableSuffices
  <1>2. SerialInv => SerializableSuffices
    BY DEF SerialInv
  <1>. QED BY <1>1, <1>2, SerialInvStep, StockInvariant, TypeCorrect, PTL DEF Spec

-----------------------------------------------------------------------------
(* Status and ledger of an order *)

(* What a transaction step leaves alone besides a commit of an order. *)
StatusKept ==
  /\ UNCHANGED <<status, balance, call, contested>>
  /\ \A o \in Orders : tx[o] = "done" => tx'[o] = "done"

LEMMA KeptStatusInv ==
  ASSUME StatusInv, StatusKept
  PROVE  StatusInv'
  BY DEF StatusInv, StatusKept, RowsAfterCommit, CallsAreCurrent, BalanceMatchesStatus

LEMMA RollBackStatus ==
  ASSUME TypeOK, NEW t \in Txs, tx[t] # "done", RollBack(t)
  PROVE  StatusKept
  BY DEF StatusKept, RollBack, Finish, ledger, TypeOK, Txs

LEMMA ReadSumsStatus ==
  ASSUME TypeOK, NEW t \in Txs, tx[t] = "idle", ReadSums(t)
  PROVE  StatusKept
  BY DEF StatusKept, ReadSums, ledger, TypeOK, Txs

LEMMA CommitOrderStatus ==
  ASSUME TypeOK, StatusInv, NEW o \in Orders, CommitOrder(o)
  PROVE  StatusInv' /\ status[o] = "none"
  <1>1. tx[o] = "summing" /\ o \in Txs
    BY DEF CommitOrder, Locked, Txs
  <1>2. status[o] = "none"
    BY <1>1 DEF StatusInv, RowsAfterCommit
  <1>3. /\ status' = [status EXCEPT ![o] = "pending"]
        /\ balance' = [balance EXCEPT ![o] = @ - 1]
        /\ tx' = [tx EXCEPT ![o] = "done"]
        /\ UNCHANGED <<call, contested>>
    BY DEF CommitOrder, Finish
  <1>4. RowsAfterCommit'
    BY <1>1, <1>3 DEF StatusInv, RowsAfterCommit, TypeOK, Txs
  <1>5. CallsAreCurrent'
    <2>1. ASSUME NEW s \in Staff, call[s].pc = "read"
          PROVE  status'[call[s].order] = status[call[s].order]
      <3>1. call[s].order \in Orders
        BY <2>1 DEF TypeOK, CallStates
      <3>2. call[s].order # o
        BY <1>2, <2>1 DEF StatusInv, CallsAreCurrent
      <3>. QED BY <1>3, <3>1, <3>2 DEF TypeOK
    <2>. QED BY <1>3, <2>1 DEF StatusInv, CallsAreCurrent
  <1>6. BalanceMatchesStatus'
    <2>1. o \notin contested => balance[o] = 0
      BY <1>2 DEF StatusInv, BalanceMatchesStatus
    <2>. QED BY <1>3, <2>1 DEF StatusInv, BalanceMatchesStatus, TypeOK
  <1>. QED BY <1>2, <1>4, <1>5, <1>6 DEF StatusInv

LEMMA ReadStatusInv ==
  ASSUME TypeOK, StatusInv, NEW s \in Staff, NEW o \in Orders, NEW to \in OrderStatuses,
         ReadStatus(s, o, to)
  PROVE  StatusInv'
  <1>. DEFINE read == [pc |-> "read", order |-> o, from |-> status[o], to |-> to,
                       overtaken |-> FALSE]
  <1>1. /\ call' = [call EXCEPT ![s] = read]
        /\ status[o] # "none" /\ to \in ValidTransitions[status[o]]
        /\ UNCHANGED <<status, balance, tx, contested>>
    BY DEF ReadStatus, ledger, work
  <1>2. /\ read.order = o /\ read.from = status[o] /\ read.to = to
    OBVIOUS
  <1>3. RowsAfterCommit' /\ BalanceMatchesStatus'
    BY <1>1 DEF StatusInv, RowsAfterCommit, BalanceMatchesStatus
  <1>4. CallsAreCurrent'
    <2>1. ASSUME NEW r \in Staff, call'[r].pc = "read"
          PROVE  /\ status'[call'[r].order] # "none"
                 /\ call'[r].to \in ValidTransitions[call'[r].from]
                 /\ ~call'[r].overtaken => status'[call'[r].order] = call'[r].from
      <3>1. CASE r = s
        <4>1. call'[r] = read
          BY <1>1, <3>1 DEF TypeOK
        <4>. HIDE DEF read
        <4>. QED BY <1>1, <1>2, <4>1
      <3>2. CASE r # s
        <4>1. call'[r] = call[r]
          BY <1>1, <3>2 DEF TypeOK
        <4>. QED BY <1>1, <2>1, <4>1 DEF StatusInv, CallsAreCurrent
      <3>. QED BY <3>1, <3>2
    <2>. QED BY <2>1 DEF CallsAreCurrent
  <1>. QED BY <1>3, <1>4 DEF StatusInv

(* A status call that was not overtaken follows the transition table. *)
LEMMA CurrentCall ==
  ASSUME TypeOK, StatusInv, NEW s \in Staff, WriteStatus(s)
  PROVE  /\ call[s].order \in Orders /\ call[s].to \in OrderStatuses
         /\ status[call[s].order] # "none"
         /\ call[s].to \in {"confirmed", "cancelled", "refunded"}
         /\ ~call[s].overtaken =>
              <<status[call[s].order], call[s].to>> \in DocumentedTransitions
  <1>1. call[s].pc = "read"
    BY DEF WriteStatus
  <1>2. /\ call[s].order \in Orders /\ call[s].to \in OrderStatuses
        /\ call[s].from \in OrderStatuses
    BY <1>1 DEF TypeOK, CallStates
  <1>3. /\ status[call[s].order] # "none"
        /\ call[s].to \in ValidTransitions[call[s].from]
        /\ ~call[s].overtaken => status[call[s].order] = call[s].from
    BY <1>1 DEF StatusInv, CallsAreCurrent
  <1>4. <<call[s].from, call[s].to>> \in DocumentedTransitions
    BY <1>2, <1>3 DEF ValidTransitions, OrderStatuses, DocumentedTransitions
  <1>5. call[s].to \in {"confirmed", "cancelled", "refunded"}
    BY <1>4 DEF DocumentedTransitions
  <1>. QED BY <1>2, <1>3, <1>4, <1>5

LEMMA WriteStatusInv ==
  ASSUME TypeOK, StatusInv, NEW s \in Staff, WriteStatus(s)
  PROVE  StatusInv'
  <1>. DEFINE o == call[s].order
  <1>1. o \in Orders /\ status[o] # "none"
    BY CurrentCall
  <1>2. /\ status' = [status EXCEPT ![o] = call[s].to]
        /\ balance' = [balance EXCEPT ![o] = IF call[s].to \in Returning THEN @ + 1 ELSE @]
        /\ contested' = IF call[s].overtaken THEN contested \cup {o} ELSE contested
        /\ tx' = tx
    BY DEF WriteStatus, work
  <1>3. RowsAfterCommit'
    BY <1>1, <1>2 DEF StatusInv, RowsAfterCommit, TypeOK
  <1>4. CallsAreCurrent'
    <2>1. ASSUME NEW r \in Staff, call'[r].pc = "read"
          PROVE  /\ status'[call'[r].order] # "none"
                 /\ call'[r].to \in ValidTransitions[call'[r].from]
                 /\ ~call'[r].overtaken => status'[call'[r].order] = call'[r].from
      <3>1. r # s
        BY <2>1 DEF WriteStatus, Overtake
      <3>2. CASE call[r].pc = "read" /\ call[r].order = call[s].order
        <4>1. call'[r] = [call[r] EXCEPT !.overtaken = TRUE]
          BY <3>1, <3>2 DEF WriteStatus, Overtake
        <4>2. call[r] \in [pc: {"read"}, order: Orders, from: OrderStatuses,
                           to: OrderStatuses, overtaken: BOOLEAN]
          BY <3>2 DEF TypeOK, CallStates
        <4>3. /\ call'[r].order = call[r].order /\ call'[r].to = call[r].to
              /\ call'[r].from = call[r].from /\ call'[r].overtaken = TRUE
          BY <4>1, <4>2
        <4>4. status'[call'[r].order] = call[s].to /\ call[s].to # "none"
          BY <1>1, <1>2, <3>2, <4>3, CurrentCall DEF TypeOK
        <4>. QED BY <3>2, <4>3, <4>4 DEF StatusInv, CallsAreCurrent
      <3>3. CASE ~(call[r].pc = "read" /\ call[r].order = call[s].order)
        <4>1. call'[r] = call[r]
          BY <3>1, <3>3 DEF WriteStatus, Overtake
        <4>2. call[r].order \in Orders /\ call[r].order # o
          BY <2>1, <3>3, <4>1 DEF TypeOK, CallStates
        <4>3. status'[call[r].order] = status[call[r].order]
          BY <1>2, <4>2 DEF TypeOK
        <4>. QED BY <2>1, <4>1, <4>3 DEF StatusInv, CallsAreCurrent
      <3>. QED BY <3>2, <3>3
    <2>. QED BY <2>1 DEF CallsAreCurrent
  <1>5. BalanceMatchesStatus'
    <2>1. ASSUME NEW p \in Orders, p \notin contested'
          PROVE  balance'[p] = IF status'[p] \in {"pending", "confirmed"} THEN -1 ELSE 0
      <3>1. p \notin contested
              /\ balance[p] = IF status[p] \in {"pending", "confirmed"} THEN -1 ELSE 0
        BY <1>2, <2>1 DEF StatusInv, BalanceMatchesStatus
      <3>2. CASE p = o
        <4>1. <<status[o], call[s].to>> \in DocumentedTransitions
          BY <1>2, <2>1, <3>2, CurrentCall
        <4>2. balance[o] = -1
          BY <3>1, <3>2, <4>1 DEF DocumentedTransitions
        <4>3. status'[o] = call[s].to
              /\ balance'[o] = IF call[s].to \in Returning THEN 0 ELSE -1
          BY <1>1, <1>2, <4>2 DEF TypeOK
        <4>. QED BY <3>2, <4>3, CurrentCall DEF Returning
      <3>3. CASE p # o
        BY <1>2, <3>1, <3>3 DEF TypeOK
      <3>. QED BY <3>2, <3>3
    <2>. QED BY <2>1 DEF BalanceMatchesStatus
  <1>. QED BY <1>3, <1>4, <1>5 DEF StatusInv

LEMMA AbandonStatusInv ==
  ASSUME TypeOK, StatusInv, NEW s \in Staff, AbandonStatus(s)
  PROVE  StatusInv'
  <1>1. /\ UNCHANGED <<status, balance, tx, contested>>
        /\ \A r \in Staff : call'[r].pc = "read" => call'[r] = call[r]
    BY DEF AbandonStatus, ledger, work, TypeOK
  <1>. QED BY <1>1 DEF StatusInv, RowsAfterCommit, CallsAreCurrent, BalanceMatchesStatus

(* The steps that are neither a status call's nor the commit of an order. *)
LEMMA TransactionsKeepStatus ==
  ASSUME TypeOK,
         \/ \E o \in Orders : BeginOrder(o) \/ RefuseOrder(o) \/ RejectOrder(o)
         \/ \E m \in Manual : MovementStep(m)
         \/ \E t \in Txs : DatabaseStep(t)
         \/ UNCHANGED vars
  PROVE  StatusKept
  <1>1. ASSUME NEW o \in Orders, BeginOrder(o) \/ RefuseOrder(o) \/ RejectOrder(o)
        PROVE  StatusKept
    <2>. o \in Txs  BY DEF Txs
    <2>. QED BY <1>1, RollBackStatus, ReadSumsStatus
             DEF BeginOrder, RefuseOrder, RejectOrder, Locked
  <1>2. ASSUME NEW m \in Manual, MovementStep(m)
        PROVE  StatusKept
    <2>. m \in Txs  BY DEF Txs
    <2>1. ASSUME CommitOutbound(m) \/ RecordReceipt(m)  PROVE StatusKept
      BY <2>1 DEF CommitOutbound, RecordReceipt, Finish, StatusKept, TypeOK, Txs
    <2>. QED BY <1>2, <2>1, RollBackStatus, ReadSumsStatus
             DEF MovementStep, BeginOutbound, RefuseMovement, RejectOutbound, Locked
  <1>3. ASSUME NEW t \in Txs, DatabaseStep(t)  PROVE StatusKept
    <2>1. ASSUME NEW k \in Keys, LockRows(t, k)  PROVE StatusKept
      BY <2>1 DEF LockRows, ledger, StatusKept
    <2>. QED BY <1>3, <2>1, RollBackStatus DEF DatabaseStep, DeadlockVictim, ConnectionLost
  <1>4. ASSUME UNCHANGED vars  PROVE StatusKept
    BY <1>4 DEF vars, ledger, work, StatusKept
  <1>. QED BY <1>1, <1>2, <1>3, <1>4

LEMMA StatusInvStep == TypeOK /\ StatusInv /\ [Next]_vars => StatusInv'
  <1>. SUFFICES ASSUME TypeOK, StatusInv, [Next]_vars  PROVE StatusInv'
    OBVIOUS
  <1>1. ASSUME NEW s \in Staff, StatusStep(s)  PROVE StatusInv'
    BY <1>1, ReadStatusInv, WriteStatusInv, AbandonStatusInv DEF StatusStep
  <1>2. ASSUME NEW o \in Orders, CommitOrder(o)  PROVE StatusInv'
    BY <1>2, CommitOrderStatus
  <1>. QED BY <1>1, <1>2, TransactionsKeepStatus, KeptStatusInv DEF Next, OrderStep

LEMMA StatusInvariant == Spec => []StatusInv
  <1>1. Init => StatusInv
    BY DEF Init, StatusInv, RowsAfterCommit, CallsAreCurrent, BalanceMatchesStatus
  <1>. QED BY <1>1, StatusInvStep, TypeCorrect, PTL DEF Spec

(* The items of an order are out of stock while it is pending or confirmed   *)
(* and back, once, when it ends, unless status calls overlapped on it.       *)
THEOREM LedgerMatchesStatus == Spec => []BalanceMatchesStatus
  <1>1. StatusInv => BalanceMatchesStatus
    BY DEF StatusInv
  <1>. QED BY <1>1, StatusInvariant, PTL

(* Outside overlapping status calls an order moves along the documented      *)
(* transitions only.                                                         *)
THEOREM TransitionsAreLegal == Spec => LegalTransitions
  <1>. DEFINE Legal ==
         \A o \in Orders :
           status[o] \notin {"none", status'[o]} /\ o \notin contested' =>
             <<status[o], status'[o]>> \in DocumentedTransitions
  <1>1. TypeOK /\ StatusInv /\ [Next]_vars => [Legal]_vars
    <2>. SUFFICES ASSUME TypeOK, StatusInv, [Next]_vars  PROVE Legal
      OBVIOUS
    <2>1. ASSUME NEW s \in Staff, StatusStep(s)  PROVE Legal
      <3>1. CASE WriteStatus(s)
        <4>1. /\ call[s].order \in Orders
              /\ status' = [status EXCEPT ![call[s].order] = call[s].to]
              /\ call[s].overtaken => call[s].order \in contested'
          BY <3>1, CurrentCall DEF WriteStatus
        <4>. QED BY <3>1, <4>1, CurrentCall DEF TypeOK
      <3>2. CASE ~WriteStatus(s)
        <4>1. status' = status
          BY <2>1, <3>2 DEF StatusStep, ReadStatus, AbandonStatus
        <4>. QED BY <4>1
      <3>. QED BY <3>1, <3>2
    <2>2. ASSUME NEW o \in Orders, CommitOrder(o)  PROVE Legal
      BY <2>2, CommitOrderStatus DEF CommitOrder, TypeOK
    <2>3. ASSUME StatusKept  PROVE Legal
      BY <2>3 DEF StatusKept
    <2>. QED BY <2>1, <2>2, <2>3, TransactionsKeepStatus DEF Next, OrderStep
  <1>. QED BY <1>1, TypeCorrect, StatusInvariant, PTL DEF Spec, LegalTransitions

=============================================================================
