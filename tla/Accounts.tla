------------------------------ MODULE Accounts ------------------------------
(***************************************************************************)
(* What a customer keeps beside the orders: points                          *)
(* (src/src/modules/loyalty/resolver.ts) and addresses                      *)
(* (src/src/modules/customers/service.ts).                                  *)
(*                                                                         *)
(* Calls of different customers share no rows: the module is of one.        *)
(* redeemPoints is three statements without a transaction.  The address     *)
(* calls have one, at PostgreSQL's READ COMMITTED: each statement sees what *)
(* was committed when it began, and UPDATE waits for rows that another      *)
(* transaction has updated.                                                 *)
(***************************************************************************)
EXTENDS Totals, Integers, FiniteSets

CONSTANTS
  Calls,        \* mutations under way, each made once
  Requests,     \* what the calls may ask for, taken together
  OpeningPoints,\* points of the customer when the behaviour starts
  OpeningRows,  \* addresses of the customer when the behaviour starts, none a default
  MinRedeem,    \* 100
  MaxFaults     \* bound: calls cut short

AddressOps == {"create", "update", "delete"}

(* An address is known by the call that creates it, or was there before.  wish: *)
(* isDefault of the input, if it has one.                                        *)
Addresses == Calls \cup OpeningRows
Asks == [op : {"redeem"}, points : Nat]
          \cup [op : AddressOps, id : Addresses, wish : {"default", "other", "unsaid"}]

ASSUME AccountConstants ==
  /\ Requests \subseteq {r \in [Calls -> Asks] :
                           \A c \in Calls : r[c].op = "create" => r[c].id = c}
  /\ IsFiniteSet(Calls) /\ Calls \cap OpeningRows = {}
  /\ OpeningPoints \in Nat /\ MinRedeem \in Nat /\ MaxFaults \in Nat

VARIABLES
  wants,     \* wants[c]: the request of call c
  step,      \* step[c]: progress of call c
  points,    \* Customer.loyaltyPoints
  ledger,    \* sum of LoyaltyPoint.points
  rows,      \* addresses that are committed
  default,   \* those with isDefault
  view,      \* view[c]: addresses its updateMany sees
  locked,    \* locked[c]: addresses its transaction has updated, none a default now
  faults,    \* bounded by MaxFaults
  owing,     \* history: redemptions recorded and not taken off the points
  crowded,   \* history: a redemption passed its check while another was past its own
  rivals,    \* history: calls that set a default while another did
  tangled    \* history: the last call that set a default was one of those

money == <<points, ledger, owing, crowded>>
address == <<rows, default, view, locked, rivals, tangled>>
accountVars == <<wants, step, faults, money, address>>

-----------------------------------------------------------------------------
AccountInit ==
  /\ wants \in Requests
  /\ step = [c \in Calls |-> "idle"]
  /\ points = OpeningPoints /\ ledger = OpeningPoints
  /\ rows = OpeningRows /\ default = {}
  /\ view = [c \in Calls |-> {}] /\ locked = [c \in Calls |-> {}]
  /\ faults = 0 /\ owing = {} /\ crowded = FALSE
  /\ rivals = {} /\ tangled = FALSE

Onto(c, s) == step' = [step EXCEPT ![c] = s]
Starts(c, op) == step[c] = "idle" /\ wants[c].op = op

(* mutant: the balance is not checked *)
EnoughAlways(c) == wants[c].points >= MinRedeem

Enough(c) == wants[c].points >= MinRedeem /\ points >= wants[c].points

(* redeemPoints: the checks *)
CheckPoints(c) ==
  /\ Starts(c, "redeem")
  /\ Onto(c, IF Enough(c) THEN "recording" ELSE "ended")
  /\ crowded' = (crowded \/ \E d \in Calls \ {c} : step[d] \in {"recording", "paying"})
  /\ UNCHANGED <<wants, points, ledger, faults, owing, address>>

(* The row of LoyaltyPoint *)
RecordRedemption(c) ==
  /\ step[c] = "recording"
  /\ ledger' = ledger - wants[c].points
  /\ owing' = owing \cup {c}
  /\ Onto(c, "paying")
  /\ UNCHANGED <<wants, points, faults, crowded, address>>

(* The decrement on Customer *)
PayPoints(c) ==
  /\ step[c] = "paying"
  /\ points' = points - wants[c].points
  /\ owing' = owing \ {c}
  /\ Onto(c, "ended")
  /\ UNCHANGED <<wants, ledger, faults, crowded, address>>

-----------------------------------------------------------------------------
Setting == {c \in Calls : step[c] \in {"clearing", "setting"}}

(* No other transaction holds one of these rows. *)
Unlocked(c, ids) == \A d \in Calls \ {c} : locked[d] \cap ids = {}

(* createAddress, or updateAddress of a row it has found: with isDefault the        *)
(* updateMany begins, and sees the addresses of now; without, one statement is left.*)
BeginAddress(c) ==
  /\ step[c] = "idle"
  /\ wants[c].op \in AddressOps
  /\ CASE wants[c].op # "create" /\ wants[c].id \notin rows ->
            Onto(c, "ended") /\ UNCHANGED <<view, rivals>>
       [] wants[c].op # "delete" /\ wants[c].wish = "default" ->
            /\ Onto(c, "clearing")
            /\ view' = [view EXCEPT ![c] = rows]
            /\ rivals' = rivals \cup IF Setting = {} THEN {} ELSE Setting \cup {c}
       [] OTHER -> Onto(c, "writing") /\ UNCHANGED <<view, rivals>>
  /\ UNCHANGED <<wants, rows, default, locked, faults, money, tangled>>

(* mutant: updateMany is forgotten when an address is updated *)
ClearDefaultsOfCreate(c) ==
  /\ step[c] = "clearing"
  /\ Unlocked(c, view[c])
  /\ locked' = [locked EXCEPT ![c] = IF wants[c].op = "create" THEN view[c] \cap rows
                                     ELSE {wants[c].id} \cap rows]
  /\ Onto(c, "setting")
  /\ UNCHANGED <<wants, rows, default, view, faults, money, rivals, tangled>>

(* updateMany has all the rows it saw that are still there. *)
ClearDefaults(c) ==
  /\ step[c] = "clearing"
  /\ Unlocked(c, view[c])
  /\ locked' = [locked EXCEPT ![c] = view[c] \cap rows]
  /\ Onto(c, "setting")
  /\ UNCHANGED <<wants, rows, default, view, faults, money, rivals, tangled>>

Release(c) ==
  /\ locked' = [locked EXCEPT ![c] = {}]
  /\ view' = [view EXCEPT ![c] = {}]
  /\ Onto(c, "ended")

(* The row itself, and COMMIT. *)
SetDefault(c) ==
  /\ step[c] = "setting"
  /\ wants[c].op = "create" \/ wants[c].id \in rows
  /\ rows' = rows \cup {wants[c].id}
  /\ default' = (default \ locked[c]) \cup {wants[c].id}
  /\ Release(c)
  /\ tangled' = (c \in rivals)
  /\ UNCHANGED <<wants, faults, money, rivals>>

(* The row was deleted before updateMany could lock it: update throws, ROLLBACK. *)
SetMissing(c) ==
  /\ step[c] = "setting"
  /\ wants[c].op # "create" /\ wants[c].id \notin rows
  /\ Release(c)
  /\ UNCHANGED <<wants, rows, default, faults, money, rivals, tangled>>

(* The calls of one statement; it waits for its row, and fails if that is gone. *)
WriteRow(c) ==
  /\ step[c] = "writing"
  /\ Unlocked(c, {wants[c].id})
  /\ rows' = IF wants[c].op = "create" THEN rows \cup {c}
             ELSE IF wants[c].op = "delete" THEN rows \ {wants[c].id} ELSE rows
  /\ default' = IF wants[c].op = "delete" \/ wants[c].wish = "other"
                THEN default \ {wants[c].id} ELSE default
  /\ Onto(c, "ended")
  /\ UNCHANGED <<wants, view, locked, faults, money, rivals, tangled>>

(* A statement fails or the process stops: what is not committed is undone. *)
GiveUp(c) ==
  /\ faults < MaxFaults
  /\ step[c] \notin {"idle", "ended"}
  /\ faults' = faults + 1
  /\ Release(c)
  /\ UNCHANGED <<wants, money, rows, default, rivals, tangled>>

AccountNext == \E c \in Calls :
  \/ CheckPoints(c) \/ RecordRedemption(c) \/ PayPoints(c)
  \/ BeginAddress(c) \/ ClearDefaults(c) \/ SetDefault(c) \/ SetMissing(c) \/ WriteRow(c)
  \/ GiveUp(c)

AccountSpec == AccountInit /\ [][AccountNext]_accountVars

-----------------------------------------------------------------------------
(* Every variable keeps its type, and a default address is an address. *)
AccountTypes ==
  /\ wants \in Requests
  /\ step \in [Calls -> {"idle", "recording", "paying", "clearing", "setting", "writing",
                         "ended"}]
  /\ points \in Int /\ ledger \in Int
  /\ rows \subseteq Addresses /\ default \subseteq rows
  /\ view \in [Calls -> SUBSET Addresses] /\ locked \in [Calls -> SUBSET Addresses]
  /\ faults \in 0 .. MaxFaults
  /\ owing \subseteq Calls /\ rivals \subseteq Calls
  /\ crowded \in BOOLEAN /\ tangled \in BOOLEAN

(* The points go below zero only if redemptions overlapped; they are more than the sum *)
(* of their rows, by what the redemptions between their two writes, or cut off there,  *)
(* have recorded.                                                                      *)
Owed == Total([c \in owing |-> wants[c].points], owing)
PointsAddUp ==
  /\ points < 0 => crowded
  /\ points = ledger + Owed
  /\ \A c \in owing : step[c] = "paying" \/ (step[c] = "ended" /\ faults > 0)

(* Two addresses are the default only while the last call that set one overlapped *)
(* another; the next that is alone repairs it.                                    *)
OneDefaultAddress == ~tangled => \A a, b \in default : a = b

=============================================================================
