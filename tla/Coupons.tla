------------------------------ MODULE Coupons ------------------------------
(***************************************************************************)
(* Coupons: src/src/modules/coupons/service.ts.                             *)
(*                                                                         *)
(* A call reads what it needs, checks its own input and makes one write;    *)
(* other calls come in between.  updateCoupon takes any of the fields and   *)
(* leaves the rest, which its checks do not look at.  minPurchase, maxUses  *)
(* and isActive are in no check and are left out.                           *)
(***************************************************************************)
EXTENDS Integers

CONSTANTS
  Clerks,    \* mutations under way, each made once
  Codes,     \* what customers type
  Absent,    \* a field that the input of updateCoupon does not give
  Proposals, \* what the calls may ask for, taken together
  Printed    \* coupons when the behaviour starts, as a function of their ids

Discounts == {"PERCENTAGE", "FIXED"}
Coupons == [code : Codes, type : Discounts, value : Int, starts : Nat, ends : Nat]

(* A coupon is known by the call that creates it, or was there before. *)
CouponIds == Clerks \cup DOMAIN Printed
Terms == [op : {"create", "update", "delete"}, id : CouponIds,
          code : Codes \cup {Absent}, type : Discounts \cup {Absent},
          value : Int \cup {Absent}, starts : Nat \cup {Absent}, ends : Nat \cup {Absent}]
Fields == {"code", "type", "value", "starts", "ends"}

VARIABLES
  proposal,  \* proposal[c]: the request of call c
  clerk,     \* clerk[c]: progress of call c
  coupons,   \* coupons[i]: the row with id i, for the ids there are
  haggled,   \* history: ids whose type or value was last set without the other
  redated    \* history: ids whose start or end was last set without the other

couponVars == <<proposal, clerk, coupons, haggled, redated>>

Issued == DOMAIN coupons
Taken(code) == \E i \in Issued : coupons[i].code = code

(* What createCoupon checks of its input, and updateCoupon of the fields it is given. *)
PercentageInRange(t) ==
  t.type = "PERCENTAGE" /\ t.value # Absent => t.value > 0 /\ t.value <= 100
EndsAfterStart(t) == t.starts # Absent /\ t.ends # Absent => t.ends > t.starts

ASSUME CouponConstants ==
  /\ Absent \notin Codes \cup Discounts
  /\ \A p \in Proposals :
       /\ DOMAIN p = Clerks
       /\ \A c \in Clerks :
            /\ p[c] \in Terms
            /\ p[c].op = "create" => p[c].id = c /\ \A f \in Fields : p[c][f] # Absent
  /\ \A i \in DOMAIN Printed :
       Printed[i] \in Coupons /\ PercentageInRange(Printed[i]) /\ EndsAfterStart(Printed[i])
  /\ \A i, j \in DOMAIN Printed : Printed[i].code = Printed[j].code => i = j

-----------------------------------------------------------------------------
CouponInit ==
  /\ proposal \in Proposals
  /\ clerk = [c \in Clerks |-> "idle"]
  /\ coupons = Printed
  /\ haggled = {} /\ redated = {}

Pass(c, s) == clerk' = [clerk EXCEPT ![c] = s]

(* mutant: the input is not checked when it is an update *)
ChecksCreateOnly(c) ==
  Pass(c, IF proposal[c].op = "update" THEN "updating"
          ELSE IF PercentageInRange(proposal[c]) /\ EndsAfterStart(proposal[c]) THEN "inserting"
          ELSE "ended")

(* The input is looked at after the lookups, and nothing is asked of the database. *)
Checks(c) ==
  Pass(c, IF ~PercentageInRange(proposal[c]) \/ ~EndsAfterStart(proposal[c]) THEN "ended"
          ELSE IF proposal[c].op = "create" THEN "inserting" ELSE "updating")

(* The first statement: createCoupon looks for the code, the others for the row. *)
LookUp(c) ==
  LET p == proposal[c]
  IN  /\ clerk[c] = "idle"
      /\ IF p.op = "create" THEN IF Taken(p.code) THEN Pass(c, "ended") ELSE Checks(c)
         ELSE IF p.id \notin Issued THEN Pass(c, "ended")
         ELSE IF p.op = "delete" THEN Pass(c, "removing")
         ELSE IF p.code \in {Absent, coupons[p.id].code} THEN Checks(c)
         ELSE Pass(c, "recoding")
      /\ UNCHANGED <<proposal, coupons, haggled, redated>>

(* updateCoupon looks for the new code. *)
FindCode(c) ==
  /\ clerk[c] = "recoding"
  /\ IF Taken(proposal[c].code) THEN Pass(c, "ended") ELSE Checks(c)
  /\ UNCHANGED <<proposal, coupons, haggled, redated>>

-----------------------------------------------------------------------------
(* @@unique([tenantId, code]): the INSERT fails if another call was faster. *)
InsertCoupon(c) ==
  LET p == proposal[c]
  IN  /\ clerk[c] = "inserting"
      /\ Pass(c, "ended")
      /\ coupons' = IF Taken(p.code) THEN coupons
                    ELSE [i \in Issued \cup {c} |->
                            IF i = c THEN [f \in Fields |-> p[f]] ELSE coupons[i]]
      /\ UNCHANGED <<proposal, haggled, redated>>

(* The row as it is by now, with the fields that are given. *)
Revised(old, p) == [f \in Fields |-> IF p[f] = Absent THEN old[f] ELSE p[f]]

(* ids with the history of one pair of related fields brought up to date *)
Halves(ids, p, f, g) ==
  IF p[f] = Absent /\ p[g] = Absent THEN ids
  ELSE IF p[f] = Absent \/ p[g] = Absent THEN ids \cup {p.id} ELSE ids \ {p.id}

UpdateCoupon(c) ==
  LET p == proposal[c]
      clash == \E i \in Issued \ {p.id} : coupons[i].code = p.code
  IN  /\ clerk[c] = "updating"
      /\ Pass(c, "ended")
      /\ IF p.id \notin Issued \/ clash THEN UNCHANGED <<coupons, haggled, redated>>
         ELSE /\ coupons' = [coupons EXCEPT ![p.id] = Revised(@, p)]
              /\ haggled' = Halves(haggled, p, "type", "value")
              /\ redated' = Halves(redated, p, "starts", "ends")
      /\ UNCHANGED proposal

RemoveCoupon(c) ==
  /\ clerk[c] = "removing"
  /\ Pass(c, "ended")
  /\ coupons' = [i \in Issued \ {proposal[c].id} |-> coupons[i]]
  /\ UNCHANGED <<proposal, haggled, redated>>

CouponNext == \E c \in Clerks :
  LookUp(c) \/ FindCode(c) \/ InsertCoupon(c) \/ UpdateCoupon(c) \/ RemoveCoupon(c)

CouponSpec == CouponInit /\ [][CouponNext]_couponVars

-----------------------------------------------------------------------------
(* Every variable keeps its type. *)
CouponTypes ==
  /\ proposal \in Proposals
  /\ clerk \in [Clerks -> {"idle", "recoding", "inserting", "updating", "removing", "ended"}]
  /\ Issued \subseteq CouponIds
  /\ \A i \in Issued : coupons[i] \in Coupons
  /\ haggled \subseteq CouponIds /\ redated \subseteq CouponIds

(* However calls overlap, a code names one coupon; and a coupon keeps what            *)
(* createCoupon asks of it - a percentage within 100, an end after its start - until   *)
(* an update sets one of two fields that are only right together, and again once one   *)
(* has set both.                                                                      *)
CouponsSound ==
  /\ \A i, j \in Issued : coupons[i].code = coupons[j].code => i = j
  /\ \A i \in Issued \ haggled : PercentageInRange(coupons[i])
  /\ \A i \in Issued \ redated : EndsAfterStart(coupons[i])

=============================================================================
