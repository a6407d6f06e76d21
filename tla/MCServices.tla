----------------------------- MODULE MCServices -----------------------------
(***************************************************************************)
(* The services that share nothing but the database, one at a time: a       *)
(* behaviour is of one part, and the others stay as they are.               *)
(***************************************************************************)
EXTENDS RateLimit, Accounts, Categories, CatalogImport, Reminders,
        Coupons, TLC

VARIABLE part
vars == <<part, rateVars, accountVars, treeVars, importVars, reminderVars,
          couponVars>>

-----------------------------------------------------------------------------
(* RateLimit *)
MCIdentifiers == {"admin", "customer"}

-----------------------------------------------------------------------------
(* Accounts: two redemptions that fit the points only one by one, and five calls on *)
(* the addresses.                                                                   *)
Redeem(n) == [op |-> "redeem", points |-> n]
Address(op, id, wish) == [op |-> op, id |-> id, wish |-> wish]
MCCalls == {"c1", "c2", "c3", "c4"}
MCRequests ==
  {("c1" :> Redeem(100) @@ "c2" :> Redeem(150) @@ "c3" :> Redeem(90) @@ "c4" :> Redeem(100))}
    \cup {("c1" :> Address("create", "c1", "default")
             @@ "c2" :> Address("update", "home", "default")
             @@ "c3" :> Address("create", "c3", "default") @@ "c4" :> x) :
            x \in {Address("delete", "home", "unsaid"), Address("update", "c1", "other"),
                   Address("create", "c4", "unsaid"), Address("update", "c3", "default")}}

-----------------------------------------------------------------------------
(* Categories: a chain of three, or two at the top of which one has a child. *)
Edit(op, node, under) == [op |-> op, node |-> node, under |-> under]
MCPlans ==
  {("x" :> x @@ "y" :> y @@ "z" :> z) :
     x \in {Edit("move", "a", "c"), Edit("move", "c", "a")},
     y \in {Edit("delete", "b", "top"), Edit("move", "b", "b"), Edit("move", "b", "top")},
     z \in {Edit("create", "d", "b"), Edit("move", "a", "b"), Edit("move", "b", "a")}}
MCTrees == {("a" :> "top" @@ "b" :> "a" @@ "c" :> "b"),
            ("a" :> "top" @@ "b" :> "top" @@ "c" :> "a")}

-----------------------------------------------------------------------------
(* CatalogImport: imports that share a product, a category and a supplier with each *)
(* other, and single products coming and going beside them.                         *)
Line(name, cost, supplier) ==
  [name |-> name, price |-> cost, category |-> "bulk", supplier |-> supplier]
First == [kind |-> "import", rows |-> <<Line("oats", 2, "bulk"), Line("nuts", 0, "nobody")>>]
Second == [kind |-> "import", rows |-> <<Line("oats", 4, "nobody"), Line("oats", 5, "bulk")>>]
Raise == [kind |-> "raise", rows |-> <<1, 2, 1>>, value |-> 100]
Fix == [kind |-> "fix", rows |-> <<1>>, value |-> 0]
Halve == [kind |-> "raise", rows |-> <<1, 1, 1>>, value |-> -60]
Lower == [kind |-> "raise", rows |-> <<1, 2>>, value |-> -150]
Create == [kind |-> "create", name |-> "oats", price |-> 1]
Rename == [kind |-> "update", id |-> 1, name |-> "oats", price |-> 3]
MCOrders == {("i" :> First @@ "j" :> First @@ "k" :> [kind |-> "delete", id |-> 2]),
             ("i" :> Second @@ "j" :> Raise @@ "k" :> Create),
             ("i" :> Second @@ "j" :> Raise @@ "k" :> Rename),
             ("i" :> Raise @@ "j" :> Raise @@ "k" :> Fix),
             ("i" :> Raise @@ "j" :> Halve @@ "k" :> Lower)}
MCStocked == <<[name |-> "nuts", price |-> 1, suppliers |-> {}]>>

-----------------------------------------------------------------------------
(* Coupons: two updates of one coupon, and two calls that want one code. *)
Ask(op, id, code, type, value, starts, ends) ==
  [op |-> op, id |-> id, code |-> code, type |-> type, value |-> value,
   starts |-> starts, ends |-> ends]
MCProposals ==
  LET Just(f, v) == [Ask("update", "old", Absent, Absent, Absent, Absent, Absent) EXCEPT ![f] = v]
      Whole(t, v, s, e) == Ask("update", "old", "NEW", t, v, s, e)
      Printing(v) == Ask("create", "p", "NEW", "PERCENTAGE", v, 2, 3)
      Deleting == Ask("delete", "old", Absent, Absent, Absent, Absent, Absent)
  IN  {("p" :> Printing(v) @@ "q" :> x @@ "r" :> y) :
         v \in {100, 101},
         x \in {Just("value", 500), Just("type", "PERCENTAGE"), Just("starts", 4), Deleting},
         y \in {Whole("PERCENTAGE", 10, 2, 5), Whole("PERCENTAGE", 0, 2, 5),
                Whole("FIXED", 500, 5, 5), Just("ends", 1), Just("code", "NEW")}}
MCPrinted == ("old" :> [code |-> "OLD", type |-> "FIXED", value |-> 500, starts |-> 1, ends |-> 2])

-----------------------------------------------------------------------------
(* What the parts that stay as they are were asked for does not matter. *)
Chosen(p, x, X) == part = p \/ x = CHOOSE v \in X : TRUE

MCInit ==
  /\ part \in {"rate", "accounts", "tree", "import", "reminders", "coupons"}
  /\ RateInit /\ AccountInit /\ TreeInit /\ ImportInit /\ ReminderInit
  /\ CouponInit
  /\ Chosen("accounts", wants, Requests)
  /\ Chosen("tree", plan, Plans) /\ Chosen("tree", parent, Trees)
  /\ Chosen("import", order, Orders) /\ Chosen("coupons", proposal, Proposals)

MCRateNext == part = "rate" /\ RateNext
  /\ UNCHANGED <<part, accountVars, treeVars, importVars, reminderVars, couponVars>>
MCAccountNext == part = "accounts" /\ AccountNext
  /\ UNCHANGED <<part, rateVars, treeVars, importVars, reminderVars, couponVars>>
MCTreeNext == part = "tree" /\ TreeNext
  /\ UNCHANGED <<part, rateVars, accountVars, importVars, reminderVars, couponVars>>
MCImportNext == part = "import" /\ ImportNext
  /\ UNCHANGED <<part, rateVars, accountVars, treeVars, reminderVars, couponVars>>
MCReminderNext == part = "reminders" /\ ReminderNext
  /\ UNCHANGED <<part, rateVars, accountVars, treeVars, importVars, couponVars>>
MCCouponNext == part = "coupons" /\ CouponNext
  /\ UNCHANGED <<part, rateVars, accountVars, treeVars, importVars, reminderVars>>

MCNext ==
  \/ MCRateNext \/ MCAccountNext \/ MCTreeNext \/ MCImportNext \/ MCReminderNext
  \/ MCCouponNext

MCSpec == MCInit /\ [][MCNext]_vars /\ \A e \in Editors : WF_vars(MCTreeNext /\ Proceed(e))

-----------------------------------------------------------------------------
(* Every variable of the six services keeps its type. *)
TypeOK ==
  /\ RateTypes /\ AccountTypes /\ TreeTypes /\ ImportTypes /\ ReminderTypes
  /\ CouponTypes

=============================================================================
