----------------------------- MODULE Reminders -----------------------------
(***************************************************************************)
(* Reminders of abandoned carts: src/src/jobs/abandonedCart.ts.             *)
(*                                                                         *)
(* A pass lists the carts without reminderSentAt and, one after another,    *)
(* sends a mail and writes reminderSentAt.  A pass begins when the server   *)
(* has started and every 24 hours after, whether the last one is over or    *)
(* not; nothing marks a cart as being worked on.                            *)
(***************************************************************************)
EXTENDS Integers, FiniteSets

CONSTANTS
  Abandoned, \* rows of AbandonedCart that are older than the threshold
  Mailable,  \* those with items and an e-mail address
  Passes,    \* bound: passes of the job in all
  MaxSlips   \* bound: mails, updates and processes that fail

ASSUME ReminderConstants ==
  Mailable \subseteq Abandoned /\ IsFiniteSet(Passes) /\ MaxSlips \in Nat

VARIABLES
  pass,     \* pass[p]: progress of pass p
  listed,   \* listed[p]: carts it has still to come to
  current,  \* current[p]: the cart it is at, in a set, or none
  reminded, \* carts with reminderSentAt
  failed,   \* bounded by MaxSlips
  mails,    \* history: mails[k]: reminders that were sent for cart k
  slips     \* history: slips[k]: reminders of k sent and not recorded, and listings of k
            \* by a pass while another had it

reminderVars == <<pass, listed, current, reminded, failed, mails, slips>>

ReminderInit ==
  /\ pass = [p \in Passes |-> "idle"]
  /\ listed = [p \in Passes |-> {}]
  /\ current = [p \in Passes |-> {}]
  /\ reminded = {} /\ failed = 0
  /\ mails = [k \in Abandoned |-> 0] /\ slips = [k \in Abandoned |-> 0]

Slip(ks) == slips' = [k \in Abandoned |-> slips[k] + IF k \in ks THEN 1 ELSE 0]
Move(p, s) == pass' = [pass EXCEPT ![p] = s]

(* startAbandonedCartJob and its interval: findMany of what was not reminded *)
BeginPass(p) ==
  LET held == UNION {listed[q] \cup current[q] : q \in Passes}
  IN  /\ pass[p] = "idle"
      /\ Move(p, "looping")
      /\ listed' = [listed EXCEPT ![p] = Abandoned \ reminded]
      /\ Slip(held \ reminded)
      /\ UNCHANGED <<current, reminded, failed, mails>>

(* The next cart; one without items or address is passed over. *)
NextCart(p) ==
  /\ pass[p] = "looping"
  /\ IF listed[p] = {} THEN Move(p, "over") /\ UNCHANGED <<listed, current>>
     ELSE \E k \in listed[p] :
            /\ listed' = [listed EXCEPT ![p] = @ \ {k}]
            /\ IF k \in Mailable
               THEN Move(p, "sending") /\ current' = [current EXCEPT ![p] = {k}]
               ELSE UNCHANGED <<pass, current>>
  /\ UNCHANGED <<reminded, failed, mails, slips>>

Mailed(p) == mails' = [k \in Abandoned |-> mails[k] + IF k \in current[p] THEN 1 ELSE 0]
LetGo(p) == current' = [current EXCEPT ![p] = {}]

SendMail(p) ==
  /\ pass[p] = "sending"
  /\ Mailed(p)
  /\ Move(p, "marking")
  /\ UNCHANGED <<listed, current, reminded, failed, slips>>

(* mutant: reminderSentAt is not written *)
MarkRemindedNot(p) ==
  /\ pass[p] = "marking"
  /\ LetGo(p)
  /\ Move(p, "looping")
  /\ UNCHANGED <<listed, reminded, failed, mails, slips>>

MarkReminded(p) ==
  /\ pass[p] = "marking"
  /\ reminded' = reminded \cup current[p]
  /\ LetGo(p)
  /\ Move(p, "looping")
  /\ UNCHANGED <<listed, failed, mails, slips>>

Fails ==
  /\ failed < MaxSlips
  /\ failed' = failed + 1

(* sendEmail throws, the mail gone or not; the pass goes on with the next cart. *)
SendFails(p) ==
  /\ Fails
  /\ pass[p] = "sending"
  /\ \/ Mailed(p) /\ Slip(current[p])
     \/ UNCHANGED <<mails, slips>>
  /\ LetGo(p)
  /\ Move(p, "looping")
  /\ UNCHANGED <<listed, reminded>>

(* The UPDATE throws, done or not. *)
MarkFails(p) ==
  /\ Fails
  /\ pass[p] = "marking"
  /\ reminded' \in {reminded, reminded \cup current[p]}
  /\ Slip(current[p])
  /\ LetGo(p)
  /\ Move(p, "looping")
  /\ UNCHANGED <<listed, mails>>

(* The process stops and is started again; a mail that was just sent is forgotten. *)
RestartJob ==
  /\ Fails
  /\ Slip(UNION {current[p] : p \in {q \in Passes : pass[q] = "marking"}})
  /\ pass' = [p \in Passes |-> IF pass[p] = "idle" THEN "idle" ELSE "over"]
  /\ listed' = [p \in Passes |-> {}]
  /\ current' = [p \in Passes |-> {}]
  /\ UNCHANGED <<reminded, mails>>

ReminderNext ==
  \/ \E p \in Passes :
       BeginPass(p) \/ NextCart(p) \/ SendMail(p) \/ MarkReminded(p)
         \/ SendFails(p) \/ MarkFails(p)
  \/ RestartJob

ReminderSpec == ReminderInit /\ [][ReminderNext]_reminderVars

-----------------------------------------------------------------------------
(* Every variable keeps its type; a pass has a cart while it sends or records. *)
ReminderTypes ==
  /\ pass \in [Passes -> {"idle", "looping", "sending", "marking", "over"}]
  /\ listed \in [Passes -> SUBSET Abandoned]
  /\ current \in [Passes -> SUBSET Mailable]
  /\ \A p \in Passes : current[p] # {} <=> pass[p] \in {"sending", "marking"}
  /\ reminded \subseteq Mailable
  /\ failed \in 0 .. MaxSlips
  /\ mails \in [Abandoned -> Nat] /\ slips \in [Abandoned -> Nat]

(* A cart is reminded once, and once more for each time that a mail was not recorded *)
(* or two passes had the cart listed together; what is recorded was sent.            *)
RemindedOnce ==
  \A k \in Abandoned :
    /\ mails[k] <= 1 + slips[k]
    /\ k \in reminded => mails[k] > 0

=============================================================================
