------------------------------ MODULE Sessions ------------------------------
(***************************************************************************)
(* Accounts, passwords and refresh tokens: src/src/modules/auth/service.ts, *)
(* called by the mutations of src/src/modules/auth/resolver.ts.             *)
(*                                                                         *)
(* Each call is a few statements with awaits in between and no transaction. *)
(* A session is a family of refresh tokens, each the successor of one that  *)
(* was used.  Users are rows of Customer or of AdminUser: the code has the  *)
(* same paths for both.                                                     *)
(***************************************************************************)
EXTENDS Integers

CONSTANTS
  Users,
  Passwords,
  NoAccount,   \* not a password: the user has no row
  Tokens,      \* bound: values of randomBytes(40), numbered as they are drawn
  Calls,       \* calls under way, each made once
  Requests,    \* what the calls may ask for, taken together
  Opening,     \* Opening[u]: password of u when the behaviour starts, or NoAccount
  MaxFaults    \* bound: calls cut short

Asks == [op: {"register", "login", "change", "issue", "refresh", "revoke", "revokeAll"},
         user: Users, old: Passwords, new: Passwords]
Steps == {"idle", "hashing", "comparing", "writing", "cleaning", "rotating",
          "inserting", "revoking", "ended"}

ASSUME SessionConstants ==
  /\ NoAccount \notin Passwords
  /\ Requests \subseteq [Calls -> Asks]
  /\ Opening \in [Users -> Passwords \cup {NoAccount}]
  /\ Tokens \subseteq Nat /\ Tokens # {} /\ Users # {}
  /\ MaxFaults \in Nat

VARIABLES
  asks,      \* asks[c]: the request of call c
  account,   \* account[u]: the password whose hash is in the row of u, or NoAccount
  minted,    \* tokens ever inserted
  owner,     \* owner[t]: userId of a minted token
  family,    \* family[t]: the first token of its familyId
  rows,      \* tokens whose row is in the table RefreshToken
  used,      \* tokens whose row has usedAt
  revoked,   \* tokens whose row has revokedAt
  expired,   \* tokens past expiresAt
  pc,        \* pc[c]: progress of call c
  held,      \* held[c]: the token whose row call c has read
  seen,      \* seen[c]: the password hash call c has read
  faults,    \* bounded by MaxFaults
  checked,   \* history: calls whose token was live when they read it
  forked,    \* history: families of which a token was rotated, live when it was read
             \* and not live any more
  ended,     \* history: families of which a live token or a rotation was lost
  raced      \* history: users one of whose password changes overlapped another

origin == <<minted, owner, family>>
table == <<rows, used, revoked>>
tokens == <<origin, table, expired>>
locals == <<held, seen>>
history == <<checked, forked, ended, raced>>
vars == <<asks, account, tokens, pc, locals, faults, history>>

Live(t) == t \in rows \ (revoked \cup expired)
FamilyOf(ts) == {family[t] : t \in ts}

-----------------------------------------------------------------------------
Init ==
  /\ asks \in Requests
  /\ account = Opening
  /\ minted = {}
  /\ owner = [t \in Tokens |-> CHOOSE u \in Users : TRUE]
  /\ family = [t \in Tokens |-> t]
  /\ rows = {} /\ used = {} /\ revoked = {} /\ expired = {}
  /\ pc = [c \in Calls |-> "idle"]
  /\ held = [c \in Calls |-> CHOOSE t \in Tokens : TRUE]
  /\ seen = [c \in Calls |-> NoAccount]
  /\ faults = 0
  /\ checked = {} /\ forked = {} /\ ended = {} /\ raced = {}

Goto(c, step) == pc' = [pc EXCEPT ![c] = step]

(* A call of one of the operations ops begins. *)
Begins(c, ops) == pc[c] = "idle" /\ asks[c].op \in ops

User(c) == asks[c].user

-----------------------------------------------------------------------------
(* customerRegister, createAdmin: the e-mail is looked up, then bcrypt takes its time. *)
RegisterRead(c) ==
  /\ Begins(c, {"register"})
  /\ Goto(c, IF account[User(c)] = NoAccount THEN "hashing" ELSE "ended")
  /\ UNCHANGED <<asks, account, tokens, locals, faults, history>>

(* mutant: the unique key on the e-mail is missing *)
RegisterWriteOver(c) ==
  /\ pc[c] = "hashing"
  /\ account' = [account EXCEPT ![User(c)] = asks[c].new]
  /\ Goto(c, "ended")
  /\ UNCHANGED <<asks, tokens, locals, faults, history>>

(* The INSERT fails if the e-mail is there by now: @@unique([tenantId, email]). *)
RegisterWrite(c) ==
  /\ pc[c] = "hashing"
  /\ account' = [account EXCEPT ![User(c)] = IF @ = NoAccount THEN asks[c].new ELSE @]
  /\ Goto(c, "ended")
  /\ UNCHANGED <<asks, tokens, locals, faults, history>>

(* mutant: a user without a row is not refused *)
ReadAccountAnyway(c) ==
  /\ Begins(c, {"login", "change"})
  /\ Goto(c, "comparing")
  /\ seen' = [seen EXCEPT ![c] = account[User(c)]]
  /\ UNCHANGED <<asks, account, tokens, held, faults, history>>

(* adminLogin, customerLogin, changePassword: the row is read, if there is one. *)
ReadAccount(c) ==
  /\ Begins(c, {"login", "change"})
  /\ IF account[User(c)] = NoAccount
     THEN Goto(c, "ended") /\ seen' = seen
     ELSE Goto(c, "comparing") /\ seen' = [seen EXCEPT ![c] = account[User(c)]]
  /\ UNCHANGED <<asks, account, tokens, held, faults, history>>

(* bcrypt compares with what was read; a login ends here and writes nothing. *)
Compare(c) ==
  /\ pc[c] = "comparing"
  /\ Goto(c, IF asks[c].op = "change" /\ seen[c] = asks[c].old THEN "writing" ELSE "ended")
  /\ UNCHANGED <<asks, account, tokens, locals, faults, history>>

(* The UPDATE names the id alone, whatever the password is by now. *)
WritePassword(c) ==
  /\ pc[c] = "writing"
  /\ account' = [account EXCEPT ![User(c)] = asks[c].new]
  /\ raced' = raced \cup {u \in {User(c)} :
                            \E d \in Calls \ {c} : User(d) = u /\ asks[d].op = "change"
                                                     /\ pc[d] \in {"comparing", "writing"}}
  /\ Goto(c, "ended")
  /\ UNCHANGED <<asks, tokens, locals, faults, checked, forked, ended>>

-----------------------------------------------------------------------------
(* The row of a new token. *)
Insert(t, u, f) ==
  /\ t \notin minted /\ \A s \in Tokens \ minted : t <= s
  /\ minted' = minted \cup {t}
  /\ owner' = [owner EXCEPT ![t] = u]
  /\ family' = [family EXCEPT ![t] = f]
  /\ rows' = rows \cup {t}
  /\ UNCHANGED <<used, revoked, expired>>

(* generateRefreshToken. Nothing in src/ calls it: the first token of a family comes *)
(* from nowhere else, so this stands for the login that is still to call it.         *)
Issue(c) ==
  /\ Begins(c, {"issue"})
  /\ account[User(c)] # NoAccount
  /\ \E t \in Tokens : Insert(t, User(c), t)
  /\ Goto(c, "cleaning")
  /\ UNCHANGED <<asks, account, locals, faults, history>>

(* cleanupExpiredRefreshTokens, of all users *)
CleanUp(c) ==
  /\ pc[c] = "cleaning"
  /\ rows' = rows \ expired
  /\ Goto(c, "ended")
  /\ UNCHANGED <<asks, account, origin, used, revoked, expired, locals, faults,
                 history>>

(* What refreshAccessToken takes for theft: usedAt, on a row that is neither *)
(* revoked nor expired.                                                      *)
Suspicious(t) == Live(t) /\ t \in used

(* revokeAllUserRefreshTokens: one statement *)
RevokeAllOf(u) ==
  LET gone == {t \in minted : Live(t) /\ owner[t] = u}
      hit == {t \in rows : owner[t] = u}
  IN  /\ revoked' = revoked \cup hit
      /\ ended' = ended \cup FamilyOf(gone)

(* mutant: expiresAt is not checked *)
RefreshAcceptedLate(c) ==
  /\ Begins(c, {"refresh"})
  /\ \E t \in rows \ revoked :
       /\ ~Suspicious(t)
       /\ held' = [held EXCEPT ![c] = t]
       /\ checked' = checked \cup {d \in {c} : Live(t)}
  /\ Goto(c, "rotating")
  /\ UNCHANGED <<asks, account, tokens, seen, faults, forked, ended, raced>>

(* refreshAccessToken: the checks of the row it has read *)
RefreshAccepted(c) ==
  /\ Begins(c, {"refresh"})
  /\ \E t \in minted :
       /\ Live(t) /\ ~Suspicious(t)
       /\ held' = [held EXCEPT ![c] = t]
       /\ checked' = checked \cup {d \in {c} : Live(t)}
  /\ Goto(c, "rotating")
  /\ UNCHANGED <<asks, account, tokens, seen, faults, forked, ended, raced>>

RefreshRefused(c) ==
  /\ Begins(c, {"refresh"})
  /\ \E t \in minted :
       \/ ~Live(t) /\ UNCHANGED <<revoked, ended>>
       \/ Suspicious(t) /\ RevokeAllOf(owner[t])
  /\ Goto(c, "ended")
  /\ UNCHANGED <<asks, account, origin, rows, used, expired, locals, faults,
                 checked, forked, raced>>

(* Whether the token call c rotates has ceased to be live since the check. *)
Overtaken(c) ==
  forked' = forked \cup FamilyOf({t \in {held[c]} : c \in checked /\ ~Live(t)})

(* mutant: revokedAt is not written with usedAt *)
RotateUsed(c) ==
  /\ pc[c] = "rotating"
  /\ held[c] \in rows
  /\ used' = used \cup {held[c]}
  /\ Overtaken(c)
  /\ Goto(c, "inserting")
  /\ UNCHANGED <<asks, account, origin, rows, revoked, expired, locals, faults,
                 checked, ended, raced>>

(* generateAccessToken and the first statement of rotateRefreshToken, which names *)
(* the id alone: what the row is by now does not matter.                          *)
Rotate(c) ==
  /\ pc[c] = "rotating"
  /\ held[c] \in rows
  /\ used' = used \cup {held[c]}
  /\ revoked' = revoked \cup {held[c]}
  /\ Overtaken(c)
  /\ Goto(c, "inserting")
  /\ UNCHANGED <<asks, account, origin, rows, expired, locals, faults,
                 checked, ended, raced>>

(* The row was cleaned up meanwhile: update throws. *)
RotateMissing(c) ==
  /\ pc[c] = "rotating"
  /\ held[c] \notin rows
  /\ Goto(c, "ended")
  /\ UNCHANGED <<asks, account, tokens, locals, faults, history>>

(* mutant: the successor begins a family of its own *)
InsertStranger(c) ==
  /\ pc[c] = "inserting"
  /\ \E t \in Tokens : Insert(t, owner[held[c]], t)
  /\ Goto(c, "ended")
  /\ UNCHANGED <<asks, account, locals, faults, history>>

(* The second statement of rotateRefreshToken *)
InsertSuccessor(c) ==
  /\ pc[c] = "inserting"
  /\ \E t \in Tokens : Insert(t, owner[held[c]], family[held[c]])
  /\ Goto(c, "ended")
  /\ UNCHANGED <<asks, account, locals, faults, history>>

(* revokeRefreshToken: the row is looked up, and updated if there is one *)
RevokeRead(c) ==
  /\ Begins(c, {"revoke"})
  /\ \E t \in minted :
       /\ held' = [held EXCEPT ![c] = t]
       /\ Goto(c, IF t \in rows THEN "revoking" ELSE "ended")
  /\ UNCHANGED <<asks, account, tokens, seen, faults, history>>

RevokeWrite(c) ==
  /\ pc[c] = "revoking"
  /\ revoked' = revoked \cup ({held[c]} \cap rows)
  /\ ended' = ended \cup FamilyOf({t \in {held[c]} : Live(t)})
  /\ Goto(c, "ended")
  /\ UNCHANGED <<asks, account, origin, rows, used, expired, locals, faults,
                 checked, forked, raced>>

(* revokeAllSessions *)
RevokeAll(c) ==
  /\ Begins(c, {"revokeAll"})
  /\ RevokeAllOf(User(c))
  /\ Goto(c, "ended")
  /\ UNCHANGED <<asks, account, origin, rows, used, expired, locals, faults,
                 checked, forked, raced>>

-----------------------------------------------------------------------------
(* Thirty days after its INSERT. *)
Expire(t) ==
  /\ t \in minted \ expired
  /\ expired' = expired \cup {t}
  /\ ended' = ended \cup FamilyOf({t} \cap {s \in minted : Live(s)})
  /\ UNCHANGED <<asks, account, origin, table, pc, locals, faults,
                 checked, forked, raced>>

(* A statement fails or the process stops: the rest of the call is not made. *)
CutShort(c) ==
  /\ faults < MaxFaults
  /\ pc[c] \notin {"idle", "ended"}
  /\ faults' = faults + 1
  /\ ended' = ended \cup FamilyOf({t \in {held[c]} : pc[c] = "inserting"})
  /\ Goto(c, "ended")
  /\ UNCHANGED <<asks, account, tokens, locals, checked, forked, raced>>

AccountStep(c) ==
  RegisterRead(c) \/ RegisterWrite(c) \/ ReadAccount(c) \/ Compare(c) \/ WritePassword(c)

TokenStep(c) ==
  \/ Issue(c) \/ CleanUp(c)
  \/ RefreshAccepted(c) \/ RefreshRefused(c)
  \/ Rotate(c) \/ RotateMissing(c) \/ InsertSuccessor(c)
  \/ RevokeRead(c) \/ RevokeWrite(c) \/ RevokeAll(c)

Next ==
  \/ \E c \in Calls : AccountStep(c) \/ TokenStep(c) \/ CutShort(c)
  \/ \E t \in Tokens : Expire(t)

Spec == Init /\ [][Next]_vars

-----------------------------------------------------------------------------
(* Every variable keeps its type, what is said of a token is said of a minted one, *)
(* and a call past a read has what it read.                                        *)
TypeOK ==
  /\ asks \in [Calls -> Asks]
  /\ account \in [Users -> Passwords \cup {NoAccount}]
  /\ minted \subseteq Tokens
  /\ owner \in [Tokens -> Users]
  /\ family \in [Tokens -> Tokens]
  /\ rows \subseteq minted /\ used \subseteq minted
  /\ revoked \subseteq minted /\ expired \subseteq minted
  /\ pc \in [Calls -> Steps]
  /\ held \in [Calls -> Tokens]
  /\ seen \in [Calls -> Passwords \cup {NoAccount}]
  /\ \A c \in Calls : pc[c] \in {"rotating", "inserting", "revoking"} => held[c] \in minted
  /\ \A c \in Calls : pc[c] \in {"comparing", "writing"} => seen[c] \in Passwords
  /\ faults \in 0 .. MaxFaults
  /\ checked \subseteq Calls
  /\ forked \subseteq Tokens /\ ended \subseteq Tokens /\ raced \subseteq Users

(* What keeps the session f alive: a live token, or a rotation between its two *)
(* statements.                                                                 *)
Families == {t \in minted : family[t] = t}
Lives(f) ==
  ({"token"} \X {t \in minted : Live(t) /\ family[t] = f})
    \cup ({"call"} \X {c \in Calls : pc[c] = "inserting" /\ family[held[c]] = f})

(* A session has one life at a time, and keeps it until a token of it is revoked or  *)
(* expires or a call is cut short between the two statements; only a rotation of a   *)
(* token that another call has rotated or revoked since it was checked can split it. *)
OneLifePerSession ==
  \A f \in Families \ forked :
    /\ \A x, y \in Lives(f) : x = y
    /\ f \notin ended => Lives(f) # {}

(* A session that was logged out, or has expired, stays so. *)
EndedStaysEnded ==
  [][\A f \in Families : f \notin forked' /\ Lives(f) = {} => Lives(f)' = {}]_vars

(* The check for theft is never reached: usedAt is written together with revokedAt, *)
(* and the check for revokedAt comes first.                                         *)
TheftBranchDead == \A t \in minted : ~Suspicious(t)

(* A password is set by the registration of a user who has none, and replaced only   *)
(* by a call that proved the one it replaces, unless changes of one user overlapped. *)
PasswordsProven ==
  [][\A u \in Users \ raced' : account'[u] # account[u] =>
       \E c \in Calls :
         /\ User(c) = u
         /\ \/ account[u] = NoAccount /\ asks[c].op = "register"
            \/ account[u] = asks[c].old /\ asks[c].op = "change"]_vars

=============================================================================
