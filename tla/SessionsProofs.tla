--------------------------- MODULE SessionsProofs ---------------------------
(***************************************************************************)
(* What accounts and refresh tokens keep, for any users, calls, tokens and  *)
(* failures.                                                                *)
(***************************************************************************)
EXTENDS Sessions, TLAPS

LEMMA AskTypes ==
  ASSUME TypeOK, NEW c \in Calls
  PROVE  /\ asks[c] \in Asks /\ User(c) \in Users /\ asks[c].new \in Passwords
         /\ held[c] \in Tokens /\ owner[held[c]] \in Users /\ family[held[c]] \in Tokens
BY DEF TypeOK, Asks, User

LEMMA GotoTypes ==
  ASSUME TypeOK, NEW c \in Calls, NEW step \in Steps, Goto(c, step)
  PROVE  pc' \in [Calls -> Steps] /\ pc'[c] = step /\ \A d \in Calls \ {c} : pc'[d] = pc[d]
BY DEF TypeOK, Goto

LEMMA InsertTypes ==
  ASSUME TypeOK, NEW t \in Tokens, NEW u \in Users, NEW f \in Tokens, Insert(t, u, f)
  PROVE  /\ minted' \subseteq Tokens /\ minted \subseteq minted'
         /\ owner' \in [Tokens -> Users] /\ family' \in [Tokens -> Tokens]
         /\ rows' \subseteq minted' /\ used' \subseteq minted'
         /\ revoked' \subseteq minted'
BY DEF TypeOK, Insert

LEMMA RevokeTypes ==
  ASSUME TypeOK, NEW u \in Users, RevokeAllOf(u)
  PROVE  revoked' \subseteq minted /\ ended' \subseteq Tokens
BY DEF TypeOK, RevokeAllOf, FamilyOf

LEMMA AccountTypes ==
  ASSUME TypeOK, NEW c \in Calls, AccountStep(c)
  PROVE  TypeOK'
<1>1. CASE RegisterRead(c)
  <2>1. PICK step \in {"hashing", "ended"} : Goto(c, step)
    BY <1>1 DEF RegisterRead
  <2> QED BY <1>1, <2>1, GotoTypes DEF RegisterRead, Steps, TypeOK, tokens, origin, table, locals,
                                      history
<1>2. CASE RegisterWrite(c)
  BY <1>2, AskTypes, GotoTypes
     DEF RegisterWrite, Steps, TypeOK, tokens, origin, table, locals, history
<1>3. CASE ReadAccount(c)
  <2>1. account[User(c)] \in Passwords \cup {NoAccount}
    BY AskTypes DEF TypeOK
  <2>2. CASE account[User(c)] = NoAccount
    BY <1>3, <2>2, GotoTypes
       DEF ReadAccount, Steps, TypeOK, tokens, origin, table, history
  <2>3. CASE account[User(c)] # NoAccount
    BY <1>3, <2>1, <2>3, GotoTypes
       DEF ReadAccount, Steps, TypeOK, tokens, origin, table, history
  <2> QED BY <2>2, <2>3
<1>4. CASE Compare(c)
  <2>1. PICK step \in {"writing", "ended"} : Goto(c, step)
    BY <1>4 DEF Compare
  <2> QED BY <1>4, <2>1, GotoTypes DEF Compare, Steps, TypeOK, tokens, origin, table, locals,
                                      history
<1>5. CASE WritePassword(c)
  BY <1>5, AskTypes, GotoTypes DEF WritePassword, Steps, TypeOK, tokens, origin, table, locals
<1> QED BY <1>1, <1>2, <1>3, <1>4, <1>5 DEF AccountStep

LEMMA TokenTypes ==
  ASSUME TypeOK, NEW c \in Calls, TokenStep(c)
  PROVE  TypeOK'
<1>1. CASE Issue(c)
  <2>1. PICK t \in Tokens : Insert(t, User(c), t)
    BY <1>1 DEF Issue
  <2> QED BY <1>1, <2>1, AskTypes, InsertTypes, GotoTypes
          DEF Issue, Insert, Steps, TypeOK, locals, history
<1>2. CASE CleanUp(c)
  BY <1>2, GotoTypes DEF CleanUp, Steps, TypeOK, origin, locals, history
<1>3. CASE RefreshAccepted(c)
  <2>1. PICK t \in minted : held' = [held EXCEPT ![c] = t]
                            /\ checked' = checked \cup {d \in {c} : Live(t)}
    BY <1>3 DEF RefreshAccepted
  <2> QED BY <1>3, <2>1, GotoTypes DEF RefreshAccepted, Steps, TypeOK, tokens, origin, table
<1>4. CASE RefreshRefused(c)
  <2>1. revoked' \subseteq minted /\ ended' \subseteq Tokens
    BY <1>4, RevokeTypes DEF RefreshRefused, TypeOK
  <2> QED BY <1>4, <2>1, GotoTypes DEF RefreshRefused, Steps, TypeOK, origin, locals
<1>5. CASE Rotate(c)
  <2>1. held[c] \in minted /\ forked' \subseteq Tokens
    BY <1>5, AskTypes DEF Rotate, Overtaken, FamilyOf, TypeOK
  <2> QED BY <1>5, <2>1, GotoTypes DEF Rotate, Steps, TypeOK, origin, locals
<1>6. CASE RotateMissing(c)
  BY <1>6, GotoTypes DEF RotateMissing, Steps, TypeOK, tokens, origin, table, locals, history
<1>7. CASE InsertSuccessor(c)
  <2>1. PICK t \in Tokens : Insert(t, owner[held[c]], family[held[c]])
    BY <1>7 DEF InsertSuccessor
  <2> QED BY <1>7, <2>1, AskTypes, InsertTypes, GotoTypes
          DEF InsertSuccessor, Insert, Steps, TypeOK, locals, history
<1>8. CASE RevokeRead(c)
  <2>1. PICK t \in minted : /\ held' = [held EXCEPT ![c] = t]
                            /\ Goto(c, IF t \in rows THEN "revoking" ELSE "ended")
    BY <1>8 DEF RevokeRead
  <2>2. PICK step \in {"revoking", "ended"} : Goto(c, step)
    BY <2>1
  <2> QED BY <1>8, <2>1, <2>2, GotoTypes
          DEF RevokeRead, Steps, TypeOK, tokens, origin, table, history
<1>9. CASE RevokeWrite(c)
  <2>1. ended' \subseteq Tokens
    BY <1>9, AskTypes DEF RevokeWrite, FamilyOf, TypeOK
  <2> QED BY <1>9, <2>1, GotoTypes DEF RevokeWrite, Steps, TypeOK, origin, locals
<1>10. CASE RevokeAll(c)
  BY <1>10, AskTypes, RevokeTypes, GotoTypes DEF RevokeAll, Steps, TypeOK, origin, locals
<1> QED BY <1>1, <1>2, <1>3, <1>4, <1>5, <1>6, <1>7, <1>8, <1>9, <1>10 DEF TokenStep

LEMMA InitTypes == Init => TypeOK
<1>1. (CHOOSE u \in Users : TRUE) \in Users /\ (CHOOSE t \in Tokens : TRUE) \in Tokens
  BY SessionConstants, Zenon
<1>2. 0 \in 0 .. MaxFaults
  BY SessionConstants
<1> QED BY <1>1, <1>2, SessionConstants DEF Init, TypeOK, Steps

LEMMA NextType == TypeOK /\ [Next]_vars => TypeOK'
<1> SUFFICES ASSUME TypeOK, [Next]_vars PROVE TypeOK'
  OBVIOUS
<1>1. ASSUME NEW c \in Calls, CutShort(c) PROVE TypeOK'
  <2>1. ended' \subseteq Tokens
    BY <1>1, AskTypes DEF CutShort, FamilyOf, TypeOK
  <2>2. faults' \in 0 .. MaxFaults
    BY <1>1, SessionConstants DEF CutShort, TypeOK
  <2> QED BY <1>1, <2>1, <2>2, GotoTypes
          DEF CutShort, Steps, TypeOK, tokens, origin, table, locals
<1>2. ASSUME NEW t \in Tokens, Expire(t) PROVE TypeOK'
  BY <1>2 DEF Expire, FamilyOf, TypeOK, origin, table, locals
<1>3. CASE UNCHANGED vars
  BY <1>3 DEF vars, tokens, origin, table, locals, history, TypeOK
<1> QED BY <1>1, <1>2, <1>3, AccountTypes, TokenTypes DEF Next

(* Every variable keeps its type. *)
THEOREM SessionTypes == Spec => []TypeOK
BY InitTypes, NextType, PTL DEF Spec

-----------------------------------------------------------------------------
(* usedAt is never without revokedAt. *)
UsedAreRevoked == used \subseteq revoked

LEMMA NextUsed == UsedAreRevoked /\ [Next]_vars => UsedAreRevoked'
<1> SUFFICES ASSUME UsedAreRevoked, [Next]_vars PROVE UsedAreRevoked'
  OBVIOUS
<1>1. ASSUME NEW c \in Calls, AccountStep(c) \/ CutShort(c) PROVE UsedAreRevoked'
  BY <1>1 DEF AccountStep, RegisterRead, RegisterWrite, ReadAccount, Compare, WritePassword,
              CutShort, tokens, table, UsedAreRevoked
<1>2. ASSUME NEW c \in Calls, Issue(c) \/ InsertSuccessor(c) PROVE UsedAreRevoked'
  BY <1>2 DEF Issue, InsertSuccessor, Insert, UsedAreRevoked
<1>3. ASSUME NEW c \in Calls, Rotate(c) PROVE UsedAreRevoked'
  BY <1>3 DEF Rotate, UsedAreRevoked
<1>4. ASSUME NEW c \in Calls, RefreshRefused(c) \/ RevokeWrite(c) \/ RevokeAll(c)
      PROVE  UsedAreRevoked'
  BY <1>4 DEF RefreshRefused, RevokeWrite, RevokeAll, RevokeAllOf, UsedAreRevoked
<1>5. ASSUME NEW c \in Calls, CleanUp(c) \/ RefreshAccepted(c) \/ RotateMissing(c) \/ RevokeRead(c)
      PROVE  UsedAreRevoked'
  BY <1>5 DEF CleanUp, RefreshAccepted, RotateMissing, RevokeRead, tokens, table, UsedAreRevoked
<1>6. CASE UNCHANGED vars \/ \E t \in Tokens : Expire(t)
  BY <1>6 DEF Expire, vars, tokens, table, UsedAreRevoked
<1> QED BY <1>1, <1>2, <1>3, <1>4, <1>5, <1>6 DEF Next, TokenStep

(* The branch of refreshAccessToken that detects theft is reached by no interleaving of *)
(* calls: a token that was used is revoked, and revokedAt is looked at first.            *)
THEOREM TheftIsNeverDetected == Spec => []TheftBranchDead
<1>1. Init => UsedAreRevoked
  BY DEF Init, UsedAreRevoked
<1>2. UsedAreRevoked => TheftBranchDead
  BY DEF UsedAreRevoked, TheftBranchDead, Suspicious, Live
<1> QED BY <1>1, <1>2, NextUsed, PTL DEF Spec

-----------------------------------------------------------------------------
(* Passwords *)

Changing(c) == asks[c].op = "change" /\ pc[c] \in {"comparing", "writing"}

(* What a change has read is still the password, unless it was overtaken; what it is to *)
(* replace it has been given.                                                           *)
ChangesAreCurrent ==
  \A c \in Calls :
    /\ pc[c] = "hashing" => asks[c].op = "register"
    /\ pc[c] \in {"comparing", "writing"} => asks[c].op \in {"login", "change"}
    /\ pc[c] = "writing" => asks[c].op = "change" /\ seen[c] = asks[c].old
    /\ Changing(c) /\ User(c) \notin raced => seen[c] = account[User(c)]

LEMMA TokensLeaveChanges ==
  ASSUME TypeOK, ChangesAreCurrent, NEW c \in Calls, TokenStep(c) \/ CutShort(c)
  PROVE  ChangesAreCurrent' /\ account' = account
<1>1. /\ asks' = asks /\ account' = account /\ seen' = seen /\ raced' = raced
  BY DEF TokenStep, Issue, CleanUp, RefreshAccepted, RefreshRefused, Rotate, RotateMissing,
         InsertSuccessor, RevokeRead, RevokeWrite, RevokeAll, CutShort, locals, history
<1>2. /\ \A d \in Calls \ {c} : pc'[d] = pc[d]
      /\ pc'[c] \notin {"hashing", "comparing", "writing"}
  BY DEF TokenStep, Issue, CleanUp, RefreshAccepted, RefreshRefused, Rotate, RotateMissing,
         InsertSuccessor, RevokeRead, RevokeWrite, RevokeAll, CutShort, Goto, TypeOK
<1> QED BY <1>1, <1>2 DEF ChangesAreCurrent, Changing, User

LEMMA AccountsKeepChanges ==
  ASSUME TypeOK, ChangesAreCurrent, NEW c \in Calls, AccountStep(c)
  PROVE  ChangesAreCurrent'
<1>1. /\ asks' = asks /\ raced \subseteq raced'
      /\ \A d \in Calls \ {c} : pc'[d] = pc[d] /\ seen'[d] = seen[d]
  BY DEF AccountStep, RegisterRead, RegisterWrite, ReadAccount, Compare, WritePassword, Goto,
         TypeOK, locals, history
<1>2. ASSUME NEW d \in Calls \ {c}, Changing(d)', User(d)' \notin raced'
      PROVE  seen'[d] = account'[User(d)']
  <2>1. User(d)' = User(d) /\ User(d) \in Users /\ Changing(d) /\ seen[d] = account[User(d)]
    BY <1>1, <1>2, AskTypes DEF ChangesAreCurrent, Changing, User
  <2>2. seen[d] \in Passwords
    BY <2>1 DEF Changing, TypeOK
  <2>3. CASE RegisterWrite(c)
    BY <1>1, <2>1, <2>2, <2>3, SessionConstants DEF RegisterWrite, TypeOK
  <2>4. CASE WritePassword(c)
    <3>1. User(c) # User(d)
      BY <1>2, <2>1, <2>4 DEF WritePassword, Changing, User
    <3> QED BY <1>1, <2>1, <2>4, <3>1 DEF WritePassword, TypeOK
  <2>5. CASE RegisterRead(c) \/ ReadAccount(c) \/ Compare(c)
    <3>1. account' = account
      BY <2>5 DEF RegisterRead, ReadAccount, Compare
    <3> QED BY <1>1, <2>1, <3>1
  <2> QED BY <2>3, <2>4, <2>5 DEF AccountStep
<1>3. ChangesAreCurrent!(c)'
  BY <1>1, AskTypes
     DEF AccountStep, RegisterRead, RegisterWrite, ReadAccount, Compare, WritePassword, Begins,
         Goto, TypeOK, ChangesAreCurrent, Changing, User, locals, history
<1> QED BY <1>1, <1>2, <1>3 DEF ChangesAreCurrent, Changing, User

LEMMA NextChanges == TypeOK /\ ChangesAreCurrent /\ [Next]_vars => ChangesAreCurrent'
<1> SUFFICES ASSUME TypeOK, ChangesAreCurrent, [Next]_vars PROVE ChangesAreCurrent'
  OBVIOUS
<1>1. CASE UNCHANGED vars \/ \E t \in Tokens : Expire(t)
  BY <1>1 DEF Expire, vars, locals, history, ChangesAreCurrent, Changing, User
<1> QED BY <1>1, TokensLeaveChanges, AccountsKeepChanges DEF Next

(* A password is set by the registration of a user who has none, and replaced only by a *)
(* call that proved the one it replaces, unless changes of one user overlapped:         *)
(* changePassword, customerRegister and createAdmin.                                    *)
THEOREM PasswordsAreProven == Spec => PasswordsProven
<1>1. Init => ChangesAreCurrent
  BY DEF Init, ChangesAreCurrent, Changing
<1>2. TypeOK /\ ChangesAreCurrent /\ [Next]_vars =>
        [\A u \in Users \ raced' : account'[u] # account[u] =>
           \E c \in Calls :
             /\ User(c) = u
             /\ \/ account[u] = NoAccount /\ asks[c].op = "register"
                \/ account[u] = asks[c].old /\ asks[c].op = "change"]_vars
  <2> SUFFICES ASSUME TypeOK, ChangesAreCurrent, Next,
                      NEW u \in Users \ raced', account'[u] # account[u]
               PROVE  \E c \in Calls :
                        /\ User(c) = u
                        /\ \/ account[u] = NoAccount /\ asks[c].op = "register"
                           \/ account[u] = asks[c].old /\ asks[c].op = "change"
    OBVIOUS
  <2>1. PICK c \in Calls : AccountStep(c)
    BY TokensLeaveChanges DEF Next, Expire
  <2>2. CASE RegisterWrite(c)
    <3>1. User(c) = u /\ account[u] = NoAccount
      BY <2>2 DEF RegisterWrite, TypeOK
    <3> QED BY <2>2, <3>1 DEF RegisterWrite, ChangesAreCurrent
  <2>3. CASE WritePassword(c)
    <3>1. User(c) = u /\ u \notin raced
      BY <2>3 DEF WritePassword, TypeOK
    <3> QED BY <2>3, <3>1 DEF WritePassword, ChangesAreCurrent, Changing
  <2> QED BY <2>1, <2>2, <2>3 DEF AccountStep, RegisterRead, ReadAccount, Compare
<1> QED BY <1>1, <1>2, NextChanges, SessionTypes, PTL DEF Spec, PasswordsProven

-----------------------------------------------------------------------------
(* The life of a session *)

Toks(f) == {t \in minted : Live(t) /\ family[t] = f}
Cal(f) == {c \in Calls : pc[c] = "inserting" /\ family[held[c]] = f}

LEMMA LivesAre ==
  ASSUME NEW f
  PROVE  /\ Lives(f) = {} <=> Toks(f) = {} /\ Cal(f) = {}
         /\ (\A x, y \in Lives(f) : x = y) <=>
              /\ \A s, t \in Toks(f) : s = t
              /\ \A c, d \in Cal(f) : c = d
              /\ Toks(f) = {} \/ Cal(f) = {}
<1>1. Lives(f) = {<<"token", t>> : t \in Toks(f)} \cup {<<"call", c>> : c \in Cal(f)}
  BY DEF Lives, Toks, Cal
<1>2. \A s, t : /\ <<"token", s>> = <<"token", t>> <=> s = t
                /\ <<"call", s>> = <<"call", t>> <=> s = t
                /\ <<"token", s>> # <<"call", t>>
  OBVIOUS
<1>3. Lives(f) = {} <=> Toks(f) = {} /\ Cal(f) = {}
  BY <1>1
<1>4. ASSUME \A x, y \in Lives(f) : x = y
      PROVE  /\ \A s, t \in Toks(f) : s = t
             /\ \A c, d \in Cal(f) : c = d
             /\ Toks(f) = {} \/ Cal(f) = {}
  <2>1. \A s, t \in Toks(f) : <<"token", s>> = <<"token", t>>
    BY <1>1, <1>4
  <2>2. \A c, d \in Cal(f) : <<"call", c>> = <<"call", d>>
    BY <1>1, <1>4
  <2>3. \A s \in Toks(f), c \in Cal(f) : <<"token", s>> = <<"call", c>>
    BY <1>1, <1>4
  <2> QED BY <1>2, <2>1, <2>2, <2>3
<1>5. ASSUME \A s, t \in Toks(f) : s = t, \A c, d \in Cal(f) : c = d,
             Toks(f) = {} \/ Cal(f) = {}
      PROVE  \A x, y \in Lives(f) : x = y
  BY <1>1, <1>5
<1> QED BY <1>3, <1>4, <1>5

OneLife(f) ==
  /\ \A s, t \in Toks(f) : s = t
  /\ \A c, d \in Cal(f) : c = d
  /\ Toks(f) = {} \/ Cal(f) = {}
  /\ f \notin ended => Toks(f) # {} \/ Cal(f) # {}

(* A token is of the family of a minted one, and a rotation follows its check. *)
Rooted ==
  /\ \A t \in minted : family[t] \in Families
  /\ \A c \in Calls : pc[c] = "rotating" => c \in checked

LifeInv == Rooted /\ \A f \in Families \ forked : OneLife(f)

(* What a step may do to the life of a session: leave it or end it, hand it from a *)
(* token to a call, or from a call to a token.                                     *)
Spared(f) == Toks(f)' = Toks(f) /\ Cal(f)' = Cal(f)
Loses(f) == f \in ended' /\ Toks(f)' \subseteq Toks(f) /\ Cal(f)' \subseteq Cal(f)
ToCall(f) == \E t \in Toks(f), c \in Calls :
               Toks(f)' = Toks(f) \ {t} /\ Cal(f)' = Cal(f) \cup {c}
ToToken(f) == \E t \in Tokens, c \in Cal(f) :
                Toks(f)' = Toks(f) \cup {t} /\ Cal(f)' = Cal(f) \ {c}
Moves(f) == Spared(f) \/ Loses(f) \/ ToCall(f) \/ ToToken(f)

LEMMA StepsBesideTokens ==
  ASSUME TypeOK, NEW c \in Calls, NEW f,
         AccountStep(c) \/ RefreshAccepted(c) \/ RotateMissing(c) \/ RevokeRead(c) \/ CleanUp(c)
  PROVE  Spared(f)
<1>1. minted' = minted /\ family' = family /\ \A t \in minted : Live(t)' = Live(t)
  BY DEF AccountStep, RegisterRead, RegisterWrite, ReadAccount, Compare, WritePassword,
         RefreshAccepted, RotateMissing, RevokeRead, CleanUp, tokens, origin, table, Live
<1>2. /\ \A d \in Calls \ {c} : pc'[d] = pc[d] /\ held'[d] = held[d]
      /\ pc[c] # "inserting" /\ pc'[c] # "inserting"
  BY DEF AccountStep, RegisterRead, RegisterWrite, ReadAccount, Compare, WritePassword,
         RefreshAccepted, RotateMissing, RevokeRead, CleanUp, Begins, Goto, locals, TypeOK
<1>3. Toks(f)' = Toks(f)
  BY <1>1 DEF Toks
<1>4. Cal(f)' = Cal(f)
  BY <1>1, <1>2 DEF Cal
<1> QED BY <1>3, <1>4 DEF Spared

LEMMA StepsThatEnd ==
  ASSUME TypeOK, NEW c \in Calls, NEW f,
         RefreshRefused(c) \/ RevokeWrite(c) \/ RevokeAll(c)
  PROVE  Spared(f) \/ Loses(f)
<1>1. /\ minted' = minted /\ family' = family
      /\ \A t \in minted : Live(t)' => Live(t)
      /\ \A t \in minted : Live(t) /\ ~Live(t)' => family[t] \in ended'
  <2>1. CASE UNCHANGED <<revoked, ended>> /\ RefreshRefused(c)
    BY <2>1 DEF RefreshRefused, origin, Live
  <2>2. ASSUME NEW u \in Users, RevokeAllOf(u), UNCHANGED <<origin, rows, expired>>
        PROVE  <1>1!1 /\ <1>1!2 /\ <1>1!3
    BY <2>2 DEF RevokeAllOf, FamilyOf, origin, Live
  <2>3. CASE RevokeWrite(c)
    BY <2>3 DEF RevokeWrite, FamilyOf, origin, Live
  <2>4. CASE RevokeAll(c)
    BY <2>2, <2>4, AskTypes DEF RevokeAll
  <2>5. CASE RefreshRefused(c)
    BY <2>1, <2>2, <2>5 DEF RefreshRefused, TypeOK
  <2> QED BY <2>3, <2>4, <2>5
<1>2. /\ \A d \in Calls \ {c} : pc'[d] = pc[d]
      /\ pc[c] # "inserting" /\ pc'[c] # "inserting" /\ held' = held
  BY DEF RefreshRefused, RevokeWrite, RevokeAll, Begins, Goto, locals, TypeOK
<1>3. Cal(f)' = Cal(f)
  BY <1>1, <1>2 DEF Cal
<1>4. Toks(f)' \subseteq Toks(f) /\ (Toks(f)' = Toks(f) \/ f \in ended')
  BY <1>1 DEF Toks
<1> QED BY <1>3, <1>4 DEF Spared, Loses

LEMMA LossesEnd ==
  ASSUME TypeOK, NEW f, (\E c \in Calls : CutShort(c)) \/ (\E t \in Tokens : Expire(t))
  PROVE  Spared(f) \/ Loses(f)
<1>1. ASSUME NEW c \in Calls, CutShort(c) PROVE Spared(f) \/ Loses(f)
  <2>1. /\ Toks(f)' = Toks(f)
        /\ \A d \in Calls \ {c} : pc'[d] = pc[d]
        /\ pc'[c] # "inserting" /\ held' = held /\ family' = family
        /\ pc[c] = "inserting" => family[held[c]] \in ended'
    BY <1>1 DEF CutShort, Goto, FamilyOf, tokens, origin, table, locals, TypeOK, Toks, Live
  <2>2. Cal(f)' \subseteq Cal(f) /\ (Cal(f)' = Cal(f) \/ f \in ended')
    BY <2>1 DEF Cal
  <2> QED BY <2>1, <2>2 DEF Spared, Loses
<1>2. ASSUME NEW t \in Tokens, Expire(t) PROVE Spared(f) \/ Loses(f)
  <2>1. /\ Cal(f)' = Cal(f) /\ minted' = minted /\ family' = family
        /\ \A s \in minted : Live(s)' => Live(s)
        /\ \A s \in minted : Live(s) /\ ~Live(s)' => family[s] \in ended'
    BY <1>2 DEF Expire, FamilyOf, origin, table, locals, Cal, Live
  <2>2. Toks(f)' \subseteq Toks(f) /\ (Toks(f)' = Toks(f) \/ f \in ended')
    BY <2>1 DEF Toks
  <2> QED BY <2>1, <2>2 DEF Spared, Loses
<1> QED BY <1>1, <1>2

(* The first statement of rotateRefreshToken *)
LEMMA RotateHandsOver ==
  ASSUME TypeOK, Rooted, NEW c \in Calls, Rotate(c), NEW f, f \notin forked'
  PROVE  Moves(f)
<1>1. /\ held[c] \in minted /\ c \in checked /\ pc[c] = "rotating"
      /\ UNCHANGED <<minted, family, rows, expired, held>>
      /\ revoked' = revoked \cup {held[c]}
      /\ pc'[c] = "inserting" /\ \A d \in Calls \ {c} : pc'[d] = pc[d]
  BY DEF Rotate, Rooted, Goto, origin, locals, TypeOK
<1>2. Toks(f)' = Toks(f) \ {held[c]}
  BY <1>1 DEF Toks, Live
<1>3. CASE family[held[c]] = f
  <2>1. held[c] \in Toks(f)
    BY <1>1, <1>3 DEF Rotate, Overtaken, FamilyOf, Toks
  <2>2. Cal(f)' = Cal(f) \cup {c}
    BY <1>1, <1>3 DEF Cal
  <2> QED BY <1>2, <2>1, <2>2 DEF Moves, ToCall
<1>4. CASE family[held[c]] # f
  <2>1. Cal(f)' = Cal(f)
    BY <1>1, <1>4 DEF Cal
  <2>2. held[c] \notin Toks(f)
    BY <1>4 DEF Toks
  <2> QED BY <1>2, <2>1, <2>2 DEF Moves, Spared
<1> QED BY <1>3, <1>4

(* What the row of a new token does to the tokens *)
LEMMA InsertAdds ==
  ASSUME TypeOK, NEW t \in Tokens, NEW u, NEW g, Insert(t, u, g), NEW f
  PROVE  /\ Toks(f)' = IF f = g THEN Toks(f) \cup {t} ELSE Toks(f)
         /\ \A s \in minted : family'[s] = family[s]
         /\ family'[t] = g /\ t \notin minted /\ minted' = minted \cup {t}
<1>1. /\ \A s \in minted : family'[s] = family[s]
      /\ family'[t] = g /\ t \notin minted /\ minted' = minted \cup {t}
  BY DEF Insert, TypeOK
<1>2. Live(t)' /\ \A s \in minted : Live(s)' = Live(s)
  BY DEF Insert, Live, TypeOK
<1> QED BY <1>1, <1>2 DEF Toks

(* The second *)
LEMMA InsertHandsOver ==
  ASSUME TypeOK, Rooted, NEW c \in Calls, InsertSuccessor(c), NEW f
  PROVE  Moves(f)
<1>1. PICK t \in Tokens : Insert(t, owner[held[c]], family[held[c]])
  BY DEF InsertSuccessor
<1>2. /\ Toks(f)' = IF f = family[held[c]] THEN Toks(f) \cup {t} ELSE Toks(f)
      /\ \A s \in minted : family'[s] = family[s]
  BY <1>1, InsertAdds
<1>3. /\ pc[c] = "inserting" /\ pc'[c] = "ended" /\ held' = held
      /\ \A d \in Calls \ {c} : pc'[d] = pc[d]
      /\ \A d \in Calls : pc[d] = "inserting" => held[d] \in minted
  BY DEF InsertSuccessor, Goto, locals, TypeOK
<1>4. Cal(f)' = Cal(f) \ {c} /\ (c \in Cal(f) <=> f = family[held[c]])
  BY <1>2, <1>3 DEF Cal
<1> QED BY <1>2, <1>4 DEF Moves, Spared, ToToken

(* A new family has the token it begins with. *)
LEMMA IssueBegins ==
  ASSUME TypeOK, Rooted, NEW c \in Calls, Issue(c)
  PROVE  \E t \in Tokens :
           /\ t \notin minted /\ minted' = minted \cup {t}
           /\ family'[t] = t /\ \A s \in minted : family'[s] = family[s]
           /\ Toks(t)' = {t} /\ Cal(t)' = {}
           /\ \A f \in Tokens \ {t} : Spared(f)
<1>1. PICK t \in Tokens : Insert(t, User(c), t)
  BY DEF Issue
<1>2. \A f \in Tokens : Toks(f)' = IF f = t THEN Toks(f) \cup {t} ELSE Toks(f)
  BY <1>1, InsertAdds
<1>3. /\ t \notin minted /\ minted' = minted \cup {t}
      /\ family'[t] = t /\ \A s \in minted : family'[s] = family[s]
  BY <1>1, InsertAdds
<1>4. \A s \in minted : family[s] # t
  BY <1>3 DEF Rooted, Families
<1>5. Toks(t)' = {t}
  BY <1>2, <1>4 DEF Toks
<1>6. \A d \in Calls : /\ pc'[d] = "inserting" <=> pc[d] = "inserting"
                       /\ pc[d] = "inserting" => held[d] \in minted
                       /\ held'[d] = held[d]
  BY DEF Issue, Begins, Goto, locals, TypeOK
<1>7. \A f : Cal(f)' = Cal(f)
  BY <1>3, <1>6 DEF Cal
<1>8. Cal(t) = {}
  BY <1>4, <1>6 DEF Cal
<1>9. \A f \in Tokens \ {t} : Spared(f)
  BY <1>2, <1>7 DEF Spared
<1> QED BY <1>3, <1>5, <1>7, <1>8, <1>9

LEMMA FamiliesMove ==
  ASSUME TypeOK, Rooted, [Next]_vars, NEW f \in Families, f \notin forked'
  PROVE  Moves(f)
<1>1. CASE UNCHANGED vars
  BY <1>1 DEF vars, tokens, origin, table, locals, Moves, Spared, Toks, Cal, Live
<1>2. ASSUME NEW c \in Calls, Issue(c) PROVE Moves(f)
  <2>1. f \in minted /\ f \in Tokens
    BY DEF Families, TypeOK
  <2> QED BY <1>2, <2>1, IssueBegins DEF Moves
<1>3. ASSUME NEW c \in Calls, TokenStep(c), ~Issue(c) PROVE Moves(f)
  BY <1>3, StepsBesideTokens, StepsThatEnd, RotateHandsOver, InsertHandsOver
     DEF TokenStep, Moves
<1> QED BY <1>1, <1>2, <1>3, StepsBesideTokens, LossesEnd DEF Next, Moves

LEMMA NextRooted ==
  ASSUME TypeOK, Rooted, [Next]_vars
  PROVE  /\ Rooted' /\ Families \subseteq Families'
         /\ forked \subseteq forked' /\ ended \subseteq ended'
         /\ \A f \in Families' \ Families : Toks(f)' = {f} /\ Cal(f)' = {}
<1>1. forked \subseteq forked' /\ ended \subseteq ended' /\ checked \subseteq checked'
  BY DEF Next, AccountStep, RegisterRead, RegisterWrite, ReadAccount, Compare, WritePassword,
         TokenStep, Issue, CleanUp, RefreshAccepted, RefreshRefused, Rotate, RotateMissing,
         InsertSuccessor, RevokeRead, RevokeWrite, RevokeAll, RevokeAllOf, Overtaken, CutShort,
         Expire, vars, history
<1>2. \A c \in Calls : pc'[c] = "rotating" => c \in checked'
  <2>1. ASSUME NEW c \in Calls, RefreshAccepted(c) PROVE <1>2
    BY <2>1 DEF RefreshAccepted, Rooted, Goto, TypeOK
  <2>2. ASSUME NEW c \in Calls, AccountStep(c) \/ (TokenStep(c) /\ ~RefreshAccepted(c)) \/ CutShort(c)
        PROVE  /\ \A d \in Calls \ {c} : pc'[d] = pc[d]
               /\ pc'[c] # "rotating"
    BY <2>2 DEF AccountStep, RegisterRead, RegisterWrite, ReadAccount, Compare, WritePassword,
           TokenStep, Issue, CleanUp, RefreshRefused, Rotate, RotateMissing,
           InsertSuccessor, RevokeRead, RevokeWrite, RevokeAll, CutShort, Goto, TypeOK
  <2>3. CASE UNCHANGED vars \/ \E t \in Tokens : Expire(t)
    BY <1>1, <2>3 DEF Expire, vars, Rooted
  <2> QED BY <1>1, <2>1, <2>2, <2>3 DEF Next, TokenStep, Rooted
<1>3. CASE UNCHANGED <<minted, family>>
  BY <1>1, <1>2, <1>3 DEF Rooted, Families
<1>4. ASSUME NEW t \in Tokens, t \notin minted, minted' = minted \cup {t},
             \A s \in minted : family'[s] = family[s],
             family'[t] = t \/ family'[t] \in Families
      PROVE  /\ Rooted' /\ Families' = Families \cup ({t} \cap {family'[t]})
  BY <1>2, <1>4 DEF Rooted, Families
<1>5. ASSUME NEW c \in Calls, Issue(c) PROVE Rooted' /\ Families \subseteq Families'
        /\ \A f \in Families' \ Families : Toks(f)' = {f} /\ Cal(f)' = {}
  BY <1>4, <1>5, IssueBegins
<1>6. ASSUME NEW c \in Calls, InsertSuccessor(c) PROVE Rooted' /\ Families' = Families
  <2>1. PICK t \in Tokens : Insert(t, owner[held[c]], family[held[c]])
    BY <1>6 DEF InsertSuccessor
  <2>2. family[held[c]] \in Families
    BY <1>6 DEF InsertSuccessor, Rooted, TypeOK
  <2>3. /\ t \notin minted /\ minted' = minted \cup {t} /\ family'[t] = family[held[c]]
        /\ \A s \in minted : family'[s] = family[s]
    BY <2>1, InsertAdds
  <2>4. family[held[c]] # t
    BY <2>2, <2>3 DEF Families
  <2> QED BY <1>4, <2>2, <2>3, <2>4
<1>7. ASSUME NEW c \in Calls, TokenStep(c), ~Issue(c), ~InsertSuccessor(c)
      PROVE  UNCHANGED <<minted, family>>
  BY <1>7 DEF TokenStep, CleanUp, RefreshAccepted, RefreshRefused, Rotate, RotateMissing,
              RevokeRead, RevokeWrite, RevokeAll, tokens, origin
<1>8. ASSUME NEW c \in Calls, AccountStep(c) \/ CutShort(c)
      PROVE  UNCHANGED <<minted, family>>
  BY <1>8 DEF AccountStep, RegisterRead, RegisterWrite, ReadAccount, Compare, WritePassword,
              CutShort, tokens, origin
<1>9. ASSUME UNCHANGED vars \/ \E t \in Tokens : Expire(t)
      PROVE  UNCHANGED <<minted, family>>
  BY <1>9 DEF Expire, vars, tokens, origin
<1>10. CASE UNCHANGED <<minted, family>> \/ \E c \in Calls : Issue(c) \/ InsertSuccessor(c)
  BY <1>1, <1>3, <1>5, <1>6, <1>10 DEF Families
<1> QED BY <1>7, <1>8, <1>9, <1>10 DEF Next

LEMMA NextLife == TypeOK /\ LifeInv /\ [Next]_vars => LifeInv'
<1> SUFFICES ASSUME TypeOK, LifeInv, [Next]_vars PROVE LifeInv'
  OBVIOUS
<1> USE DEF LifeInv
<1>1. ASSUME NEW f \in Families, f \notin forked' PROVE OneLife(f)'
  <2>1. f \notin forked /\ OneLife(f) /\ (f \in ended => f \in ended')
    BY <1>1, NextRooted
  <2>2. Moves(f)
    BY <1>1, FamiliesMove
  <2> QED BY <2>1, <2>2 DEF OneLife, Moves, Spared, Loses, ToCall, ToToken
<1>2. ASSUME NEW f \in Families' \ Families PROVE OneLife(f)'
  BY <1>2, NextRooted DEF OneLife
<1> QED BY <1>1, <1>2, NextRooted

LEMMA InitLife == Init => LifeInv
BY DEF Init, LifeInv, Rooted, Families

(* A session has one life at a time - a live token, or a rotation between its statements - *)
(* until it is ended, unless a rotation was overtaken between the check of                 *)
(* refreshAccessToken and the update of rotateRefreshToken.                                *)
THEOREM SessionsHaveOneLife == Spec => []OneLifePerSession
<1>1. LifeInv => OneLifePerSession
  BY LivesAre DEF LifeInv, OneLife, OneLifePerSession
<1> QED BY <1>1, InitLife, NextLife, SessionTypes, PTL DEF Spec

(* A session that was logged out or has expired is not revived, with the same exception. *)
THEOREM EndedSessionsStayEnded == Spec => EndedStaysEnded
<1>1. TypeOK /\ LifeInv /\ [Next]_vars =>
        [\A f \in Families : f \notin forked' /\ Lives(f) = {} => Lives(f)' = {}]_vars
  <2> SUFFICES ASSUME TypeOK, LifeInv, [Next]_vars,
                      NEW f \in Families, f \notin forked', Lives(f) = {}
               PROVE  Lives(f)' = {}
    OBVIOUS
  <2>1. Moves(f)
    BY FamiliesMove DEF LifeInv
  <2>2. Toks(f) = {} /\ Cal(f) = {}
    BY LivesAre
  <2>3. Toks(f)' = {} /\ Cal(f)' = {}
    BY <2>1, <2>2 DEF Moves, Spared, Loses, ToCall, ToToken
  <2> QED BY <2>3 DEF Lives, Toks, Cal
<1> QED BY <1>1, InitLife, NextLife, SessionTypes, PTL DEF Spec, EndedStaysEnded

=============================================================================
