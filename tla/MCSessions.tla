----------------------------- MODULE MCSessions -----------------------------
(***************************************************************************)
(* Five calls at a time.  Sessions: one that issues a token, three that     *)
(* refresh one, and a logout of one kind or the other or a second session.  *)
(* Passwords: a registration against another, a login and two changes.      *)
(***************************************************************************)
EXTENDS Sessions, TLC

CONSTANTS c1, c2, c3, c4, c5, ana, luz, p, q, r

Ask(op, user, old, new) == [op |-> op, user |-> user, old |-> old, new |-> new]
Of(op) == Ask(op, ana, p, p)
MCRequests ==
  LET all(a, b, c, d, e) == (c1 :> a) @@ (c2 :> b) @@ (c3 :> c) @@ (c4 :> d) @@ (c5 :> e)
  IN  {all(Of("issue"), Of("refresh"), Of("refresh"), last, Of("refresh")) :
         last \in {Of("revoke"), Of("revokeAll"), Of("issue")}}
      \cup
      {all(Ask("register", luz, p, p), Ask("register", luz, p, q), Ask("login", u, p, p),
           Ask("change", ana, p, q), Ask("change", u, p, r)) : u \in Users}
MCOpening == (ana :> p) @@ (luz :> NoAccount)

=============================================================================
