-------------------------- MODULE QueryCacheProofs --------------------------
(***************************************************************************)
(* What the query cache guarantees for any readers and writers.             *)
(***************************************************************************)
EXTENDS QueryCache, TLAPS

(* The counters only grow, so what was read of them stays in range. *)
LEMMA CommitTypes ==
  ASSUME TypeOK, NEW w \in Writers, CommitOf(w)
  PROVE  /\ version' \in Nat /\ version <= version'
         /\ numbered' \in [Writers -> Nat]
         /\ read \in [Readers -> 0 .. version']
         /\ entry \in [Sides -> [version : 0 .. version', since : SUBSET Writers] \cup {None}]
<1>1. version' = version + 1 /\ version \in Nat
  BY DEF CommitOf, TypeOK
<1>2. 0 .. version \subseteq 0 .. version'
  BY <1>1
<1>3. numbered' \in [Writers -> Nat] /\ read \in [Readers -> 0 .. version']
  BY <1>1, <1>2 DEF CommitOf, TypeOK
<1>4. [version : 0 .. version, since : SUBSET Writers]
        \subseteq [version : 0 .. version', since : SUBSET Writers]
  BY <1>2
<1>5. entry \in [Sides -> [version : 0 .. version', since : SUBSET Writers] \cup {None}]
  BY <1>4 DEF TypeOK
<1> QED BY <1>1, <1>3, <1>5

LEMMA NextType == TypeOK /\ [Next]_vars => TypeOK'
<1> SUFFICES ASSUME TypeOK, [Next]_vars PROVE TypeOK'
  OBVIOUS
<1>1. ASSUME NEW r \in Readers, Miss(r) \/ Query(r) PROVE TypeOK'
  BY <1>1 DEF Miss, Query, TypeOK
<1>2. ASSUME NEW r \in Readers, Store(r) PROVE TypeOK'
  <2>1. entry' \in [Sides -> [version : 0 .. version, since : SUBSET Writers] \cup {None}]
    BY <1>2 DEF Store, Put, TypeOK, Sides
  <2> QED BY <1>2, <2>1 DEF Store, TypeOK
<1>3. ASSUME NEW w \in Writers, Update(w) PROVE TypeOK'
  <2>1. wpc' \in [Writers -> {"idle", "clearing", "clearingMemory", "committing", "ended"}]
    BY <1>3 DEF Update, Goto, TypeOK
  <2>2. CASE UNCHANGED <<version, numbered>>
    BY <1>3, <2>1, <2>2 DEF Update, TypeOK, reading
  <2>3. CASE CommitOf(w)
    BY <1>3, <2>1, <2>3, CommitTypes DEF Update, TypeOK, reading
  <2> QED BY <1>3, <2>2, <2>3 DEF Update
<1>4. ASSUME NEW w \in Writers, ClearRedis(w) PROVE TypeOK'
  BY <1>4 DEF ClearRedis, Goto, TypeOK, Sides, reading
<1>5. ASSUME NEW w \in Writers, ClearMemory(w) PROVE TypeOK'
  BY <1>5 DEF ClearMemory, Goto, TypeOK, Sides, reading
<1>6. ASSUME NEW w \in Writers, Commit(w) PROVE TypeOK'
  BY <1>6, CommitTypes DEF Commit, Goto, TypeOK, reading
<1>7. ASSUME NEW w \in Writers, RollBack(w) PROVE TypeOK'
  BY <1>7 DEF RollBack, Goto, TypeOK, reading
<1>8. ASSUME NEW s \in Sides, Expire(s) PROVE TypeOK'
  BY <1>8 DEF Expire, TypeOK, reading
<1>9. CASE LoseRedis \/ RegainRedis
  BY <1>9 DEF LoseRedis, RegainRedis, TypeOK, Sides, reading
<1>10. CASE Restart
  BY <1>10 DEF Restart, TypeOK, Sides
<1>11. CASE UNCHANGED vars
  BY <1>11 DEF vars, reading, TypeOK
<1> QED BY <1>1, <1>2, <1>3, <1>4, <1>5, <1>6, <1>7, <1>8, <1>9, <1>10, <1>11
        DEF Next, ReaderStep, WriterStep

(* Every variable keeps its type; in particular only what has been committed is *)
(* ever cached.                                                                 *)
THEOREM CacheTypes == Spec => []TypeOK
<1>1. Init => TypeOK
  BY DEF Init, TypeOK, Sides
<1> QED BY <1>1, NextType, PTL DEF Spec

-----------------------------------------------------------------------------
(* How far a writer has come says what it has cleared, and a transaction is seen when *)
(* its writer has ended.                                                              *)
ProgressShown ==
  \A w \in Writers :
    /\ wpc[w] \in {"clearingMemory", "committing"} => w \in cleared["redis"]
    /\ wpc[w] = "committing" => w \in cleared["memory"]
    /\ discipline = "inside" /\ wpc[w] # "ended" => numbered[w] = 0
    /\ wpc[w] = "idle" => numbered[w] = 0
    /\ discipline # "never" /\ wpc[w] = "ended" /\ numbered[w] > 0 =>
         \A s \in Sides : w \in cleared[s]

(* What is there was put there after every invalidation of its side that was made. *)
EntriesAreNewer ==
  \A s \in Sides, w \in Writers :
    entry[s] # None /\ w \in cleared[s] =>
      w \in entry[s].since \/ (s = "redis" /\ w \in missed)

CauseInv == ProgressShown /\ EntriesAreNewer

LEMMA InitCause == Init => CauseInv
BY DEF Init, CauseInv, ProgressShown, EntriesAreNewer, Sides

(* An entry that is put has the invalidations so far on it. *)
LEMMA ReadersKeepCause ==
  ASSUME TypeOK, CauseInv, NEW r \in Readers, ReaderStep(r) \/ Miss(r)
  PROVE  CauseInv'
<1>1. ProgressShown'
  BY DEF ReaderStep, Miss, Query, Store, CauseInv, ProgressShown
<1>2. CASE Miss(r) \/ Query(r)
  BY <1>1, <1>2 DEF Miss, Query, CauseInv, EntriesAreNewer
<1>3. CASE Store(r)
  <2>1. \A s \in Sides : entry'[s] = entry[s] \/ entry'[s].since = cleared[s]
    BY <1>3 DEF Store, Put, TypeOK, Sides
  <2>2. EntriesAreNewer'
    BY <1>3, <2>1 DEF Store, CauseInv, EntriesAreNewer
  <2> QED BY <1>1, <2>2 DEF CauseInv
<1> QED BY <1>2, <1>3 DEF ReaderStep

LEMMA UpdateKeepsCause ==
  ASSUME TypeOK, CauseInv, NEW w \in Writers, Update(w)
  PROVE  CauseInv'
<1>1. EntriesAreNewer'
  BY DEF Update, CauseInv, EntriesAreNewer
<1>2. ProgressShown'
  <2> SUFFICES ASSUME NEW v \in Writers PROVE ProgressShown!(v)'
    BY DEF ProgressShown
  <2>1. CASE v = w
    BY <2>1 DEF Update, Goto, CommitOf, TypeOK, CauseInv, ProgressShown
  <2>2. CASE v # w
    <3>1. wpc'[v] = wpc[v] /\ numbered'[v] = numbered[v]
      BY <2>2 DEF Update, Goto, CommitOf, TypeOK
    <3> QED BY <3>1 DEF Update, CauseInv, ProgressShown
  <2> QED BY <2>1, <2>2
<1> QED BY <1>1, <1>2 DEF CauseInv

(* Whoever invalidates a side removes its entry, or is missed in Redis. *)
LEMMA ClearsKeepCause ==
  ASSUME TypeOK, CauseInv, NEW w \in Writers, ClearRedis(w) \/ ClearMemory(w)
  PROVE  CauseInv'
<1>1. ProgressShown'
  <2> SUFFICES ASSUME NEW v \in Writers PROVE ProgressShown!(v)'
    BY DEF ProgressShown
  <2>1. \A s \in Sides : cleared[s] \subseteq cleared'[s]
    BY DEF ClearRedis, ClearMemory, TypeOK, Sides
  <2>2. CASE v = w /\ ClearRedis(w)
    BY <2>2 DEF ClearRedis, Goto, TypeOK, CauseInv, ProgressShown, Sides
  <2>3. CASE v = w /\ ClearMemory(w)
    BY <2>3 DEF ClearMemory, Goto, TypeOK, CauseInv, ProgressShown, Sides
  <2>4. CASE v # w
    <3>1. wpc'[v] = wpc[v] /\ numbered' = numbered /\ discipline' = discipline
      BY <2>4 DEF ClearRedis, ClearMemory, Goto, TypeOK
    <3> QED BY <3>1, <2>1 DEF CauseInv, ProgressShown, Sides
  <2> QED BY <2>2, <2>3, <2>4
<1>2. EntriesAreNewer'
  BY DEF ClearRedis, ClearMemory, TypeOK, CauseInv, EntriesAreNewer, Sides
<1> QED BY <1>1, <1>2 DEF CauseInv

LEMMA EndsKeepCause ==
  ASSUME TypeOK, CauseInv, NEW w \in Writers, Commit(w) \/ RollBack(w)
  PROVE  CauseInv'
<1>1. EntriesAreNewer'
  BY DEF Commit, RollBack, CauseInv, EntriesAreNewer
<1>2. ProgressShown'
  <2> SUFFICES ASSUME NEW v \in Writers PROVE ProgressShown!(v)'
    BY DEF ProgressShown
  <2>1. CASE v = w
    BY <2>1 DEF Commit, RollBack, Goto, CommitOf, TypeOK, CauseInv, ProgressShown, Sides
  <2>2. CASE v # w
    <3>1. wpc'[v] = wpc[v] /\ numbered'[v] = numbered[v]
      BY <2>2 DEF Commit, RollBack, Goto, CommitOf, TypeOK
    <3> QED BY <3>1 DEF Commit, RollBack, CauseInv, ProgressShown
  <2> QED BY <2>1, <2>2
<1> QED BY <1>1, <1>2 DEF CauseInv

(* A restart ends the writers it cuts off, and counts them as past what they had left. *)
LEMMA RestartKeepsCause ==
  ASSUME TypeOK, CauseInv, Restart
  PROVE  CauseInv'
<1>1. ProgressShown'
  <2> SUFFICES ASSUME NEW v \in Writers PROVE ProgressShown!(v)'
    BY DEF ProgressShown
  <2>1. \A s \in Sides : cleared[s] \subseteq cleared'[s]
    BY DEF Restart, TypeOK, Sides
  <2>2. CASE wpc[v] \in {"clearing", "clearingMemory", "committing"}
    <3>1. wpc'[v] = "ended" /\ numbered' = numbered /\ discipline' = discipline
      BY <2>2 DEF Restart
    <3>2. \A s \in Sides : v \in cleared'[s]
      BY <2>2 DEF Restart, TypeOK, CauseInv, ProgressShown, Sides
    <3> QED BY <3>1, <3>2
  <2>3. CASE wpc[v] \notin {"clearing", "clearingMemory", "committing"}
    <3>1. wpc'[v] = wpc[v] /\ numbered' = numbered /\ discipline' = discipline
      BY <2>3 DEF Restart
    <3> QED BY <2>1, <2>3, <3>1 DEF CauseInv, ProgressShown
  <2> QED BY <2>2, <2>3
<1>2. EntriesAreNewer'
  BY DEF Restart, TypeOK, CauseInv, EntriesAreNewer, Sides
<1> QED BY <1>1, <1>2 DEF CauseInv

LEMMA NextCause == TypeOK /\ CauseInv /\ [Next]_vars => CauseInv'
<1> SUFFICES ASSUME TypeOK, CauseInv, [Next]_vars PROVE CauseInv'
  OBVIOUS
<1>1. ASSUME NEW s \in Sides, Expire(s) PROVE CauseInv'
  BY <1>1 DEF Expire, TypeOK, CauseInv, ProgressShown, EntriesAreNewer
<1>2. CASE LoseRedis \/ RegainRedis \/ UNCHANGED vars
  BY <1>2 DEF LoseRedis, RegainRedis, vars, CauseInv, ProgressShown, EntriesAreNewer
<1> QED BY <1>1, <1>2, ReadersKeepCause, UpdateKeepsCause, ClearsKeepCause, EndsKeepCause,
           RestartKeepsCause DEF Next, WriterStep

(* An entry older than a committed write was put there after the write had           *)
(* invalidated its side, by a query from before the commit, or Redis did not get the *)
(* invalidation, or there is none: query-cache.ts and its callers.                    *)
THEOREM StaleOnlyForCause == Spec => []StaleHasCause
<1>1. TypeOK /\ CauseInv => StaleHasCause
  <2> SUFFICES ASSUME TypeOK, CauseInv, NEW s \in Sides, NEW w \in Writers,
                      entry[s] # None, entry[s].version < numbered[w], discipline # "never"
               PROVE  StaleHasCause!(s, w)
    BY DEF StaleHasCause
  <2>1. entry[s].version \in Nat /\ numbered[w] \in Nat
    BY DEF TypeOK
  <2>2. wpc[w] = "ended" => w \in cleared[s]
    BY <2>1 DEF CauseInv, ProgressShown
  <2> QED BY <2>2 DEF CauseInv, EntriesAreNewer
<1> QED BY <1>1, InitCause, NextCause, CacheTypes, PTL DEF Spec

=============================================================================
