----------------------------- MODULE QueryCache -----------------------------
(***************************************************************************)
(* Cached query results: src/src/lib/query-cache.ts, and how its callers    *)
(* fill and invalidate it.                                                  *)
(*                                                                         *)
(* A result lives in Redis, or in this process while Redis cannot be used.  *)
(* Callers differ in when they invalidate: the orders service inside the    *)
(* transaction, before it commits; updateCustomerProfile after its UPDATE;  *)
(* the mutations of products, tenants and addresses never.  Keys do not     *)
(* meet: the module is of one key, with any of these disciplines.           *)
(***************************************************************************)
EXTENDS Integers

CONSTANTS
  Readers,  \* requests that read through the cache, again and again
  Writers,  \* mutations of what is cached, each made once
  None      \* no entry

Sides == {"redis", "memory"}

VARIABLES
  discipline, \* when its writers invalidate: "inside", "after" or "never"
  version,    \* how many writes have committed
  numbered,   \* numbered[w]: the version that w committed, 0 before
  side,       \* where isRedisAvailable sends commands
  entry,      \* entry[s]: the entry on side s, or None
  rpc,        \* rpc[r]: progress of reader r
  read,       \* read[r]: the version its query has read
  wpc,        \* wpc[w]: progress of writer w
  cleared,    \* history: cleared[s]: writers past their invalidation of side s
  missed      \* history: writers that could not invalidate in Redis

reading == <<rpc, read>>
vars == <<discipline, version, numbered, side, entry, reading, wpc, cleared, missed>>

-----------------------------------------------------------------------------
Init ==
  /\ discipline \in {"inside", "after", "never"}
  /\ version = 0
  /\ numbered = [w \in Writers |-> 0]
  /\ side = "redis"
  /\ entry = [s \in Sides |-> None]
  /\ rpc = [r \in Readers |-> "idle"]
  /\ read = [r \in Readers |-> 0]
  /\ wpc = [w \in Writers |-> "idle"]
  /\ cleared = [s \in Sides |-> {}]
  /\ missed = {}

(* get misses: nothing in Redis, or its GET failed, and nothing in memory.  A hit *)
(* changes nothing.                                                               *)
Miss(r) ==
  /\ rpc[r] = "idle"
  /\ entry["memory"] = None
  /\ rpc' = [rpc EXCEPT ![r] = "querying"]
  /\ UNCHANGED <<discipline, version, numbered, side, entry, read, wpc, cleared, missed>>

(* mutant: the query sees the UPDATE of a transaction that may still roll back *)
QueryUncommitted(r) ==
  /\ rpc[r] = "querying"
  /\ rpc' = [rpc EXCEPT ![r] = "storing"]
  /\ read' = [read EXCEPT ![r] = IF \E w \in Writers : wpc[w] = "committing"
                                 THEN version + 1 ELSE version]
  /\ UNCHANGED <<discipline, version, numbered, side, entry, wpc, cleared, missed>>

(* mutant: what Redis still holds is stored again instead of a query's result *)
QueryRedis(r) ==
  /\ rpc[r] = "querying"
  /\ rpc' = [rpc EXCEPT ![r] = "storing"]
  /\ read' = [read EXCEPT ![r] = IF entry["redis"] # None THEN entry["redis"].version
                                 ELSE version]
  /\ UNCHANGED <<discipline, version, numbered, side, entry, wpc, cleared, missed>>

(* The query sees what has committed. *)
Query(r) ==
  /\ rpc[r] = "querying"
  /\ rpc' = [rpc EXCEPT ![r] = "storing"]
  /\ read' = [read EXCEPT ![r] = version]
  /\ UNCHANGED <<discipline, version, numbered, side, entry, wpc, cleared, missed>>

Put(s, r) ==
  entry' = [entry EXCEPT ![s] = [version |-> read[r], since |-> cleared[s]]]

(* set: in Redis, or in memory when Redis is not there or SETEX fails; a SETEX that *)
(* fails may have been done.                                                        *)
Store(r) ==
  /\ rpc[r] = "storing"
  /\ \/ side = "redis" /\ Put("redis", r)
     \/ Put("memory", r)
     \/ /\ side = "redis"
        /\ entry' = [s \in Sides |-> [version |-> read[r], since |-> cleared[s]]]
  /\ rpc' = [rpc EXCEPT ![r] = "idle"]
  /\ UNCHANGED <<discipline, version, numbered, side, read, wpc, cleared, missed>>

-----------------------------------------------------------------------------
Goto(w, step) == wpc' = [wpc EXCEPT ![w] = step]

CommitOf(w) ==
  /\ version' = version + 1
  /\ numbered' = [numbered EXCEPT ![w] = version + 1]

(* The UPDATE: inside a transaction nobody sees it yet; without one it is committed. *)
Update(w) ==
  /\ wpc[w] = "idle"
  /\ IF discipline = "inside" THEN UNCHANGED <<version, numbered>> ELSE CommitOf(w)
  /\ Goto(w, IF discipline = "never" THEN "ended" ELSE "clearing")
  /\ UNCHANGED <<discipline, side, entry, reading, cleared, missed>>

(* invalidate, invalidatePattern: DEL, unless Redis is not there; what fails is ignored. *)
ClearRedis(w) ==
  /\ wpc[w] = "clearing"
  /\ \/ /\ side = "redis"
        /\ entry' = [entry EXCEPT !["redis"] = None]
        /\ missed' = missed
     \/ /\ entry' = entry
        /\ missed' = missed \cup {w}
  /\ cleared' = [cleared EXCEPT !["redis"] = @ \cup {w}]
  /\ Goto(w, "clearingMemory")
  /\ UNCHANGED <<discipline, version, numbered, side, reading>>

(* mutant: memory is cleared only when Redis is not there *)
ClearMemoryInstead(w) ==
  /\ wpc[w] = "clearingMemory"
  /\ entry' = IF side = "redis" THEN entry ELSE [entry EXCEPT !["memory"] = None]
  /\ cleared' = [cleared EXCEPT !["memory"] = @ \cup {w}]
  /\ Goto(w, IF discipline = "inside" THEN "committing" ELSE "ended")
  /\ UNCHANGED <<discipline, version, numbered, side, reading, missed>>

(* memoryCache.delete, whatever Redis did *)
ClearMemory(w) ==
  /\ wpc[w] = "clearingMemory"
  /\ entry' = [entry EXCEPT !["memory"] = None]
  /\ cleared' = [cleared EXCEPT !["memory"] = @ \cup {w}]
  /\ Goto(w, IF discipline = "inside" THEN "committing" ELSE "ended")
  /\ UNCHANGED <<discipline, version, numbered, side, reading, missed>>

(* The transaction of createOrderFromCheckout or updateOrderStatus commits last. *)
Commit(w) ==
  /\ wpc[w] = "committing"
  /\ CommitOf(w)
  /\ Goto(w, "ended")
  /\ UNCHANGED <<discipline, side, entry, reading, cleared, missed>>

(* It may roll back instead; the entries are gone for nothing. *)
RollBack(w) ==
  /\ wpc[w] \in {"clearing", "clearingMemory", "committing"}
  /\ discipline = "inside"
  /\ Goto(w, "ended")
  /\ UNCHANGED <<discipline, version, numbered, side, entry, reading, cleared, missed>>

-----------------------------------------------------------------------------
(* An entry outlives its ttlSeconds: Redis drops it, get and cleanupExpired do in memory. *)
Expire(s) ==
  /\ entry[s] # None
  /\ entry' = [entry EXCEPT ![s] = None]
  /\ UNCHANGED <<discipline, version, numbered, side, reading, wpc, cleared, missed>>

LoseRedis ==
  /\ side = "redis"
  /\ side' = "memory"
  /\ UNCHANGED <<discipline, version, numbered, entry, reading, wpc, cleared, missed>>

RegainRedis ==
  /\ side = "memory"
  /\ side' = "redis"
  /\ UNCHANGED <<discipline, version, numbered, entry, reading, wpc, cleared, missed>>

(* The process restarts: memory is empty, and what was under way is not made. *)
Restart ==
  LET lost == {w \in Writers : wpc[w] = "clearing"}
      cut == {w \in Writers : wpc[w] \in {"clearing", "clearingMemory", "committing"}}
  IN  /\ entry' = [entry EXCEPT !["memory"] = None]
      /\ rpc' = [r \in Readers |-> "idle"]
      /\ wpc' = [w \in Writers |-> IF w \in cut THEN "ended" ELSE wpc[w]]
      /\ missed' = missed \cup lost
      /\ cleared' = [s \in Sides |-> cleared[s] \cup IF s = "redis" THEN lost ELSE cut]
      /\ UNCHANGED <<discipline, version, numbered, side, read>>

ReaderStep(r) == Query(r) \/ Store(r)
WriterStep(w) == ClearRedis(w) \/ ClearMemory(w) \/ Commit(w) \/ RollBack(w)

Next ==
  \/ \E r \in Readers : ReaderStep(r) \/ Miss(r)
  \/ \E w \in Writers : Update(w) \/ WriterStep(w)
  \/ \E s \in Sides : Expire(s)
  \/ LoseRedis \/ RegainRedis \/ Restart

(* What has begun ends, and time passes for every entry; Redis may come and go for ever. *)
Spec ==
  /\ Init /\ [][Next]_vars
  /\ \A r \in Readers : WF_vars(ReaderStep(r))
  /\ \A w \in Writers : WF_vars(WriterStep(w))
  /\ \A s \in Sides : WF_vars(Expire(s))

-----------------------------------------------------------------------------
(* Every variable keeps its type, and nothing that has not been committed is cached. *)
TypeOK ==
  /\ discipline \in {"inside", "after", "never"}
  /\ version \in Nat
  /\ numbered \in [Writers -> Nat]
  /\ side \in Sides
  /\ entry \in [Sides -> [version : 0 .. version, since : SUBSET Writers] \cup {None}]
  /\ rpc \in [Readers -> {"idle", "querying", "storing"}]
  /\ read \in [Readers -> 0 .. version]
  /\ wpc \in [Writers -> {"idle", "clearing", "clearingMemory", "committing", "ended"}]
  /\ cleared \in [Sides -> SUBSET Writers]
  /\ missed \subseteq cleared["redis"]

Stale(s) == entry[s] # None /\ entry[s].version < version

(* An entry that is older than a committed write was put there after the write had   *)
(* invalidated it, by a query from before the commit; or the write has not            *)
(* invalidated yet; or it could not, in Redis; or its mutation never does.  What is   *)
(* in memory is never missed, whichever side was in use when.                         *)
StaleHasCause ==
  \A s \in Sides, w \in Writers :
    entry[s] # None /\ entry[s].version < numbered[w] =>
      \/ discipline = "never"
      \/ w \notin cleared[s] /\ wpc[w] # "ended"
      \/ w \in entry[s].since
      \/ s = "redis" /\ w \in missed

(* Once the finitely many writes are made, staleness ends for good: a query from      *)
(* before the last commit may still be stored, a SETEX that failed may have been done, *)
(* and what one side holds comes back when Redis goes or returns, but no stale value   *)
(* is ever put there from another.                                                     *)
StaleEnds == <>[](\A s \in Sides : ~Stale(s))

=============================================================================
