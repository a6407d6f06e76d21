----------------------------- MODULE RateLimit -----------------------------
(***************************************************************************)
(* Rate limiting: src/src/lib/rate-limit.ts.                                *)
(*                                                                         *)
(* With Redis, a sliding window over the attempts of a key, refused ones    *)
(* included; without it, a fixed window in this process with a limit of its *)
(* own.  An attempt is one action: what it asks of Redis is one pipeline.   *)
(***************************************************************************)
EXTENDS Totals, Integers, FiniteSets

CONSTANTS
  Identifiers,  \* keys of one kind of limit, such as auth:admin:<email>
  Window,       \* windowMs, in ticks of the model's clock
  MaxRequests,  \* maxRequests
  FallbackLimit,\* FALLBACK_MEMORY_LIMIT
  MaxEntries,   \* MAX_MEMORY_FALLBACK_ENTRIES
  Horizon,      \* bound: the clock stops there
  MaxAttempts,  \* bound: attempts in all
  MaxFailures   \* bound: pipelines that fail

ASSUME RateConstants ==
  /\ Window \in Nat \ {0} /\ MaxRequests \in Nat \ {0} /\ FallbackLimit \in Nat \ {0}
  /\ MaxEntries \in Nat /\ Horizon \in Nat \ {0} /\ MaxAttempts \in Nat /\ MaxFailures \in Nat

Times == 1 .. Horizon
Ways == {"redis", "memory", "unanswered"}

VARIABLES
  clock,      \* Date.now()
  reachable,  \* whether redis.ping() answers PONG
  scored,     \* scored[k][t]: members of rl:<k> with score t
  fallback,   \* fallback[k]: its entry in memoryFallback; resetAt = 0 if there is none
  attempts,   \* bounded by MaxAttempts
  failures,   \* bounded by MaxFailures
  admitted,   \* history: admitted[way][k][t]: attempts let in at t
  forgotten   \* history: keys whose count in memory was lost before its window ended

rateVars == <<clock, reachable, scored, fallback, attempts, failures, admitted, forgotten>>

-----------------------------------------------------------------------------
RateInit ==
  /\ clock = 1
  /\ reachable = TRUE
  /\ scored = [k \in Identifiers |-> [t \in Times |-> 0]]
  /\ fallback = [k \in Identifiers |-> [count |-> 0, resetAt |-> 0]]
  /\ attempts = 0
  /\ failures = 0
  /\ admitted = [way \in Ways |-> [k \in Identifiers |-> [t \in Times |-> 0]]]
  /\ forgotten = {}

Attempt ==
  /\ attempts < MaxAttempts
  /\ attempts' = attempts + 1

Admit(way, k) == admitted' = [admitted EXCEPT ![way][k][clock] = @ + 1]

(* mutant: the window is a tick too short *)
FreshShort(t) == t > clock - Window + 1

(* What ZREMRANGEBYSCORE 0 windowStart leaves. *)
Fresh(t) == t > clock - Window

(* ZCARD of rl:<k>, once that is done. *)
Counted(k) == Total(scored[k], {t \in Times : Fresh(t)})

(* The rest of the pipeline: ZADD, whether the attempt will be let in or not.  *)
(* PEXPIRE removes nothing that the next ZREMRANGEBYSCORE would not.           *)
Scored(k) ==
  [scored EXCEPT ![k] = [t \in Times |-> (IF Fresh(t) THEN @[t] ELSE 0)
                                           + (IF t = clock THEN 1 ELSE 0)]]

AskRedis(k) ==
  /\ Attempt
  /\ reachable
  /\ scored' = Scored(k)
  /\ IF Counted(k) >= MaxRequests THEN admitted' = admitted ELSE Admit("redis", k)
  /\ UNCHANGED <<clock, reachable, fallback, failures, forgotten>>

(* The answer to PING came and that to the pipeline did not: the count is taken for 0. *)
AskInVain(k) ==
  /\ Attempt
  /\ reachable
  /\ failures < MaxFailures
  /\ failures' = failures + 1
  /\ scored' \in {scored, Scored(k)}
  /\ Admit("unanswered", k)
  /\ UNCHANGED <<clock, reachable, fallback, forgotten>>

(* memoryFallbackCleanup: what is over, and of the rest what ends first, down to *)
(* MaxEntries.                                                                   *)
Running(k) == fallback[k].resetAt > clock
Kept(ks) ==
  /\ ks \subseteq {k \in Identifiers : Running(k)}
  /\ Cardinality(ks) = Min({MaxEntries, Cardinality({k \in Identifiers : Running(k)})})
  /\ \A k \in ks, d \in Identifiers \ ks :
       Running(d) => fallback[d].resetAt <= fallback[k].resetAt

OneMore(k) == [count |-> fallback[k].count + 1, resetAt |-> fallback[k].resetAt]

(* An entry that runs counts up to the limit; one that is over, or gone, begins again. *)
AskMemory(k) ==
  /\ Attempt
  /\ ~reachable
  /\ \E ks \in SUBSET Identifiers :
       LET kept == [d \in Identifiers |-> IF d \in ks THEN fallback[d]
                                          ELSE [count |-> 0, resetAt |-> 0]]
           refused == k \in ks /\ fallback[k].count >= FallbackLimit
           entry == IF refused THEN fallback[k]
                    ELSE IF k \in ks THEN OneMore(k)
                    ELSE [count |-> 1, resetAt |-> clock + Window]
       IN  /\ Kept(ks)
           /\ fallback' = [kept EXCEPT ![k] = entry]
           /\ IF refused THEN admitted' = admitted ELSE Admit("memory", k)
           /\ forgotten' = forgotten \cup {d \in Identifiers \ ks : Running(d)}
  /\ UNCHANGED <<clock, reachable, scored, failures>>

-----------------------------------------------------------------------------
(* The same every minute. *)
Sweep ==
  /\ \E ks \in SUBSET Identifiers :
       /\ Kept(ks)
       /\ fallback' = [d \in Identifiers |-> IF d \in ks THEN fallback[d]
                                             ELSE [count |-> 0, resetAt |-> 0]]
       /\ forgotten' = forgotten \cup {d \in Identifiers \ ks : Running(d)}
  /\ UNCHANGED <<clock, reachable, scored, attempts, failures, admitted>>

Tick ==
  /\ clock < Horizon
  /\ clock' = clock + 1
  /\ UNCHANGED <<reachable, scored, fallback, attempts, failures, admitted, forgotten>>

LosePing == reachable /\ reachable' = FALSE
            /\ UNCHANGED <<clock, scored, fallback, attempts, failures, admitted, forgotten>>
RegainPing == ~reachable /\ reachable' = TRUE
              /\ UNCHANGED <<clock, scored, fallback, attempts, failures, admitted, forgotten>>

(* The process restarts: Redis keeps its counts, memory does not. *)
ForgetAll ==
  /\ fallback' = [k \in Identifiers |-> [count |-> 0, resetAt |-> 0]]
  /\ forgotten' = forgotten \cup {k \in Identifiers : Running(k)}
  /\ UNCHANGED <<clock, reachable, scored, attempts, failures, admitted>>

RateNext ==
  \/ \E k \in Identifiers : AskRedis(k) \/ AskInVain(k) \/ AskMemory(k)
  \/ Sweep \/ Tick \/ LosePing \/ RegainPing \/ ForgetAll

RateSpec == RateInit /\ [][RateNext]_rateVars

-----------------------------------------------------------------------------
(* Every variable keeps its type, and the counts in memory their limits. *)
RateTypes ==
  /\ clock \in Times
  /\ reachable \in BOOLEAN
  /\ scored \in [Identifiers -> [Times -> Nat]]
  /\ fallback \in [Identifiers -> [count : 0 .. FallbackLimit, resetAt : Nat]]
  /\ attempts \in 0 .. MaxAttempts
  /\ failures \in 0 .. MaxFailures
  /\ admitted \in [Ways -> [Identifiers -> [Times -> Nat]]]
  /\ forgotten \subseteq Identifiers

AdmittedUntil(way, k, end) ==
  Total(admitted[way][k], {t \in Times : t > end - Window /\ t <= end})

(* However a client spreads its attempts and Redis comes and goes, no window of      *)
(* windowMs, wherever it begins, has more than maxRequests that Redis let in, nor     *)
(* as many as two fixed windows allow that memory did, unless memory was cleared.     *)
RateBounded ==
  \A k \in Identifiers, end \in Times :
    /\ AdmittedUntil("redis", k, end) <= MaxRequests
    /\ k \notin forgotten => AdmittedUntil("memory", k, end) <= 2 * FallbackLimit - 1

=============================================================================
