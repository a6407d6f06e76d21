-------------------------- MODULE CircuitBreaker --------------------------
(***************************************************************************)
(* The circuit breaker (src/src/lib/circuit-breaker.ts) around the calls   *)
(* createPreference makes (src/src/lib/mercadopago.ts).                    *)
(*                                                                         *)
(* execute runs without interruption up to the first await of fn, and from *)
(* the settlement of fn to its end.  Between the two any number of other   *)
(* calls begin and end, so that a call may end in a state of the breaker   *)
(* that has nothing to do with the one that admitted it.                   *)
(***************************************************************************)
EXTENDS Integers, FiniteSets

CONSTANTS
  Calls,             \* callers of execute
  FailureThreshold,  \* options.failureThreshold
  HalfOpenMaxCalls,  \* options.halfOpenMaxCalls
  MaxAttempts,       \* requests makeRequest makes for one call
  MaxFailures        \* where the model stops counting failures

ASSUME BreakerConstants ==
  /\ IsFiniteSet(Calls)
  /\ FailureThreshold \in Nat \ {0}
  /\ HalfOpenMaxCalls \in Nat \ {0}
  /\ MaxAttempts \in Nat \ {0}
  /\ MaxFailures \in Nat /\ MaxFailures >= FailureThreshold

VARIABLES
  state,          \* CircuitBreaker.state
  failures,       \* CircuitBreaker.failures
  cooled,         \* resetTimeout has passed since lastFailureTime
  halfOpenCalls,  \* CircuitBreaker.halfOpenCalls
  attempt,        \* attempt[c]: the request call c is waiting for, 0 if none
  probes          \* history: calls admitted since the breaker was last half-opened

vars == <<state, failures, cooled, halfOpenCalls, attempt, probes>>

States == {"CLOSED", "OPEN", "HALF_OPEN"}

Init ==
  /\ state = "CLOSED"
  /\ failures = 0
  /\ cooled = TRUE
  /\ halfOpenCalls = 0
  /\ attempt = [c \in Calls |-> 0]
  /\ probes = {}

InFlight == {c \in Calls : attempt[c] > 0}

-----------------------------------------------------------------------------
(* execute, up to the call of fn.  A call that is refused changes nothing.   *)

Begin(c) == attempt[c] = 0 /\ attempt' = [attempt EXCEPT ![c] = 1]

AdmitClosed(c) ==
  /\ state = "CLOSED"
  /\ Begin(c)
  /\ UNCHANGED <<state, failures, cooled, halfOpenCalls, probes>>

AdmitOpenKeeping(c) ==                  \* mutant: the count is not reset
  /\ state = "OPEN" /\ cooled
  /\ Begin(c)
  /\ state' = "HALF_OPEN"
  /\ halfOpenCalls' = halfOpenCalls + 1
  /\ probes' = {c}
  /\ UNCHANGED <<failures, cooled>>

(* The first call after the reset timeout half-opens the breaker. *)
AdmitOpen(c) ==
  /\ state = "OPEN" /\ cooled
  /\ Begin(c)
  /\ state' = "HALF_OPEN"
  /\ halfOpenCalls' = 1
  /\ probes' = {c}
  /\ UNCHANGED <<failures, cooled>>

AdmitHalfOpenOneMore(c) ==              \* mutant: <= for <
  /\ state = "HALF_OPEN" /\ halfOpenCalls <= HalfOpenMaxCalls
  /\ Begin(c)
  /\ halfOpenCalls' = halfOpenCalls + 1
  /\ probes' = probes \cup {c}
  /\ UNCHANGED <<state, failures, cooled>>

AdmitHalfOpen(c) ==
  /\ state = "HALF_OPEN" /\ halfOpenCalls < HalfOpenMaxCalls
  /\ Begin(c)
  /\ halfOpenCalls' = halfOpenCalls + 1
  /\ probes' = probes \cup {c}
  /\ UNCHANGED <<state, failures, cooled>>

(* makeRequest tries again after a 5xx. *)
Retry(c) ==
  /\ attempt[c] \in 1..(MaxAttempts - 1)
  /\ attempt' = [attempt EXCEPT ![c] = @ + 1]
  /\ UNCHANGED <<state, failures, cooled, halfOpenCalls, probes>>

End(c) ==
  /\ attempt[c] > 0
  /\ attempt' = [attempt EXCEPT ![c] = 0]
  /\ probes' = probes \ {c}
  /\ UNCHANGED halfOpenCalls

AfterSuccessAnywhere(s) == "CLOSED"     \* mutant: any success closes the breaker

AfterSuccessNever(s) == s               \* mutant: a probe's success is ignored

AfterSuccess(s) == IF s = "HALF_OPEN" THEN "CLOSED" ELSE s

(* onSuccess *)
Succeed(c) ==
  /\ End(c)
  /\ failures' = 0
  /\ state' = AfterSuccess(state)
  /\ UNCHANGED cooled

TrippedLate(s, n) == s = "HALF_OPEN" \/ n > FailureThreshold  \* mutant: > for >=

Tripped(s, n) == s = "HALF_OPEN" \/ n >= FailureThreshold

Counted == IF failures < MaxFailures THEN failures + 1 ELSE failures

(* onFailure *)
Fail(c) ==
  /\ End(c)
  /\ failures' = Counted
  /\ cooled' = FALSE
  /\ state' = IF Tripped(state, Counted) THEN "OPEN" ELSE state

(* Time passes. *)
Cool ==
  /\ ~cooled
  /\ cooled' = TRUE
  /\ UNCHANGED <<state, failures, halfOpenCalls, attempt, probes>>

-----------------------------------------------------------------------------
Admit(c) == AdmitClosed(c) \/ AdmitOpen(c) \/ AdmitHalfOpen(c)

Settle(c) == Retry(c) \/ Succeed(c) \/ Fail(c)

Next == Cool \/ \E c \in Calls : Admit(c) \/ Settle(c)

Spec == Init /\ [][Next]_vars

(* Requests to Mercado Pago end, one way or the other: the SDK gives up on   *)
(* one that hangs.  Nobody is obliged to call.                               *)
FairSpec == Spec /\ \A c \in Calls : WF_vars(Settle(c))

-----------------------------------------------------------------------------
(* Properties *)

(* Every variable has its type.                                              *)
TypeOK ==
  /\ state \in States
  /\ failures \in 0..MaxFailures
  /\ cooled \in BOOLEAN
  /\ halfOpenCalls \in 0..HalfOpenMaxCalls
  /\ attempt \in [Calls -> 0..MaxAttempts]
  /\ probes \subseteq InFlight

(* docs/CHECKOUT.md:109: a breaker that is closed has seen fewer failures    *)
(* than the threshold since the last success, however late they came in.     *)
ClosedBelowThreshold == state = "CLOSED" => failures < FailureThreshold

(* While the breaker is half-open, halfOpenCalls counts the calls admitted   *)
(* since it became so, all of them are still in flight, and there is one:    *)
(* results of calls admitted earlier do not confuse the count.               *)
ProbesCounted ==
  state = "HALF_OPEN" =>
    /\ halfOpenCalls = Cardinality(probes)
    /\ halfOpenCalls \in 1..HalfOpenMaxCalls

(* An open breaker is not closed by late answers to calls it admitted before *)
(* it opened, and lets no call begin until the reset timeout has passed.     *)
OpenHoldsOff ==
  [][state = "OPEN" =>
       /\ state' \in {"OPEN", "HALF_OPEN"}
       /\ ~cooled => (state' = "OPEN" /\ InFlight' \subseteq InFlight)]_vars

(* A half-open breaker does not refuse for ever: a probe decides.            *)
HalfOpenEnds == state = "HALF_OPEN" ~> state # "HALF_OPEN"

=============================================================================
