----------------------- MODULE CircuitBreakerProofs -----------------------
(***************************************************************************)
(* What the circuit breaker guarantees for any callers and options.        *)
(***************************************************************************)
EXTENDS CircuitBreaker, FiniteSetTheorems, TLAPS

(* The in-flight calls only change by the call that steps. *)
LEMMA BeginAttempt ==
  ASSUME TypeOK, NEW c \in Calls, Begin(c)
  PROVE  /\ attempt' \in [Calls -> 0..MaxAttempts]
         /\ InFlight' = InFlight \cup {c} /\ c \notin InFlight
BY BreakerConstants DEF TypeOK, Begin, InFlight

LEMMA EndAttempt ==
  ASSUME TypeOK, NEW c \in Calls, End(c)
  PROVE  /\ attempt' \in [Calls -> 0..MaxAttempts]
         /\ InFlight' = InFlight \ {c}
         /\ probes' \subseteq InFlight' /\ halfOpenCalls' = halfOpenCalls
BY BreakerConstants DEF TypeOK, End, InFlight

LEMMA RetryAttempt ==
  ASSUME TypeOK, NEW c \in Calls, Retry(c)
  PROVE  /\ attempt' \in [Calls -> 0..MaxAttempts]
         /\ InFlight' = InFlight
BY BreakerConstants DEF TypeOK, Retry, InFlight

LEMMA NextType == TypeOK /\ [Next]_vars => TypeOK'
<1> SUFFICES ASSUME TypeOK, [Next]_vars PROVE TypeOK'
  OBVIOUS
<1>1. CASE Cool
  BY <1>1 DEF Cool, TypeOK, InFlight
<1>2. ASSUME NEW c \in Calls, AdmitClosed(c) PROVE TypeOK'
  BY <1>2, BeginAttempt DEF AdmitClosed, TypeOK
<1>3. ASSUME NEW c \in Calls, AdmitOpen(c) PROVE TypeOK'
  BY <1>3, BeginAttempt, BreakerConstants DEF AdmitOpen, TypeOK, States
<1>4. ASSUME NEW c \in Calls, AdmitHalfOpen(c) PROVE TypeOK'
  BY <1>4, BeginAttempt, BreakerConstants DEF AdmitHalfOpen, TypeOK
<1>5. ASSUME NEW c \in Calls, Retry(c) PROVE TypeOK'
  BY <1>5, RetryAttempt DEF Retry, TypeOK
<1>6. ASSUME NEW c \in Calls, Succeed(c) PROVE TypeOK'
  <2>1. state' \in States /\ failures' \in 0..MaxFailures
    BY <1>6, BreakerConstants DEF Succeed, AfterSuccess, TypeOK, States
  <2> QED BY <1>6, <2>1, EndAttempt DEF Succeed, TypeOK
<1>7. ASSUME NEW c \in Calls, Fail(c) PROVE TypeOK'
  <2>1. state' \in States /\ failures' \in 0..MaxFailures
    BY <1>7, BreakerConstants DEF Fail, Counted, TypeOK, States
  <2>2. cooled' \in BOOLEAN
    BY <1>7 DEF Fail
  <2> QED BY <1>7, <2>1, <2>2, EndAttempt DEF Fail, TypeOK
<1>8. CASE UNCHANGED vars
  BY <1>8 DEF vars, TypeOK, InFlight
<1> QED BY <1>1, <1>2, <1>3, <1>4, <1>5, <1>6, <1>7, <1>8 DEF Next, Admit, Settle

(* Every variable keeps its type; never more than halfOpenMaxCalls probes    *)
(* are counted, and calls that count as probes are in flight.                *)
THEOREM BreakerTypes == Spec => []TypeOK
<1>1. Init => TypeOK
  BY BreakerConstants DEF Init, TypeOK, States, InFlight
<1> QED BY <1>1, NextType, PTL DEF Spec

-----------------------------------------------------------------------------
(* A breaker that is closed has seen fewer failures than the threshold since *)
(* the last success.                                                         *)
THEOREM ClosedIsHealthy == Spec => []ClosedBelowThreshold
<1>1. Init => ClosedBelowThreshold
  BY BreakerConstants DEF Init, ClosedBelowThreshold
<1>2. TypeOK /\ ClosedBelowThreshold /\ [Next]_vars => ClosedBelowThreshold'
  <2> SUFFICES ASSUME TypeOK, ClosedBelowThreshold, [Next]_vars PROVE ClosedBelowThreshold'
    OBVIOUS
  <2>1. ASSUME NEW c \in Calls, Succeed(c) PROVE ClosedBelowThreshold'
    BY <2>1, BreakerConstants DEF Succeed, ClosedBelowThreshold
  <2>2. ASSUME NEW c \in Calls, Fail(c) PROVE ClosedBelowThreshold'
    BY <2>2, BreakerConstants DEF Fail, Counted, Tripped, TypeOK, ClosedBelowThreshold
  <2>3. ASSUME NEW c \in Calls, Admit(c) \/ Retry(c) PROVE ClosedBelowThreshold'
    BY <2>3 DEF Admit, AdmitClosed, AdmitOpen, AdmitHalfOpen, Retry, ClosedBelowThreshold
  <2>4. CASE Cool \/ UNCHANGED vars
    BY <2>4 DEF Cool, vars, ClosedBelowThreshold
  <2> QED BY <2>1, <2>2, <2>3, <2>4 DEF Next, Settle
<1> QED BY <1>1, <1>2, BreakerTypes, PTL DEF Spec

-----------------------------------------------------------------------------
(* A half-open breaker counts its probes, whatever older calls still answer. *)
THEOREM HalfOpenCountsProbes == Spec => []ProbesCounted
<1>1. Init => ProbesCounted
  BY DEF Init, ProbesCounted
<1>2. TypeOK /\ ProbesCounted /\ [Next]_vars => ProbesCounted'
  <2> SUFFICES ASSUME TypeOK, ProbesCounted, [Next]_vars PROVE ProbesCounted'
    OBVIOUS
  <2>1. ASSUME NEW c \in Calls, AdmitOpen(c) PROVE ProbesCounted'
    <3>1. Cardinality({c}) = 1
      BY FS_Singleton
    <3> QED BY <2>1, <3>1, BreakerConstants DEF AdmitOpen, ProbesCounted
  <2>2. ASSUME NEW c \in Calls, AdmitHalfOpen(c) PROVE ProbesCounted'
    <3>1. IsFiniteSet(probes)
      BY BreakerConstants, FS_Subset DEF TypeOK, InFlight
    <3>2. c \notin probes
      BY <2>2, BeginAttempt DEF AdmitHalfOpen, TypeOK
    <3>3. Cardinality(probes \cup {c}) = Cardinality(probes) + 1
      BY <3>1, <3>2, FS_AddElement
    <3> QED BY <2>2, <3>3, BreakerConstants DEF AdmitHalfOpen, ProbesCounted
  <2>3. ASSUME NEW c \in Calls, Succeed(c) \/ Fail(c) PROVE ProbesCounted'
    BY <2>3 DEF Succeed, Fail, AfterSuccess, Tripped, ProbesCounted, TypeOK, States
  <2>4. ASSUME NEW c \in Calls, AdmitClosed(c) \/ Retry(c) PROVE ProbesCounted'
    BY <2>4 DEF AdmitClosed, Retry, ProbesCounted
  <2>5. CASE Cool \/ UNCHANGED vars
    BY <2>5 DEF Cool, vars, ProbesCounted
  <2> QED BY <2>1, <2>2, <2>3, <2>4, <2>5 DEF Next, Admit, Settle
<1> QED BY <1>1, <1>2, BreakerTypes, PTL DEF Spec

-----------------------------------------------------------------------------
(* Late answers do not close an open breaker, and no call begins before the  *)
(* reset timeout has passed.                                                 *)
THEOREM OpenIsFirm == Spec => OpenHoldsOff
<1> DEFINE Firm ==
      state = "OPEN" =>
        /\ state' \in {"OPEN", "HALF_OPEN"}
        /\ ~cooled => (state' = "OPEN" /\ InFlight' \subseteq InFlight)
<1>1. TypeOK /\ [Next]_vars => [Firm]_vars
  <2> SUFFICES ASSUME TypeOK, [Next]_vars PROVE Firm
    OBVIOUS
  <2>1. ASSUME NEW c \in Calls, Succeed(c) \/ Fail(c) PROVE Firm
    BY <2>1, EndAttempt DEF Succeed, Fail, AfterSuccess
  <2>2. ASSUME NEW c \in Calls, Admit(c) PROVE Firm
    BY <2>2 DEF Admit, AdmitClosed, AdmitOpen, AdmitHalfOpen
  <2>3. ASSUME NEW c \in Calls, Retry(c) PROVE Firm
    BY <2>3, RetryAttempt DEF Retry
  <2>4. ASSUME Cool \/ UNCHANGED vars PROVE Firm
    BY <2>4 DEF Cool, vars, InFlight
  <2> QED BY <2>1, <2>2, <2>3, <2>4 DEF Next, Settle
<1> QED BY <1>1, BreakerTypes, PTL DEF Spec, OpenHoldsOff

=============================================================================
