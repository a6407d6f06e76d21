--------------------------- MODULE ServicesProofs ---------------------------
(***************************************************************************)
(* What the six services that share nothing but the database keep, for any  *)
(* value of their constants: one part after the other, and at the end all   *)
(* of them together.                                                        *)
(***************************************************************************)
EXTENDS MCServices, TotalsProofs

-----------------------------------------------------------------------------
(* RateLimit: what the two windows admit, for any limits, windows and clocks. *)
LEMMA TimesFinite ==
  ASSUME NEW S \in SUBSET Times
  PROVE  IsFiniteSet(S)
<1>1. IsFiniteSet(Times)  BY RateConstants, FS_Interval DEF Times
<1> QED BY <1>1, FS_Subset

LEMMA TimesAreInts == Times \subseteq Nat
BY RateConstants DEF Times

LEMMA AdmitTypes ==
  ASSUME RateTypes, NEW way \in Ways, NEW k \in Identifiers, Admit(way, k)
  PROVE  /\ admitted' \in [Ways -> [Identifiers -> [Times -> Nat]]]
         /\ admitted'[way][k][clock] = admitted[way][k][clock] + 1
         /\ \A w \in Ways, d \in Identifiers, t \in Times :
              w # way \/ d # k \/ t # clock => admitted'[w][d][t] = admitted[w][d][t]
         /\ \A w \in Ways, d \in Identifiers :
              w # way \/ d # k => admitted'[w][d] = admitted[w][d]
BY DEF Admit, RateTypes

LEMMA ScoredTypes ==
  ASSUME RateTypes, NEW k \in Identifiers
  PROVE  /\ Scored(k) \in [Identifiers -> [Times -> Nat]]
         /\ \A t \in Times : Scored(k)[k][t] = (IF Fresh(t) THEN scored[k][t] ELSE 0)
                                                 + (IF t = clock THEN 1 ELSE 0)
         /\ \A d \in Identifiers \ {k} : Scored(k)[d] = scored[d]
<1> DEFINE row == [t \in Times |-> (IF Fresh(t) THEN scored[k][t] ELSE 0)
                                     + (IF t = clock THEN 1 ELSE 0)]
<1>1. row \in [Times -> Nat]  BY DEF RateTypes
<1>2. Scored(k) = [scored EXCEPT ![k] = row]  BY DEF Scored
<1> HIDE DEF row
<1>3. /\ Scored(k) \in [Identifiers -> [Times -> Nat]]
      /\ Scored(k)[k] = row
      /\ \A d \in Identifiers \ {k} : Scored(k)[d] = scored[d]
  BY <1>1, <1>2 DEF RateTypes
<1> QED BY <1>3 DEF row

(* What a sweep leaves of memory *)
Swept(ks) == [d \in Identifiers |-> IF d \in ks THEN fallback[d]
                                    ELSE [count |-> 0, resetAt |-> 0]]

LEMMA SweptTypes ==
  ASSUME RateTypes, NEW ks
  PROVE  Swept(ks) \in [Identifiers -> [count : 0 .. FallbackLimit, resetAt : Nat]]
BY RateConstants DEF RateTypes, Swept

(* AskMemory, by what becomes of each entry *)
LEMMA MemoryCases ==
  ASSUME RateTypes, NEW k \in Identifiers, AskMemory(k)
  PROVE  /\ fallback' \in [Identifiers -> [count : 0 .. FallbackLimit, resetAt : Nat]]
         /\ forgotten \subseteq forgotten' /\ forgotten' \subseteq Identifiers
         /\ UNCHANGED <<clock, reachable, scored, failures>>
         /\ attempts' \in 0 .. MaxAttempts
         /\ \A d \in Identifiers \ {k} :
              \/ fallback'[d] = fallback[d]
              \/ ~Running(d) /\ fallback'[d].resetAt = 0
              \/ d \in forgotten'
         /\ \/ admitted' = admitted /\ fallback'[k] = fallback[k]
            \/ /\ Admit("memory", k)
               /\ \/ /\ Running(k)
                     /\ fallback[k].count < FallbackLimit
                     /\ fallback'[k] = OneMore(k)
                  \/ /\ ~Running(k)
                     /\ fallback'[k] = [count |-> 1, resetAt |-> clock + Window]
                  \/ k \in forgotten'
<1>1. PICK ks \in SUBSET Identifiers :
        LET refused == k \in ks /\ fallback[k].count >= FallbackLimit
            entry == IF refused THEN fallback[k]
                     ELSE IF k \in ks THEN OneMore(k)
                     ELSE [count |-> 1, resetAt |-> clock + Window]
        IN  /\ Kept(ks)
            /\ fallback' = [Swept(ks) EXCEPT ![k] = entry]
            /\ IF refused THEN admitted' = admitted ELSE Admit("memory", k)
            /\ forgotten' = forgotten \cup {d \in Identifiers \ ks : Running(d)}
  BY DEF AskMemory, Swept
<1>2. Swept(ks) \in [Identifiers -> [count : 0 .. FallbackLimit, resetAt : Nat]]
  BY SweptTypes
<1>3. \A d \in ks : Running(d) /\ Swept(ks)[d] = fallback[d]  BY <1>1 DEF Kept, Swept
<1>4. \A d \in Identifiers \ ks : /\ Swept(ks)[d] = [count |-> 0, resetAt |-> 0]
                                  /\ Running(d) => d \in forgotten'
  BY <1>1 DEF Swept
<1>5. clock + Window \in Nat /\ FallbackLimit \in Nat \ {0}
  BY RateConstants, TimesAreInts DEF RateTypes
<1>6. /\ UNCHANGED <<clock, reachable, scored, failures>>
      /\ attempts' \in 0 .. MaxAttempts
  BY RateConstants DEF AskMemory, Attempt, RateTypes
<1>7. forgotten \subseteq forgotten' /\ forgotten' \subseteq Identifiers
  BY <1>1 DEF RateTypes
<1>8. \A d \in Identifiers \ {k} : fallback'[d] = Swept(ks)[d]
  BY <1>1, <1>2
<1>9. \A d \in Identifiers \ {k} :
        \/ fallback'[d] = fallback[d]
        \/ ~Running(d) /\ fallback'[d].resetAt = 0
        \/ d \in forgotten'
  BY <1>3, <1>4, <1>8
<1>10. CASE k \in ks /\ fallback[k].count >= FallbackLimit
  <2>1. fallback' = [Swept(ks) EXCEPT ![k] = fallback[k]] /\ admitted' = admitted
    BY <1>1, <1>10
  <2>2. fallback' = Swept(ks) /\ fallback'[k] = fallback[k]  BY <1>2, <1>3, <1>10, <2>1
  <2> QED BY <1>2, <1>3, <1>6, <1>7, <1>9, <1>10, <2>1, <2>2
<1>11. CASE k \in ks /\ ~(fallback[k].count >= FallbackLimit)
  <2>1. /\ fallback' = [Swept(ks) EXCEPT ![k] = OneMore(k)]
        /\ Admit("memory", k)
    BY <1>1, <1>2, <1>3, <1>11
  <2>2. /\ fallback[k] \in [count : 0 .. FallbackLimit, resetAt : Nat]
        /\ fallback[k].count < FallbackLimit
    BY <1>5, <1>11 DEF RateTypes
  <2>3. OneMore(k) \in [count : 0 .. FallbackLimit, resetAt : Nat]
    BY <1>5, <2>2 DEF OneMore
  <2>4. fallback'[k] = OneMore(k)  BY <1>2, <2>1
  <2>5. fallback' \in [Identifiers -> [count : 0 .. FallbackLimit, resetAt : Nat]]
    BY <1>2, <2>1, <2>3
  <2> QED BY <1>3, <1>6, <1>7, <1>9, <1>11, <2>1, <2>2, <2>4, <2>5
<1>12. CASE k \notin ks
  <2>1. /\ fallback' = [Swept(ks) EXCEPT ![k] = [count |-> 1, resetAt |-> clock + Window]]
        /\ Admit("memory", k)
    BY <1>1, <1>2, <1>12
  <2>2. fallback'[k] = [count |-> 1, resetAt |-> clock + Window]  BY <1>2, <2>1
  <2>3. [count |-> 1, resetAt |-> clock + Window] \in [count : 0 .. FallbackLimit, resetAt : Nat]
    BY <1>5
  <2>4. fallback' \in [Identifiers -> [count : 0 .. FallbackLimit, resetAt : Nat]]
    BY <1>2, <2>1, <2>3
  <2> QED BY <1>4, <1>6, <1>7, <1>9, <1>12, <2>1, <2>2, <2>4
<1> QED BY <1>10, <1>11, <1>12

(* Sweep and ForgetAll *)
LEMMA SweepCases ==
  ASSUME RateTypes, Sweep \/ ForgetAll
  PROVE  /\ fallback' \in [Identifiers -> [count : 0 .. FallbackLimit, resetAt : Nat]]
         /\ forgotten \subseteq forgotten' /\ forgotten' \subseteq Identifiers
         /\ UNCHANGED <<clock, reachable, scored, attempts, failures, admitted>>
         /\ \A d \in Identifiers :
              \/ fallback'[d] = fallback[d]
              \/ ~Running(d) /\ fallback'[d].resetAt = 0
              \/ d \in forgotten'
<1>1. PICK ks : /\ fallback' = Swept(ks)
                /\ forgotten' = forgotten \cup {d \in Identifiers \ ks : Running(d)}
  <2>1. CASE Sweep  BY <2>1 DEF Sweep, Swept
  <2>2. CASE ForgetAll
    <3>1. fallback' = Swept({})  BY <2>2 DEF ForgetAll, Swept
    <3>2. forgotten' = forgotten \cup {d \in Identifiers \ {} : Running(d)}
      BY <2>2 DEF ForgetAll
    <3> QED BY <3>1, <3>2
  <2> QED BY <2>1, <2>2
<1>2. Swept(ks) \in [Identifiers -> [count : 0 .. FallbackLimit, resetAt : Nat]]
  BY SweptTypes
<1>3. \A d \in Identifiers : Swept(ks)[d] = IF d \in ks THEN fallback[d]
                                            ELSE [count |-> 0, resetAt |-> 0]
  BY DEF Swept
<1>4. UNCHANGED <<clock, reachable, scored, attempts, failures, admitted>>
  BY DEF Sweep, ForgetAll
<1> QED BY <1>1, <1>2, <1>3, <1>4 DEF RateTypes

-----------------------------------------------------------------------------
(* Types *)

LEMMA InitRate == RateInit => RateTypes
BY RateConstants DEF RateInit, RateTypes, Times, Ways

LEMMA NextRateTypes == RateTypes /\ [RateNext]_rateVars => RateTypes'
<1> SUFFICES ASSUME RateTypes, [RateNext]_rateVars PROVE RateTypes'  OBVIOUS
<1>1. ASSUME NEW k \in Identifiers, AskRedis(k) PROVE RateTypes'
  <2>1. attempts' \in 0 .. MaxAttempts  BY <1>1, RateConstants DEF AskRedis, Attempt, RateTypes
  <2>2. scored' \in [Identifiers -> [Times -> Nat]]  BY <1>1, ScoredTypes DEF AskRedis
  <2>3. admitted' \in [Ways -> [Identifiers -> [Times -> Nat]]]
    BY <1>1, AdmitTypes DEF AskRedis, Ways, RateTypes
  <2> QED BY <1>1, <2>1, <2>2, <2>3 DEF AskRedis, RateTypes
<1>2. ASSUME NEW k \in Identifiers, AskInVain(k) PROVE RateTypes'
  <2>1. attempts' \in 0 .. MaxAttempts /\ failures' \in 0 .. MaxFailures
    BY <1>2, RateConstants DEF AskInVain, Attempt, RateTypes
  <2>2. scored' \in [Identifiers -> [Times -> Nat]]
    BY <1>2, ScoredTypes DEF AskInVain, RateTypes
  <2>3. admitted' \in [Ways -> [Identifiers -> [Times -> Nat]]]
    BY <1>2, AdmitTypes DEF AskInVain, Ways
  <2> QED BY <1>2, <2>1, <2>2, <2>3 DEF AskInVain, RateTypes
<1>3. ASSUME NEW k \in Identifiers, AskMemory(k) PROVE RateTypes'
  <2>1. admitted' \in [Ways -> [Identifiers -> [Times -> Nat]]]
    BY <1>3, MemoryCases, AdmitTypes DEF Ways, RateTypes
  <2> QED BY <1>3, <2>1, MemoryCases DEF RateTypes
<1>4. CASE Sweep \/ ForgetAll
  BY <1>4, SweepCases DEF RateTypes
<1>5. CASE Tick
  BY <1>5, RateConstants DEF Tick, RateTypes, Times
<1>6. CASE LosePing \/ RegainPing
  BY <1>6 DEF LosePing, RegainPing, RateTypes
<1>7. CASE UNCHANGED rateVars
  BY <1>7 DEF rateVars, RateTypes
<1> QED BY <1>1, <1>2, <1>3, <1>4, <1>5, <1>6, <1>7 DEF RateNext

(* Every variable keeps its type, and the counts in memory their limits. *)
THEOREM RatesTyped == RateSpec => []RateTypes
BY InitRate, NextRateTypes, PTL DEF RateSpec

-----------------------------------------------------------------------------
(* What Redis has let in lately it has scored, and every window is within bounds. *)
Until(end) == {t \in Times : t > end - Window /\ t <= end}
RedisInv ==
  \A k \in Identifiers :
    /\ \A t \in Times : t > clock => admitted["redis"][k][t] = 0
    /\ \A t \in Times : Fresh(t) => admitted["redis"][k][t] <= scored[k][t]
    /\ \A end \in Times : Total(admitted["redis"][k], Until(end)) <= MaxRequests

(* Every step but an admission leaves them. *)
LEMMA RedisInvKept ==
  ASSUME RateTypes, RateTypes', RedisInv, NEW k \in Identifiers,
         admitted'["redis"][k] = admitted["redis"][k], clock' \in Times, clock <= clock',
         \A t \in Times : Fresh(t)' => scored'[k][t] >= scored[k][t]
  PROVE  /\ \A t \in Times : t > clock' => admitted'["redis"][k][t] = 0
         /\ \A t \in Times : Fresh(t)' => admitted'["redis"][k][t] <= scored'[k][t]
         /\ \A end \in Times : Total(admitted'["redis"][k], Until(end)) <= MaxRequests
<1>1. \A t \in Times : t \in Nat /\ clock \in Nat /\ clock' \in Nat
  BY TimesAreInts DEF RateTypes
<1>2. \A t \in Times : t > clock' => t > clock  BY <1>1
<1>3. \A t \in Times : Fresh(t)' => Fresh(t)  BY <1>1, RateConstants DEF Fresh
<1>4. \A t \in Times : /\ scored'[k][t] \in Nat /\ scored[k][t] \in Nat
                       /\ admitted["redis"][k][t] \in Nat
  BY DEF RateTypes, Ways
<1>5. ASSUME NEW t \in Times, Fresh(t)' PROVE admitted'["redis"][k][t] <= scored'[k][t]
  <2>1. admitted["redis"][k][t] <= scored[k][t]  BY <1>3, <1>5 DEF RedisInv
  <2>2. scored[k][t] <= scored'[k][t]  BY <1>4, <1>5
  <2> QED BY <1>4, <2>1, <2>2
<1> QED BY <1>2, <1>5 DEF RedisInv

(* An attempt that Redis lets in is one more in the windows around it, and they had  *)
(* no more in them than what is still scored.                                        *)
LEMMA RedisInvAdmits ==
  ASSUME RateTypes, RedisInv, NEW k \in Identifiers, scored' = Scored(k), clock' = clock,
         Admit("redis", k), ~(Counted(k) >= MaxRequests)
  PROVE  /\ \A t \in Times : t > clock' => admitted'["redis"][k][t] = 0
         /\ \A t \in Times : Fresh(t)' => admitted'["redis"][k][t] <= scored'[k][t]
         /\ \A end \in Times : Total(admitted'["redis"][k], Until(end)) <= MaxRequests
<1> DEFINE A == admitted["redis"][k]
           B == admitted'["redis"][k]
<1>1. /\ \A t \in Times : t \in Nat
      /\ clock \in Times
      /\ Window \in Nat \ {0} /\ MaxRequests \in Nat
  BY TimesAreInts, RateConstants DEF RateTypes
<1>2. /\ \A t \in Times : A[t] \in Nat /\ B[t] \in Nat /\ scored[k][t] \in Nat
      /\ B[clock] = A[clock] + 1
      /\ \A t \in Times \ {clock} : B[t] = A[t]
  BY AdmitTypes DEF Ways, RateTypes
<1>3. ASSUME NEW t \in Times, t > clock' PROVE B[t] = 0
  <2>1. A[t] = 0  BY <1>3 DEF RedisInv
  <2>2. t # clock  BY <1>1, <1>3
  <2> HIDE DEF A, B
  <2> QED BY <1>2, <2>1, <2>2
<1>4. ASSUME NEW t \in Times, Fresh(t)' PROVE B[t] <= scored'[k][t]
  <2>1. Fresh(t)  BY <1>4 DEF Fresh
  <2>2. A[t] <= scored[k][t]  BY <2>1 DEF RedisInv
  <2>3. scored'[k][t] = scored[k][t] + (IF t = clock THEN 1 ELSE 0)  BY <2>1, ScoredTypes
  <2> HIDE DEF A, B
  <2> QED BY <1>2, <2>2, <2>3
<1>5. ASSUME NEW end \in Times PROVE Total(B, Until(end)) <= MaxRequests
  <2>1. Until(end) \in SUBSET Times /\ IsFiniteSet(Until(end))  BY TimesFinite DEF Until
  <2>2. Total(A, Until(end)) <= MaxRequests  BY DEF RedisInv
  <2>3. CASE clock \notin Until(end)
    <3>1. \A t \in Until(end) : A[t] \in Int /\ B[t] = A[t]  BY <1>2, <2>1, <2>3
    <3> HIDE DEF A, B
    <3>2. Total(B, Until(end)) = Total(A, Until(end))  BY <2>1, <3>1, TotalSame
    <3> QED BY <2>2, <3>2
  <2>4. CASE clock \in Until(end)
    <3> DEFINE F == {t \in Times : Fresh(t)}
    <3>1. Until(end) \in SUBSET F  BY <1>1, <2>4 DEF Until, Fresh
    <3>2. IsFiniteSet(F)  BY TimesFinite
    <3>3. \A t \in Until(end) : A[t] <= scored[k][t]  BY <3>1 DEF RedisInv
    <3>4. Counted(k) = Total(scored[k], F)  BY DEF Counted
    <3>5. \A t \in F : scored[k][t] \in Int /\ 0 <= scored[k][t] /\ A[t] \in Int /\ B[t] \in Int
      BY <1>2
    <3> HIDE DEF A, B, F
    <3>6. Total(A, Until(end)) <= Counted(k)
      BY <3>1, <3>2, <3>3, <3>4, <3>5, TotalGrows
    <3>7. Total(B, Until(end)) = Total(A, Until(end)) + (B[clock] - A[clock])
      BY <1>2, <2>1, <2>4, <3>1, <3>5, TotalChange
    <3>8. Counted(k) \in Int /\ Total(A, Until(end)) \in Int
      BY <2>1, <3>1, <3>2, <3>4, <3>5, TotalIsInt
    <3> QED BY <1>1, <1>2, <3>6, <3>7, <3>8
  <2> QED BY <2>3, <2>4
<1> QED BY <1>3, <1>4, <1>5

LEMMA NextRedis == RateTypes /\ RateTypes' /\ RedisInv /\ [RateNext]_rateVars => RedisInv'
<1> SUFFICES ASSUME RateTypes, RateTypes', RedisInv, [RateNext]_rateVars,
                    NEW k \in Identifiers
             PROVE  /\ \A t \in Times : t > clock' => admitted'["redis"][k][t] = 0
                    /\ \A t \in Times : Fresh(t)' => admitted'["redis"][k][t] <= scored'[k][t]
                    /\ \A end \in Times : Total(admitted'["redis"][k], Until(end)) <= MaxRequests
  BY DEF RedisInv, Until
<1>1. clock' \in Times /\ clock \in Nat /\ clock \in Times
  BY TimesAreInts DEF RateTypes
<1>2. \A t \in Times : scored[k][t] \in Nat  BY DEF RateTypes
<1>3. ASSUME NEW d \in Identifiers, clock' = clock, scored' = Scored(d) \/ scored' = scored
      PROVE  \A t \in Times : Fresh(t)' => scored'[k][t] >= scored[k][t]
  <2>1. \A t \in Times : Fresh(t)' => Fresh(t)  BY <1>3 DEF Fresh
  <2>2. CASE scored' = scored  BY <1>2, <2>2
  <2>3. CASE scored' = Scored(d) /\ d # k
    <3>1. scored'[k] = scored[k]  BY <2>3, ScoredTypes
    <3> QED BY <1>2, <3>1
  <2>4. CASE scored' = Scored(d) /\ d = k
    <3>1. \A t \in Times : Fresh(t) =>
            scored'[k][t] = scored[k][t] + (IF t = clock THEN 1 ELSE 0)
      BY <2>4, ScoredTypes
    <3> QED BY <1>2, <2>1, <3>1
  <2> QED BY <1>3, <2>2, <2>3, <2>4
<1>4. ASSUME NEW d \in Identifiers, AskRedis(d), d # k \/ admitted' = admitted
      PROVE  /\ admitted'["redis"][k] = admitted["redis"][k] /\ clock' = clock
             /\ \A t \in Times : Fresh(t)' => scored'[k][t] >= scored[k][t]
  <2>1. admitted'["redis"][k] = admitted["redis"][k]
    BY <1>4, AdmitTypes DEF AskRedis, Ways
  <2> QED BY <1>3, <1>4, <2>1 DEF AskRedis
<1>5. CASE AskRedis(k) /\ admitted' # admitted
  BY <1>5, RedisInvAdmits DEF AskRedis
<1>6. ASSUME NEW d \in Identifiers, AskInVain(d)
      PROVE  /\ admitted'["redis"][k] = admitted["redis"][k] /\ clock' = clock
             /\ \A t \in Times : Fresh(t)' => scored'[k][t] >= scored[k][t]
  <2>1. admitted'["redis"][k] = admitted["redis"][k]
    BY <1>6, AdmitTypes DEF AskInVain, Ways
  <2> QED BY <1>3, <1>6, <2>1 DEF AskInVain
<1>7. ASSUME NEW d \in Identifiers, AskMemory(d)
      PROVE  /\ admitted'["redis"][k] = admitted["redis"][k] /\ clock' = clock
             /\ scored' = scored
  BY <1>7, MemoryCases, AdmitTypes DEF Ways
<1>8. CASE Sweep \/ ForgetAll \/ LosePing \/ RegainPing \/ UNCHANGED rateVars
  <2>1. admitted' = admitted /\ clock' = clock /\ scored' = scored
    BY <1>8 DEF Sweep, ForgetAll, LosePing, RegainPing, rateVars
  <2> QED BY <1>1, <1>2, <2>1, RedisInvKept
<1>9. CASE Tick
  <2>1. admitted' = admitted /\ clock <= clock' /\ scored' = scored
    BY <1>1, <1>9 DEF Tick
  <2> QED BY <1>1, <1>2, <2>1, RedisInvKept
<1>10. ASSUME NEW d \in Identifiers, AskRedis(d) \/ AskInVain(d) \/ AskMemory(d),
              admitted'["redis"][k] = admitted["redis"][k], clock' = clock,
              \A t \in Times : Fresh(t)' => scored'[k][t] >= scored[k][t]
       PROVE  /\ \A t \in Times : t > clock' => admitted'["redis"][k][t] = 0
              /\ \A t \in Times : Fresh(t)' => admitted'["redis"][k][t] <= scored'[k][t]
              /\ \A end \in Times : Total(admitted'["redis"][k], Until(end)) <= MaxRequests
  <2>1. clock <= clock'  BY <1>1, <1>10
  <2> QED BY <1>1, <1>10, <2>1, RedisInvKept
<1> QED BY <1>2, <1>4, <1>5, <1>6, <1>7, <1>8, <1>9, <1>10 DEF RateNext

-----------------------------------------------------------------------------
(* What a key's entry in memory tells of the attempts A it was let in for.  While it *)
(* runs, it began with one of them, has counted those since, and there were fewer     *)
(* than the limit in the window before; when it is over, there were fewer lately.     *)
From(p) == {t \in Times : t >= p}
Before(p) == {t \in Times : t > p - Window /\ t < p}
Since(now) == {t \in Times : t > now - Window}
Runs(entry, now) == entry.resetAt > now
Begun(entry) == entry.resetAt - Window
Remembers(A, entry, now) ==
  /\ \A t \in Times : t > now => A[t] = 0
  /\ Runs(entry, now) =>
       /\ Begun(entry) \in Times /\ Begun(entry) <= now
       /\ A[Begun(entry)] > 0
       /\ Total(A, From(Begun(entry))) <= entry.count
       /\ Total(A, Before(Begun(entry))) <= FallbackLimit - 1
  /\ ~Runs(entry, now) =>
       /\ \A t \in Times : t >= now => A[t] = 0
       /\ Total(A, Since(now)) <= FallbackLimit - 1
  /\ \A end \in Times : Total(A, Until(end)) <= 2 * FallbackLimit - 1

Entries == [count : 0 .. FallbackLimit, resetAt : Nat]

(* Sums over times, and over fewer of them *)
LEMMA TimesTotal ==
  ASSUME NEW A \in [Times -> Nat], NEW T \in SUBSET Times
  PROVE  /\ IsFiniteSet(T)
         /\ Total(A, T) \in Int
         /\ \A S \in SUBSET T : Total(A, S) \in Int /\ Total(A, S) <= Total(A, T)
<1>1. \A S \in SUBSET Times : IsFiniteSet(S) /\ \A x \in S : A[x] \in Int /\ 0 <= A[x]
  BY TimesFinite
<1>2. \A S \in SUBSET Times : Total(A, S) \in Int  BY <1>1, TotalIsInt
<1>3. ASSUME NEW S \in SUBSET T PROVE Total(A, S) <= Total(A, T)
  BY <1>1, TotalGrows
<1> QED BY <1>1, <1>2, <1>3

LEMMA RememberTick ==
  ASSUME NEW A \in [Times -> Nat], NEW e \in Entries, NEW now \in Times, now + 1 \in Times,
         Remembers(A, e, now)
  PROVE  Remembers(A, e, now + 1)
<1>1. /\ \A t \in Times : t \in Nat
      /\ Window \in Nat \ {0} /\ FallbackLimit \in Nat \ {0}
      /\ e.resetAt \in Nat /\ e.count \in 0 .. FallbackLimit
  BY TimesAreInts, RateConstants DEF Entries
<1>2. \A t \in Times : t > now + 1 => A[t] = 0  BY <1>1 DEF Remembers
<1>3. CASE Runs(e, now + 1)
  <2>1. Runs(e, now)  BY <1>1, <1>3 DEF Runs
  <2>2. Begun(e) \in Times /\ Begun(e) <= now + 1  BY <1>1, <2>1 DEF Remembers
  <2> QED BY <1>2, <1>3, <2>1, <2>2 DEF Remembers
<1>4. CASE ~Runs(e, now + 1)
  <2>1. \A t \in Times : t >= now + 1 => A[t] = 0  BY <1>1 DEF Remembers
  <2>2. CASE ~Runs(e, now)
    <3>1. Since(now + 1) \in SUBSET Since(now)  BY <1>1 DEF Since
    <3>2. Total(A, Since(now + 1)) <= Total(A, Since(now)) /\ Total(A, Since(now)) \in Int
          /\ Total(A, Since(now + 1)) \in Int
      BY <3>1, TimesTotal DEF Since
    <3>3. Total(A, Since(now)) <= FallbackLimit - 1  BY <2>2 DEF Remembers
    <3>4. Total(A, Since(now + 1)) <= FallbackLimit - 1  BY <1>1, <3>2, <3>3
    <3> QED BY <1>2, <1>4, <2>1, <3>4 DEF Remembers
  <2>3. CASE Runs(e, now)
    <3> DEFINE p == Begun(e)
    <3>1. e.resetAt = now + 1  BY <1>1, <1>4, <2>3 DEF Runs
    <3>2. p \in Times /\ A[p] > 0 /\ Total(A, From(p)) <= e.count
      BY <2>3 DEF Remembers
    <3>3. p \in From(p) /\ From(p) \in SUBSET Times  BY <1>1, <3>2 DEF From
    <3>4. Since(now + 1) \in SUBSET (From(p) \ {p})
      BY <1>1, <3>1 DEF Since, From, Begun
    <3> HIDE DEF p
    <3>5. Total(A, From(p)) = A[p] + Total(A, From(p) \ {p})
      <4>1. IsFiniteSet(From(p)) /\ \A x \in From(p) : A[x] \in Int  BY <3>3, TimesTotal
      <4> QED BY <3>3, <4>1, TotalRemove
    <3>6. /\ Total(A, Since(now + 1)) <= Total(A, From(p) \ {p})
          /\ Total(A, Since(now + 1)) \in Int /\ Total(A, From(p) \ {p}) \in Int
      <4>1. From(p) \ {p} \in SUBSET Times  BY <3>3
      <4> QED BY <3>4, <4>1, TimesTotal
    <3>7. Total(A, Since(now + 1)) <= FallbackLimit - 1
      <4>1. A[p] \in Nat  BY <3>2
      <4> QED BY <1>1, <3>2, <3>5, <3>6, <4>1
    <3> QED BY <1>2, <1>4, <2>1, <3>7 DEF Remembers
  <2> QED BY <2>2, <2>3
<1> QED BY <1>3, <1>4

(* One more attempt counted by the entry that runs *)
LEMMA RememberMore ==
  ASSUME NEW A \in [Times -> Nat], NEW B \in [Times -> Nat], NEW e \in Entries,
         NEW f \in Entries, NEW now \in Times, Remembers(A, e, now), Runs(e, now),
         e.count < FallbackLimit, f.count = e.count + 1, f.resetAt = e.resetAt,
         B[now] = A[now] + 1, \A t \in Times \ {now} : B[t] = A[t]
  PROVE  Remembers(B, f, now)
<1>1. /\ \A t \in Times : t \in Nat /\ A[t] \in Nat /\ B[t] \in Nat
      /\ Window \in Nat \ {0} /\ FallbackLimit \in Nat \ {0}
      /\ e.resetAt \in Nat /\ e.count \in 0 .. FallbackLimit
      /\ e.count + 1 <= FallbackLimit
  BY TimesAreInts, RateConstants DEF Entries
<1> DEFINE p == Begun(e)
<1>2. /\ p \in Times /\ p <= now /\ A[p] > 0
      /\ Total(A, From(p)) <= e.count
      /\ Total(A, Before(p)) <= FallbackLimit - 1
  BY DEF Remembers
<1>3. Begun(f) = p /\ Runs(f, now)  BY DEF Begun, Runs
<1>4. \A t \in Times : t > now => B[t] = 0  BY <1>1 DEF Remembers
<1> HIDE DEF p
<1>5. B[p] > 0  BY <1>1, <1>2
<1>6. ASSUME NEW T \in SUBSET Times
      PROVE  /\ Total(A, T) \in Int /\ Total(B, T) \in Int
             /\ now \in T => Total(B, T) = Total(A, T) + 1
             /\ now \notin T => Total(B, T) = Total(A, T)
  <2>1. IsFiniteSet(T) /\ Total(A, T) \in Int /\ Total(B, T) \in Int  BY TimesTotal
  <2>2. \A t \in T : A[t] \in Int /\ B[t] \in Int  BY <1>1
  <2>3. CASE now \notin T
    <3>1. \A t \in T : B[t] = A[t]  BY <2>3
    <3> QED BY <2>1, <2>2, <2>3, <3>1, TotalSame
  <2>4. CASE now \in T
    <3>1. Total(B, T) = Total(A, T) + (B[now] - A[now])  BY <2>1, <2>2, <2>4, TotalChange
    <3> QED BY <1>1, <2>1, <2>4, <3>1
  <2> QED BY <2>1, <2>3, <2>4
<1>7. Total(B, From(p)) <= f.count
  <2>1. From(p) \in SUBSET Times /\ now \in From(p)  BY <1>1, <1>2 DEF From
  <2> QED BY <1>1, <1>2, <1>6, <2>1
<1>8. Total(B, Before(p)) <= FallbackLimit - 1
  <2>1. Before(p) \in SUBSET Times /\ now \notin Before(p)  BY <1>1, <1>2 DEF Before
  <2> QED BY <1>2, <1>6, <2>1
<1>9. ASSUME NEW end \in Times PROVE Total(B, Until(end)) <= 2 * FallbackLimit - 1
  <2> DEFINE V == {t \in Until(end) : t < p}
  <2>1. Until(end) \in SUBSET Times /\ V \in SUBSET Until(end)  BY DEF Until
  <2>2. CASE now \notin Until(end)
    <3>1. Total(A, Until(end)) <= 2 * FallbackLimit - 1  BY DEF Remembers
    <3> QED BY <1>6, <2>1, <2>2, <3>1
  <2>3. CASE now \in Until(end)
    <3>1. V \in SUBSET Before(p)  BY <1>1, <1>2, <2>3 DEF Until, Before
    <3>2. Until(end) \ V \in SUBSET From(p)  BY <1>1, <1>2 DEF Until, From
    <3> HIDE DEF V
    <3>3. Total(B, Until(end)) = Total(B, V) + Total(B, Until(end) \ V)
      <4>1. IsFiniteSet(Until(end)) /\ \A x \in Until(end) : B[x] \in Int  BY <1>1, <2>1, TimesTotal
      <4> QED BY <2>1, <4>1, TotalParts
    <3>4. /\ Total(B, V) <= Total(B, Before(p)) /\ Total(B, V) \in Int
          /\ Total(B, Before(p)) \in Int
      BY <3>1, TimesTotal DEF Before
    <3>5. /\ Total(B, Until(end) \ V) <= Total(B, From(p)) /\ Total(B, Until(end) \ V) \in Int
          /\ Total(B, From(p)) \in Int
      BY <3>2, TimesTotal DEF From
    <3>6. Total(B, From(p)) <= FallbackLimit  BY <1>1, <1>7, <3>5
    <3> QED BY <1>1, <1>8, <3>3, <3>4, <3>5, <3>6
  <2> QED BY <2>2, <2>3
<1> QED BY <1>2, <1>3, <1>4, <1>5, <1>7, <1>8, <1>9 DEF Remembers

(* The first attempt of a new entry *)
LEMMA RememberNew ==
  ASSUME NEW A \in [Times -> Nat], NEW B \in [Times -> Nat], NEW e, NEW f \in Entries,
         NEW now \in Times, Remembers(A, e, now), ~Runs(e, now),
         f.count = 1, f.resetAt = now + Window,
         B[now] = A[now] + 1, \A t \in Times \ {now} : B[t] = A[t]
  PROVE  Remembers(B, f, now)
<1>1. /\ \A t \in Times : t \in Nat /\ A[t] \in Nat /\ B[t] \in Nat
      /\ Window \in Nat \ {0} /\ FallbackLimit \in Nat \ {0}
  BY TimesAreInts, RateConstants
<1>2. Begun(f) = now /\ Runs(f, now)  BY <1>1 DEF Begun, Runs
<1>3. \A t \in Times : t >= now => A[t] = 0  BY DEF Remembers
<1>4. (\A t \in Times : t > now => B[t] = 0) /\ B[now] = 1  BY <1>1, <1>3
<1>5. ASSUME NEW T \in SUBSET Times
      PROVE  /\ Total(A, T) \in Int /\ Total(B, T) \in Int
             /\ now \in T => Total(B, T) = Total(A, T) + 1
             /\ now \notin T => Total(B, T) = Total(A, T)
  <2>1. IsFiniteSet(T) /\ Total(A, T) \in Int /\ Total(B, T) \in Int  BY TimesTotal
  <2>2. \A t \in T : A[t] \in Int /\ B[t] \in Int  BY <1>1
  <2>3. CASE now \notin T
    <3>1. \A t \in T : B[t] = A[t]  BY <2>3
    <3> QED BY <2>1, <2>2, <2>3, <3>1, TotalSame
  <2>4. CASE now \in T
    <3>1. Total(B, T) = Total(A, T) + (B[now] - A[now])  BY <2>1, <2>2, <2>4, TotalChange
    <3> QED BY <1>1, <2>1, <2>4, <3>1
  <2> QED BY <2>1, <2>3, <2>4
<1>6. Total(B, From(now)) <= f.count
  <2>1. From(now) \in SUBSET Times /\ now \in From(now)  BY <1>1 DEF From
  <2>2. Total(A, From(now)) = 0
    <3>1. IsFiniteSet(From(now)) /\ \A t \in From(now) : A[t] \in Int /\ A[t] = 0
      BY <1>1, <1>3, <2>1, TimesTotal DEF From
    <3> QED BY <3>1, TotalZero
  <2> QED BY <1>5, <2>1, <2>2
<1>7. Total(A, Since(now)) <= FallbackLimit - 1  BY DEF Remembers
<1>8. Total(B, Before(now)) <= FallbackLimit - 1
  <2>1. /\ Before(now) \in SUBSET Since(now) /\ Since(now) \in SUBSET Times
        /\ Before(now) \in SUBSET Times /\ now \notin Before(now)
    BY <1>1 DEF Before, Since
  <2>2. Total(A, Before(now)) <= Total(A, Since(now)) /\ Total(A, Since(now)) \in Int
    BY <2>1, TimesTotal
  <2> QED BY <1>1, <1>5, <1>7, <2>1, <2>2
<1>9. ASSUME NEW end \in Times PROVE Total(B, Until(end)) <= 2 * FallbackLimit - 1
  <2>1. Until(end) \in SUBSET Times  BY DEF Until
  <2>2. CASE now \notin Until(end)
    <3>1. Total(A, Until(end)) <= 2 * FallbackLimit - 1  BY DEF Remembers
    <3> QED BY <1>5, <2>1, <2>2, <3>1
  <2>3. CASE now \in Until(end)
    <3>1. Until(end) \in SUBSET Since(now) /\ Since(now) \in SUBSET Times
      BY <1>1, <2>3 DEF Until, Since
    <3>2. Total(A, Until(end)) <= Total(A, Since(now)) /\ Total(A, Since(now)) \in Int
      BY <3>1, TimesTotal
    <3> QED BY <1>1, <1>5, <1>7, <2>1, <2>3, <3>2
  <2> QED BY <2>2, <2>3
<1> QED BY <1>1, <1>2, <1>4, <1>6, <1>8, <1>9 DEF Remembers

(* Memory remembers of every key what it was let in for, unless it was cleared of it. *)
MemoryInv ==
  \A k \in Identifiers \ forgotten : Remembers(admitted["memory"][k], fallback[k], clock)

(* A key that was not asked for, at the same time *)
LEMMA RememberSwept ==
  ASSUME NEW A, NEW e, NEW f, NEW now \in Times, Remembers(A, e, now),
         f = e \/ (~Runs(e, now) /\ f.resetAt = 0)
  PROVE  Remembers(A, f, now)
<1>1. CASE f = e  BY <1>1
<1>2. CASE ~Runs(e, now) /\ f.resetAt = 0
  <2>1. ~Runs(f, now)  BY <1>2, TimesAreInts DEF Runs
  <2> QED BY <1>2, <2>1 DEF Remembers
<1> QED BY <1>1, <1>2

LEMMA NextMemory == RateTypes /\ RateTypes' /\ MemoryInv /\ [RateNext]_rateVars => MemoryInv'
<1> SUFFICES ASSUME RateTypes, RateTypes', MemoryInv, [RateNext]_rateVars,
                    NEW k \in Identifiers, k \notin forgotten'
             PROVE  Remembers(admitted'["memory"][k], fallback'[k], clock')
  BY DEF MemoryInv
<1> DEFINE A == admitted["memory"][k]
           B == admitted'["memory"][k]
<1>1. /\ A \in [Times -> Nat] /\ B \in [Times -> Nat]
      /\ fallback[k] \in Entries /\ fallback'[k] \in Entries
      /\ clock \in Times /\ clock' \in Times
  BY DEF RateTypes, Ways, Entries
<1>2. k \notin forgotten => Remembers(A, fallback[k], clock)
  BY DEF MemoryInv
<1>3. Running(k) <=> Runs(fallback[k], clock)  BY DEF Running, Runs
<1>4. ASSUME NEW d \in Identifiers, AskRedis(d) \/ AskInVain(d)
      PROVE  Remembers(B, fallback'[k], clock')
  <2>1. B = A
    BY <1>4, AdmitTypes DEF AskRedis, AskInVain, Ways
  <2>2. UNCHANGED <<fallback, forgotten, clock>>  BY <1>4 DEF AskRedis, AskInVain
  <2> QED BY <1>2, <2>1, <2>2
<1>5. ASSUME NEW d \in Identifiers, AskMemory(d), d # k
      PROVE  Remembers(B, fallback'[k], clock')
  <2>1. B = A  BY <1>5, MemoryCases, AdmitTypes DEF Ways
  <2>2. /\ clock' = clock /\ k \notin forgotten
        /\ fallback'[k] = fallback[k] \/ (~Running(k) /\ fallback'[k].resetAt = 0)
    BY <1>5, MemoryCases
  <2> QED BY <1>1, <1>2, <1>3, <2>1, <2>2, RememberSwept
<1>6. CASE AskMemory(k)
  <2>1. clock' = clock /\ k \notin forgotten  BY <1>6, MemoryCases
  <2>2. CASE admitted' = admitted /\ fallback'[k] = fallback[k]
    BY <1>2, <2>1, <2>2
  <2>3. CASE /\ Admit("memory", k)
             /\ \/ /\ Running(k)
                   /\ fallback[k].count < FallbackLimit
                   /\ fallback'[k] = OneMore(k)
                \/ /\ ~Running(k)
                   /\ fallback'[k] = [count |-> 1, resetAt |-> clock + Window]
    <3>1. B[clock] = A[clock] + 1 /\ \A t \in Times \ {clock} : B[t] = A[t]
      BY <2>3, AdmitTypes DEF Ways
    <3>2. CASE /\ Running(k)
               /\ fallback[k].count < FallbackLimit
               /\ fallback'[k] = OneMore(k)
      <4>1. fallback'[k].count = fallback[k].count + 1
            /\ fallback'[k].resetAt = fallback[k].resetAt
        BY <3>2 DEF OneMore
      <4> QED BY <1>1, <1>2, <1>3, <2>1, <3>1, <3>2, <4>1, RememberMore
    <3>3. CASE ~Running(k) /\ fallback'[k] = [count |-> 1, resetAt |-> clock + Window]
      <4>1. fallback'[k].count = 1 /\ fallback'[k].resetAt = clock + Window  BY <3>3
      <4> QED BY <1>1, <1>2, <1>3, <2>1, <3>1, <3>3, <4>1, RememberNew
    <3> QED BY <2>3, <3>2, <3>3
  <2> QED BY <1>6, <2>2, <2>3, MemoryCases
<1>7. CASE Sweep \/ ForgetAll
  <2>1. /\ clock' = clock /\ k \notin forgotten /\ B = A
        /\ fallback'[k] = fallback[k] \/ (~Running(k) /\ fallback'[k].resetAt = 0)
    BY <1>7, SweepCases
  <2> QED BY <1>1, <1>2, <1>3, <2>1, RememberSwept
<1>8. CASE Tick
  <2>1. /\ clock' = clock + 1 /\ k \notin forgotten /\ B = A /\ fallback' = fallback
    BY <1>8 DEF Tick
  <2> QED BY <1>1, <1>2, <2>1, RememberTick
<1>9. CASE LosePing \/ RegainPing \/ UNCHANGED rateVars
  <2>1. UNCHANGED <<fallback, forgotten, clock, admitted>>
    BY <1>9 DEF LosePing, RegainPing, rateVars
  <2> QED BY <1>2, <2>1
<1> QED BY <1>4, <1>5, <1>6, <1>7, <1>8, <1>9 DEF RateNext

LEMMA InitInvs == RateInit => RedisInv /\ MemoryInv
<1> SUFFICES ASSUME RateInit PROVE RedisInv /\ MemoryInv  OBVIOUS
<1>1. /\ \A k \in Identifiers, t \in Times : /\ admitted["redis"][k][t] = 0
                                              /\ admitted["memory"][k][t] = 0
                                              /\ scored[k][t] = 0
      /\ \A k \in Identifiers : fallback[k].resetAt = 0
      /\ clock = 1
      /\ MaxRequests \in Nat /\ FallbackLimit \in Nat \ {0}
  BY RateConstants DEF RateInit, Ways
<1>2. ASSUME NEW k \in Identifiers, NEW S \in SUBSET Times
      PROVE  Total(admitted["redis"][k], S) = 0 /\ Total(admitted["memory"][k], S) = 0
  <2>1. IsFiniteSet(S)  BY TimesFinite
  <2>2. \A t \in S : admitted["redis"][k][t] = 0 /\ admitted["memory"][k][t] = 0  BY <1>1
  <2> QED BY <2>1, <2>2, TotalZero
<1>3. \A end \in Times : Until(end) \in SUBSET Times  BY DEF Until
<1>4. RedisInv  BY <1>1, <1>2, <1>3 DEF RedisInv
<1>5. ASSUME NEW k \in Identifiers
      PROVE  Remembers(admitted["memory"][k], fallback[k], clock)
  <2>1. ~Runs(fallback[k], clock)  BY <1>1 DEF Runs
  <2>2. Since(clock) \in SUBSET Times  BY DEF Since
  <2>3. 0 <= FallbackLimit - 1 /\ 0 <= 2 * FallbackLimit - 1  BY <1>1
  <2> QED BY <1>1, <1>2, <1>3, <1>5, <2>1, <2>2, <2>3 DEF Remembers
<1> QED BY <1>4, <1>5 DEF MemoryInv

(* However a client spreads its attempts and Redis comes and goes, no window of       *)
(* windowMs has more than maxRequests that Redis let in, nor as many as two fixed      *)
(* windows allow that memory did, unless memory was cleared.                           *)
THEOREM RatesAreBounded == RateSpec => []RateBounded
<1>1. RateTypes /\ RedisInv /\ MemoryInv => RateBounded
  <2> SUFFICES ASSUME RedisInv, MemoryInv, NEW k \in Identifiers, NEW end \in Times
               PROVE  /\ AdmittedUntil("redis", k, end) <= MaxRequests
                      /\ k \notin forgotten =>
                           AdmittedUntil("memory", k, end) <= 2 * FallbackLimit - 1
    BY DEF RateBounded
  <2> QED BY DEF RedisInv, MemoryInv, Remembers, AdmittedUntil, Until
<1> QED BY <1>1, InitRate, InitInvs, NextRateTypes, NextRedis, NextMemory, PTL DEF RateSpec

-----------------------------------------------------------------------------
(* Accounts: what points and addresses keep, for any calls, requests and failures. *)
AccountSteps == {"idle", "recording", "paying", "clearing", "setting", "writing", "ended"}

LEMMA OntoTypes ==
  ASSUME AccountTypes, NEW c \in Calls, NEW s \in AccountSteps, Onto(c, s)
  PROVE  /\ step' \in [Calls -> AccountSteps] /\ step'[c] = s
         /\ \A d \in Calls \ {c} : step'[d] = step[d]
BY DEF AccountTypes, Onto, AccountSteps

LEMMA AskedFor ==
  ASSUME AccountTypes, NEW c \in Calls
  PROVE  /\ wants[c].op \in {"redeem"} \cup AddressOps
         /\ wants[c].op = "redeem" => wants[c].points \in Nat
         /\ wants[c].op \in AddressOps => wants[c].id \in Addresses
         /\ wants[c].op = "create" => wants[c].id = c
<1>1. wants[c] \in Asks
  BY AccountConstants DEF AccountTypes
<1> QED BY <1>1, AccountConstants DEF Asks, AddressOps, AccountTypes

(* A call is where its operation can be. *)
StepsFit ==
  \A c \in Calls :
    /\ step[c] \in {"recording", "paying"} => wants[c].op = "redeem"
    /\ step[c] \in {"clearing", "setting"} =>
         wants[c].op \in {"create", "update"}
    /\ step[c] = "writing" => wants[c].op \in AddressOps

LEMMA NextStepsFit == AccountTypes /\ StepsFit /\ [AccountNext]_accountVars => StepsFit'
<1> SUFFICES ASSUME AccountTypes, StepsFit, [AccountNext]_accountVars PROVE StepsFit'
  OBVIOUS
<1>1. ASSUME NEW c \in Calls, CheckPoints(c) PROVE StepsFit'
  BY <1>1 DEF CheckPoints, Starts, Onto, AccountTypes, StepsFit
<1>2. ASSUME NEW c \in Calls, BeginAddress(c) PROVE StepsFit'
  <2>1. /\ wants' = wants /\ \A d \in Calls \ {c} : step'[d] = step[d]
        /\ step'[c] \in {"ended", "clearing", "writing"}
        /\ step'[c] = "clearing" => wants[c].op # "delete"
        /\ wants[c].op \in AddressOps
    BY <1>2 DEF BeginAddress, Onto, AccountTypes
  <2> QED BY <2>1 DEF StepsFit, AddressOps
<1>3. ASSUME NEW c \in Calls,
             RecordRedemption(c) \/ PayPoints(c) \/ ClearDefaults(c) \/ WriteRow(c)
      PROVE  StepsFit'
  BY <1>3 DEF RecordRedemption, PayPoints, ClearDefaults, WriteRow, Onto, AccountTypes, StepsFit
<1>4. ASSUME NEW c \in Calls, SetDefault(c) \/ SetMissing(c) \/ GiveUp(c) PROVE StepsFit'
  BY <1>4 DEF SetDefault, SetMissing, GiveUp, Release, Onto, AccountTypes, StepsFit
<1>5. CASE UNCHANGED accountVars
  BY <1>5 DEF accountVars, StepsFit
<1> QED BY <1>1, <1>2, <1>3, <1>4, <1>5 DEF AccountNext

-----------------------------------------------------------------------------
LEMMA InitAccount == AccountInit => AccountTypes /\ StepsFit
<1>1. 0 \in 0 .. MaxFaults /\ OpeningPoints \in Int
  BY AccountConstants
<1> QED BY <1>1 DEF AccountInit, AccountTypes, StepsFit, Addresses

LEMMA NextAccountTypes == AccountTypes /\ StepsFit /\ [AccountNext]_accountVars => AccountTypes'
<1> SUFFICES ASSUME AccountTypes, StepsFit, [AccountNext]_accountVars PROVE AccountTypes'
  OBVIOUS
<1>1. ASSUME NEW c \in Calls, CheckPoints(c) PROVE AccountTypes'
  <2>1. PICK s \in {"recording", "ended"} : Onto(c, s)
    BY <1>1 DEF CheckPoints
  <2> QED BY <1>1, <2>1, OntoTypes DEF CheckPoints, AccountTypes, AccountSteps, address
<1>2. ASSUME NEW c \in Calls, RecordRedemption(c) \/ PayPoints(c) PROVE AccountTypes'
  <2>1. wants[c].points \in Nat
    BY <1>2, AskedFor DEF RecordRedemption, PayPoints, StepsFit
  <2> QED BY <1>2, <2>1, OntoTypes
          DEF RecordRedemption, PayPoints, AccountTypes, AccountSteps, address
<1>3. ASSUME NEW c \in Calls, BeginAddress(c) PROVE AccountTypes'
  <2>1. PICK s \in {"ended", "clearing", "writing"} : Onto(c, s)
    BY <1>3 DEF BeginAddress
  <2>2. /\ view' = view \/ view' = [view EXCEPT ![c] = rows]
        /\ rivals' \subseteq rivals \cup Setting \cup {c}
    BY <1>3 DEF BeginAddress
  <2>3. view' \in [Calls -> SUBSET Addresses] /\ rivals' \subseteq Calls
    BY <2>2 DEF AccountTypes, Setting
  <2> QED BY <1>3, <2>1, <2>3, OntoTypes DEF BeginAddress, AccountTypes, AccountSteps, money
<1>4. ASSUME NEW c \in Calls, ClearDefaults(c) PROVE AccountTypes'
  <2>1. locked' \in [Calls -> SUBSET Addresses]
    BY <1>4 DEF ClearDefaults, AccountTypes
  <2> QED BY <1>4, <2>1, OntoTypes DEF ClearDefaults, AccountTypes, AccountSteps, money
<1>5. ASSUME NEW c \in Calls, Release(c)
      PROVE  /\ step' \in [Calls -> AccountSteps]
             /\ view' \in [Calls -> SUBSET Addresses] /\ locked' \in [Calls -> SUBSET Addresses]
  BY <1>5, OntoTypes DEF Release, AccountTypes, AccountSteps
<1>6. ASSUME NEW c \in Calls, SetDefault(c) PROVE AccountTypes'
  <2>1. wants[c].id \in Addresses
    BY <1>6, AskedFor DEF SetDefault, StepsFit, AddressOps
  <2> QED BY <1>5, <1>6, <2>1 DEF SetDefault, AccountTypes, AccountSteps, money
<1>7. ASSUME NEW c \in Calls, SetMissing(c) PROVE AccountTypes'
  BY <1>5, <1>7 DEF SetMissing, AccountTypes, AccountSteps, money
<1>8. ASSUME NEW c \in Calls, WriteRow(c) PROVE AccountTypes'
  <2>1. rows' \subseteq Addresses /\ default' \subseteq rows'
    BY <1>8 DEF WriteRow, AccountTypes, Addresses
  <2> QED BY <1>8, <2>1, OntoTypes DEF WriteRow, AccountTypes, AccountSteps, money
<1>9. ASSUME NEW c \in Calls, GiveUp(c) PROVE AccountTypes'
  <2>1. faults' \in 0 .. MaxFaults
    BY <1>9, AccountConstants DEF GiveUp, AccountTypes
  <2> QED BY <1>5, <1>9, <2>1 DEF GiveUp, AccountTypes, AccountSteps, money
<1>10. CASE UNCHANGED accountVars
  BY <1>10 DEF accountVars, money, address, AccountTypes
<1> QED BY <1>1, <1>2, <1>3, <1>4, <1>6, <1>7, <1>8, <1>9, <1>10 DEF AccountNext

(* Every variable keeps its type, and a default address is an address. *)
THEOREM AccountsTyped == AccountSpec => []AccountTypes
BY InitAccount, NextStepsFit, NextAccountTypes, PTL DEF AccountSpec

-----------------------------------------------------------------------------
(* The points *)

Redeeming(c) == step[c] \in {"recording", "paying"}

(* Unless redemptions overlapped there is one, and the points cover it. *)
PointsInv ==
  ~crowded =>
    /\ points >= 0
    /\ \A c \in Calls : Redeeming(c) => wants[c].points <= points
    /\ \A c, d \in Calls : Redeeming(c) /\ Redeeming(d) => c = d

LEMMA NextPoints ==
  AccountTypes /\ StepsFit /\ PointsInv /\ [AccountNext]_accountVars => PointsInv'
<1> SUFFICES ASSUME AccountTypes, StepsFit, PointsInv, [AccountNext]_accountVars
             PROVE  PointsInv'
  OBVIOUS
<1>1. ASSUME NEW c \in Calls, CheckPoints(c) PROVE PointsInv'
  <2>1. /\ wants' = wants /\ points' = points /\ (crowded => crowded')
        /\ \A d \in Calls \ {c} : step'[d] = step[d]
        /\ step'[c] = "recording" => wants[c].points <= points
        /\ step'[c] # "paying"
    <3>1. Starts(c, "redeem")
      BY <1>1 DEF CheckPoints
    <3>2. points \in Int /\ wants[c].points \in Nat
      BY <3>1, AskedFor DEF Starts, AccountTypes
    <3> QED BY <1>1, <3>2 DEF CheckPoints, Enough, Onto, AccountTypes
  <2>2. ~crowded' => \A d \in Calls \ {c} : ~Redeeming(d)
    BY <1>1 DEF CheckPoints, Redeeming
  <2> QED BY <2>1, <2>2 DEF PointsInv, Redeeming
<1>2. ASSUME NEW c \in Calls, RecordRedemption(c) PROVE PointsInv'
  <2>1. /\ wants' = wants /\ crowded' = crowded /\ points' = points
        /\ Redeeming(c) /\ \A d \in Calls \ {c} : step'[d] = step[d]
    BY <1>2 DEF RecordRedemption, Onto, AccountTypes, Redeeming
  <2> QED BY <2>1 DEF PointsInv, Redeeming
<1>3. ASSUME NEW c \in Calls, PayPoints(c) PROVE PointsInv'
  <2>1. wants[c].points \in Nat /\ points \in Int /\ Redeeming(c)
    BY <1>3, AskedFor DEF PayPoints, StepsFit, AccountTypes, Redeeming
  <2>2. /\ wants' = wants /\ crowded' = crowded /\ points' = points - wants[c].points
        /\ step'[c] = "ended" /\ \A d \in Calls \ {c} : step'[d] = step[d]
    BY <1>3 DEF PayPoints, Onto, AccountTypes
  <2> QED BY <2>1, <2>2 DEF PointsInv, Redeeming
<1>4. ASSUME NEW c \in Calls,
             BeginAddress(c) \/ ClearDefaults(c) \/ SetDefault(c) \/ SetMissing(c)
               \/ WriteRow(c) \/ GiveUp(c)
      PROVE  PointsInv'
  <2>1. /\ wants' = wants /\ crowded' = crowded /\ points' = points
        /\ step'[c] \notin {"recording", "paying"}
        /\ \A d \in Calls \ {c} : step'[d] = step[d]
    BY <1>4 DEF BeginAddress, ClearDefaults, SetDefault, SetMissing, WriteRow, GiveUp, Release,
                Onto, AccountTypes, money
  <2> QED BY <2>1 DEF PointsInv, Redeeming
<1>5. CASE UNCHANGED accountVars
  BY <1>5 DEF accountVars, money, PointsInv, Redeeming
<1> QED BY <1>1, <1>2, <1>3, <1>4, <1>5 DEF AccountNext

(* redeemPoints takes the points below zero only if redemptions overlapped. *)
THEOREM OverdraftNeedsOverlap == AccountSpec => [](points < 0 => crowded)
<1>1. AccountInit => PointsInv
  BY AccountConstants DEF AccountInit, PointsInv, Redeeming
<1>2. AccountTypes /\ PointsInv => (points < 0 => crowded)
  BY DEF AccountTypes, PointsInv
<1> QED BY <1>1, <1>2, InitAccount, NextStepsFit, NextAccountTypes, NextPoints, PTL DEF AccountSpec

(* The sum of the rows *)
OwingInv ==
  /\ points = ledger + Owed
  /\ \A c \in owing : /\ wants[c].op = "redeem"
                      /\ step[c] = "paying" \/ (step[c] = "ended" /\ faults > 0)
  /\ \A c \in Calls : step[c] = "paying" => c \in owing

LEMMA OwedFacts ==
  ASSUME AccountTypes, OwingInv, StepsFit
  PROVE  /\ IsFiniteSet(owing) /\ owing \subseteq Calls
         /\ \A c \in owing : wants[c].points \in Int
         /\ Owed \in Int /\ points \in Int /\ ledger \in Int
<1>1. IsFiniteSet(owing) /\ owing \subseteq Calls
  BY AccountConstants, FS_Subset DEF AccountTypes
<1>2. \A c \in owing : wants[c].points \in Int
  BY <1>1, AskedFor DEF OwingInv
<1> QED BY <1>1, <1>2, TotalIsInt DEF Owed, AccountTypes

LEMMA NextOwing ==
  AccountTypes /\ StepsFit /\ OwingInv /\ [AccountNext]_accountVars => OwingInv'
<1> SUFFICES ASSUME AccountTypes, StepsFit, OwingInv, [AccountNext]_accountVars
             PROVE  OwingInv'
  OBVIOUS
<1>1. /\ IsFiniteSet(owing) /\ owing \subseteq Calls
      /\ \A c \in owing : wants[c].points \in Int
      /\ Owed \in Int /\ points \in Int /\ ledger \in Int
  BY OwedFacts
<1>2. ASSUME NEW c \in Calls, RecordRedemption(c) PROVE OwingInv'
  <2>1. /\ wants' = wants /\ points' = points /\ faults' = faults
        /\ ledger' = ledger - wants[c].points /\ owing' = owing \cup {c}
        /\ step[c] = "recording" /\ step'[c] = "paying"
        /\ \A d \in Calls \ {c} : step'[d] = step[d]
    BY <1>2 DEF RecordRedemption, Onto, AccountTypes
  <2>2. c \notin owing  BY <2>1 DEF OwingInv
  <2>3. wants[c].op = "redeem" /\ wants[c].points \in Int
    BY <2>1, AskedFor DEF StepsFit
  <2>4. Owed' = wants[c].points + Owed
    <3> DEFINE f == [d \in owing |-> wants[d].points]
               g == [d \in owing \cup {c} |-> wants[d].points]
    <3>1. \A d \in owing \cup {c} : g[d] \in Int  BY <1>1, <2>3
    <3>2. \A d \in owing : f[d] \in Int /\ g[d] = f[d]  BY <1>1
    <3>3. g[c] = wants[c].points  OBVIOUS
    <3>4. Owed' = Total(g, owing \cup {c}) /\ Owed = Total(f, owing)  BY <2>1 DEF Owed
    <3> HIDE DEF f, g
    <3>5. Total(g, owing) = Total(f, owing)  BY <1>1, <3>2, TotalSame
    <3>6. Total(g, owing \cup {c}) = g[c] + Total(g, owing)
      BY <1>1, <2>2, <3>1, TotalAdd
    <3> QED BY <3>3, <3>4, <3>5, <3>6
  <2>5. points' = ledger' + Owed'
    BY <1>1, <2>1, <2>3, <2>4 DEF OwingInv
  <2>6. \A d \in owing' : /\ wants'[d].op = "redeem"
                          /\ step'[d] = "paying" \/ (step'[d] = "ended" /\ faults' > 0)
    BY <1>1, <2>1, <2>2, <2>3 DEF OwingInv
  <2>7. \A d \in Calls : step'[d] = "paying" => d \in owing'
    BY <2>1 DEF OwingInv
  <2> QED BY <2>5, <2>6, <2>7 DEF OwingInv
<1>3. ASSUME NEW c \in Calls, PayPoints(c) PROVE OwingInv'
  <2>1. /\ wants' = wants /\ ledger' = ledger /\ faults' = faults
        /\ points' = points - wants[c].points /\ owing' = owing \ {c}
        /\ step[c] = "paying" /\ step'[c] = "ended"
        /\ \A d \in Calls \ {c} : step'[d] = step[d]
    BY <1>3 DEF PayPoints, Onto, AccountTypes
  <2>2. c \in owing  BY <2>1 DEF OwingInv
  <2>3. Owed = wants[c].points + Owed'
    <3> DEFINE f == [d \in owing |-> wants[d].points]
               g == [d \in owing \ {c} |-> wants[d].points]
    <3>1. \A d \in owing : f[d] \in Int  BY <1>1
    <3>2. \A d \in owing \ {c} : f[d] \in Int /\ g[d] = f[d]  BY <1>1
    <3>3. f[c] = wants[c].points  BY <2>2
    <3>4. Owed' = Total(g, owing \ {c}) /\ Owed = Total(f, owing)  BY <2>1 DEF Owed
    <3>5. IsFiniteSet(owing \ {c})  BY <1>1, FS_RemoveElement
    <3> HIDE DEF f, g
    <3>6. Total(g, owing \ {c}) = Total(f, owing \ {c})  BY <3>2, <3>5, TotalSame
    <3>7. Total(f, owing) = f[c] + Total(f, owing \ {c})
      BY <1>1, <2>2, <3>1, TotalRemove
    <3> QED BY <3>3, <3>4, <3>6, <3>7
  <2>4. wants[c].points \in Int  BY <1>1, <2>2
  <2>5. points' = ledger' + Owed'
    <3>1. Owed' = Owed - wants[c].points
      <4>1. Owed' \in Int
        <5>1. IsFiniteSet(owing \ {c})  BY <1>1, FS_RemoveElement
        <5>2. \A d \in owing \ {c} : [e \in owing \ {c} |-> wants[e].points][d] \in Int
          BY <1>1
        <5> QED BY <2>1, <5>1, <5>2, TotalIsInt DEF Owed
      <4> QED BY <2>3, <2>4, <4>1
    <3> QED BY <1>1, <2>1, <2>4, <3>1 DEF OwingInv
  <2>6. \A d \in owing' : /\ wants'[d].op = "redeem"
                          /\ step'[d] = "paying" \/ (step'[d] = "ended" /\ faults' > 0)
    BY <1>1, <2>1 DEF OwingInv
  <2>7. \A d \in Calls : step'[d] = "paying" => d \in owing'
    BY <2>1 DEF OwingInv
  <2> QED BY <2>5, <2>6, <2>7 DEF OwingInv
<1>4. ASSUME NEW c \in Calls,
             CheckPoints(c) \/ BeginAddress(c) \/ ClearDefaults(c) \/ SetDefault(c)
               \/ SetMissing(c) \/ WriteRow(c) \/ GiveUp(c)
      PROVE  OwingInv'
  <2>1. /\ UNCHANGED <<wants, points, ledger, owing>>
        /\ faults' >= faults
        /\ \A d \in Calls \ {c} : step'[d] = step[d]
        /\ step[c] = "paying" => step'[c] = "ended" /\ faults' > 0
        /\ step[c] # "ended" /\ step'[c] # "paying"
    BY <1>4, AccountConstants
       DEF CheckPoints, BeginAddress, ClearDefaults, SetDefault, SetMissing, WriteRow, GiveUp,
           Release, Starts, Onto, AccountTypes, money
  <2>2. Owed' = Owed  BY <2>1 DEF Owed
  <2>3. \A d \in owing' : /\ wants'[d].op = "redeem"
                          /\ step'[d] = "paying" \/ (step'[d] = "ended" /\ faults' > 0)
    <3>1. faults \in Int /\ faults' \in Int  BY <1>4, AccountConstants, NextAccountTypes DEF AccountTypes
    <3> QED BY <1>1, <2>1, <3>1 DEF OwingInv
  <2>4. \A d \in Calls : step'[d] = "paying" => d \in owing'
    BY <2>1 DEF OwingInv
  <2> QED BY <2>1, <2>2, <2>3, <2>4 DEF OwingInv
<1>5. CASE UNCHANGED accountVars
  BY <1>5 DEF accountVars, money, OwingInv, Owed
<1> QED BY <1>2, <1>3, <1>4, <1>5 DEF AccountNext

(* redeemPoints takes the points below zero only if redemptions overlapped, and the points *)
(* are the sum of their rows but for what redemptions recorded and have not taken off.     *)
THEOREM PointsAlwaysAddUp == AccountSpec => []PointsAddUp
<1>1. AccountInit => OwingInv
  <2> SUFFICES ASSUME AccountInit PROVE OwingInv  OBVIOUS
  <2>1. owing = {} /\ points = ledger /\ ledger \in Int /\ \A c \in Calls : step[c] = "idle"
    BY AccountConstants DEF AccountInit
  <2>2. Owed = 0  BY <2>1, TotalEmpty DEF Owed
  <2> QED BY <2>1, <2>2 DEF OwingInv
<1>2. OwingInv /\ (points < 0 => crowded) => PointsAddUp
  BY DEF OwingInv, PointsAddUp
<1> QED BY <1>1, <1>2, OverdraftNeedsOverlap, InitAccount, NextStepsFit, NextAccountTypes, NextOwing, PTL
        DEF AccountSpec

-----------------------------------------------------------------------------
(* The default address *)

(* A call that sets a default alone has, or is about to have, the rows of every *)
(* default there is.                                                            *)
DefaultsInv ==
  /\ OneDefaultAddress
  /\ \A c, d \in Setting : c # d => c \in rivals
  /\ \A c \in Setting \ rivals :
       /\ step[c] = "clearing" => default \subseteq view[c]
       /\ step[c] = "setting" => default \subseteq locked[c]

LEMMA NextDefaults ==
  AccountTypes /\ StepsFit /\ DefaultsInv /\ [AccountNext]_accountVars => DefaultsInv'
<1> SUFFICES ASSUME AccountTypes, StepsFit, DefaultsInv, [AccountNext]_accountVars
             PROVE  DefaultsInv'
  OBVIOUS
<1>1. ASSUME NEW c \in Calls, CheckPoints(c) \/ RecordRedemption(c) \/ PayPoints(c)
      PROVE  DefaultsInv'
  <2>1. UNCHANGED address /\ Setting' = Setting /\ \A d \in Setting : step'[d] = step[d]
    BY <1>1 DEF CheckPoints, RecordRedemption, PayPoints, Starts, Onto, AccountTypes, Setting
  <2> QED BY <2>1 DEF DefaultsInv, OneDefaultAddress, address
<1>2. ASSUME NEW c \in Calls, BeginAddress(c) PROVE DefaultsInv'
  <2>1. /\ \A d \in Calls \ {c} : step'[d] = step[d]
        /\ c \notin Setting /\ UNCHANGED <<rows, default, locked, tangled>>
    BY <1>2 DEF BeginAddress, Onto, AccountTypes, Setting
  <2>2. CASE step'[c] = "clearing"
    <3>1. /\ view' = [view EXCEPT ![c] = rows] /\ Setting' = Setting \cup {c}
          /\ rivals' = rivals \cup IF Setting = {} THEN {} ELSE Setting \cup {c}
      BY <1>2, <2>1, <2>2 DEF BeginAddress, Onto, AccountTypes, Setting
    <3>2. default \subseteq rows
      BY DEF AccountTypes
    <3> QED BY <2>1, <2>2, <3>1, <3>2 DEF DefaultsInv, OneDefaultAddress, AccountTypes, Setting
  <2>3. CASE step'[c] # "clearing"
    <3>1. Setting' = Setting /\ UNCHANGED <<view, rivals>>
      BY <1>2, <2>1, <2>3 DEF BeginAddress, Onto, AccountTypes, Setting
    <3> QED BY <2>1, <3>1 DEF DefaultsInv, OneDefaultAddress, Setting
  <2> QED BY <2>2, <2>3
<1>3. ASSUME NEW c \in Calls, ClearDefaults(c) PROVE DefaultsInv'
  <2>1. /\ Setting' = Setting /\ c \in Setting /\ step[c] = "clearing" /\ step'[c] = "setting"
        /\ \A d \in Calls \ {c} : step'[d] = step[d] /\ locked'[d] = locked[d]
        /\ locked'[c] = view[c] \cap rows
        /\ UNCHANGED <<default, view, rivals, tangled>>
    BY <1>3 DEF ClearDefaults, Onto, AccountTypes, Setting
  <2>2. default \subseteq rows
    BY DEF AccountTypes
  <2> QED BY <2>1, <2>2 DEF DefaultsInv, OneDefaultAddress, Setting
<1>4. ASSUME NEW c \in Calls, SetDefault(c) PROVE DefaultsInv'
  <2>1. /\ Setting' = Setting \ {c} /\ c \in Setting /\ step[c] = "setting"
        /\ \A d \in Calls \ {c} : step'[d] = step[d]
        /\ rivals' = rivals /\ tangled' = (c \in rivals)
        /\ default' = (default \ locked[c]) \cup {wants[c].id}
    BY <1>4 DEF SetDefault, Release, Onto, AccountTypes, Setting
  <2>2. Setting' \subseteq rivals
    BY <2>1 DEF DefaultsInv
  <2>3. OneDefaultAddress'
    BY <2>1 DEF DefaultsInv, OneDefaultAddress
  <2> QED BY <2>1, <2>2, <2>3 DEF DefaultsInv
<1>5. ASSUME NEW c \in Calls, SetMissing(c) \/ GiveUp(c) PROVE DefaultsInv'
  <2>1. /\ Setting' = Setting \ {c}
        /\ \A d \in Calls \ {c} :
             step'[d] = step[d] /\ view'[d] = view[d] /\ locked'[d] = locked[d]
        /\ UNCHANGED <<default, rivals, tangled>>
    BY <1>5 DEF SetMissing, GiveUp, Release, Onto, AccountTypes, Setting
  <2> QED BY <2>1 DEF DefaultsInv, OneDefaultAddress, Setting
<1>6. ASSUME NEW c \in Calls, WriteRow(c) PROVE DefaultsInv'
  <2>1. /\ Setting' = Setting /\ \A d \in Setting : step'[d] = step[d]
        /\ default' \subseteq default
        /\ UNCHANGED <<view, locked, rivals, tangled>>
    BY <1>6 DEF WriteRow, Onto, AccountTypes, Setting
  <2> QED BY <2>1 DEF DefaultsInv, OneDefaultAddress
<1>7. CASE UNCHANGED accountVars
  BY <1>7 DEF accountVars, address, DefaultsInv, OneDefaultAddress, Setting
<1> QED BY <1>1, <1>2, <1>3, <1>4, <1>5, <1>6, <1>7 DEF AccountNext

(* createAddress and updateAddress leave one default address, unless the last call that *)
(* set one overlapped another: the transaction has every default there is among the     *)
(* rows it has cleared.                                                                 *)
THEOREM DefaultIsUnique == AccountSpec => []OneDefaultAddress
<1>1. AccountInit => DefaultsInv
  BY DEF AccountInit, DefaultsInv, OneDefaultAddress, Setting
<1>2. DefaultsInv => OneDefaultAddress
  BY DEF DefaultsInv
<1> QED BY <1>1, <1>2, InitAccount, NextStepsFit, NextAccountTypes, NextDefaults, PTL DEF AccountSpec

-----------------------------------------------------------------------------
(* Coupons: what they keep, for any codes, clerks and requests. *)
ClerkSteps == {"idle", "recoding", "inserting", "updating", "removing", "ended"}

LEMMA Proposed ==
  ASSUME CouponTypes, NEW c \in Clerks
  PROVE  /\ proposal[c] \in Terms
         /\ proposal[c].op = "create" =>
              proposal[c].id = c /\ \A f \in Fields : proposal[c][f] # Absent
BY CouponConstants DEF CouponTypes

(* The rows as they are after an INSERT or an UPDATE *)
LEMMA FromTerms ==
  ASSUME NEW p \in Terms, \A f \in Fields : p[f] # Absent
  PROVE  [f \in Fields |-> p[f]] \in Coupons
<1> DEFINE r == [f \in Fields |-> p[f]]
<1>1. /\ r.code \in Codes /\ r.type \in Discounts /\ r.value \in Int
      /\ r.starts \in Nat /\ r.ends \in Nat
  BY DEF Terms, Fields
<1>2. r = [code |-> r.code, type |-> r.type, value |-> r.value,
           starts |-> r.starts, ends |-> r.ends]
  BY DEF Fields
<1> QED BY <1>1, <1>2 DEF Coupons

LEMMA RevisedRow ==
  ASSUME NEW p \in Terms, NEW old \in Coupons
  PROVE  Revised(old, p) \in Coupons
<1> DEFINE r == Revised(old, p)
<1>1. /\ r.code \in Codes /\ r.type \in Discounts /\ r.value \in Int
      /\ r.starts \in Nat /\ r.ends \in Nat
  BY DEF Terms, Coupons, Fields, Revised
<1>2. r = [code |-> r.code, type |-> r.type, value |-> r.value,
           starts |-> r.starts, ends |-> r.ends]
  BY DEF Fields, Revised
<1> QED BY <1>1, <1>2 DEF Coupons

LEMMA PassTypes ==
  ASSUME CouponTypes, NEW c \in Clerks, NEW s \in ClerkSteps, Pass(c, s)
  PROVE  /\ clerk' \in [Clerks -> ClerkSteps] /\ clerk'[c] = s
         /\ \A d \in Clerks \ {c} : clerk'[d] = clerk[d]
BY DEF CouponTypes, Pass, ClerkSteps

-----------------------------------------------------------------------------
(* A call that is about to write has passed the checks of its input. *)
Sound(c) == PercentageInRange(proposal[c]) /\ EndsAfterStart(proposal[c])
InputsAreChecked ==
  \A c \in Clerks :
    /\ clerk[c] = "inserting" => proposal[c].op = "create" /\ Sound(c)
    /\ clerk[c] = "recoding" => proposal[c].op = "update"
    /\ clerk[c] = "updating" => proposal[c].op = "update" /\ Sound(c)

LEMMA Reads ==
  ASSUME CouponTypes, InputsAreChecked, NEW c \in Clerks, LookUp(c) \/ FindCode(c)
  PROVE  /\ UNCHANGED <<proposal, coupons, haggled, redated>>
         /\ clerk' \in [Clerks -> ClerkSteps] /\ InputsAreChecked'
<1>1. UNCHANGED <<proposal, coupons, haggled, redated>>
  BY DEF LookUp, FindCode
<1>2. proposal[c].op \in {"create", "update", "delete"}
  BY Proposed DEF Terms
<1>3. PICK s \in ClerkSteps :
        /\ Pass(c, s)
        /\ s = "inserting" => proposal[c].op = "create" /\ Sound(c)
        /\ s = "recoding" => proposal[c].op = "update"
        /\ s = "updating" => proposal[c].op = "update" /\ Sound(c)
  <2>1. CASE LookUp(c)
    BY <1>2, <2>1 DEF LookUp, Checks, Sound, ClerkSteps
  <2>2. CASE FindCode(c)
    BY <2>2 DEF FindCode, Checks, Sound, ClerkSteps, InputsAreChecked
  <2> QED BY <2>1, <2>2
<1>4. InputsAreChecked'
  BY <1>1, <1>3, PassTypes DEF InputsAreChecked, Sound, PercentageInRange, EndsAfterStart
<1> QED BY <1>1, <1>3, <1>4, PassTypes

LEMMA Writes ==
  ASSUME CouponTypes, InputsAreChecked, NEW c \in Clerks,
         InsertCoupon(c) \/ UpdateCoupon(c) \/ RemoveCoupon(c)
  PROVE  /\ proposal' = proposal
         /\ clerk' \in [Clerks -> ClerkSteps] /\ InputsAreChecked'
<1>1. proposal' = proposal /\ Pass(c, "ended")
  BY DEF InsertCoupon, UpdateCoupon, RemoveCoupon
<1>2. InputsAreChecked'
  BY <1>1, PassTypes DEF InputsAreChecked, Sound, PercentageInRange, EndsAfterStart, ClerkSteps
<1> QED BY <1>1, <1>2, PassTypes DEF ClerkSteps

LEMMA NextCouponTypes ==
  CouponTypes /\ InputsAreChecked /\ [CouponNext]_couponVars =>
    CouponTypes' /\ InputsAreChecked'
<1> SUFFICES ASSUME CouponTypes, InputsAreChecked, [CouponNext]_couponVars
             PROVE  CouponTypes' /\ InputsAreChecked'
  OBVIOUS
<1>1. ASSUME NEW c \in Clerks, LookUp(c) \/ FindCode(c) PROVE CouponTypes' /\ InputsAreChecked'
  BY <1>1, Reads DEF CouponTypes, ClerkSteps, Issued
<1>2. ASSUME NEW c \in Clerks, InsertCoupon(c) PROVE CouponTypes' /\ InputsAreChecked'
  <2>1. [f \in Fields |-> proposal[c][f]] \in Coupons
    BY <1>2, Proposed, FromTerms DEF InsertCoupon, InputsAreChecked
  <2>2. Issued' \subseteq CouponIds /\ \A i \in Issued' : coupons'[i] \in Coupons
    BY <1>2, <2>1 DEF InsertCoupon, CouponTypes, Issued, CouponIds
  <2> QED BY <1>2, <2>2, Writes DEF InsertCoupon, CouponTypes, ClerkSteps
<1>3. ASSUME NEW c \in Clerks, UpdateCoupon(c) PROVE CouponTypes' /\ InputsAreChecked'
  <2>1. proposal[c] \in Terms /\ proposal[c].id \in CouponIds
    BY Proposed DEF Terms
  <2>2. CASE UNCHANGED <<coupons, haggled, redated>>
    BY <1>3, <2>2, Writes DEF CouponTypes, ClerkSteps, Issued
  <2>3. CASE ~UNCHANGED <<coupons, haggled, redated>>
    <3>1. /\ proposal[c].id \in Issued
          /\ coupons' = [coupons EXCEPT ![proposal[c].id] = Revised(@, proposal[c])]
          /\ haggled' \subseteq haggled \cup {proposal[c].id}
          /\ redated' \subseteq redated \cup {proposal[c].id}
      BY <1>3, <2>3 DEF UpdateCoupon, Halves
    <3>2. Revised(coupons[proposal[c].id], proposal[c]) \in Coupons
      BY <2>1, <3>1, RevisedRow DEF CouponTypes
    <3>3. Issued' = Issued /\ \A i \in Issued' : coupons'[i] \in Coupons
      BY <3>1, <3>2 DEF CouponTypes, Issued
    <3> QED BY <1>3, <2>1, <3>1, <3>3, Writes DEF CouponTypes, ClerkSteps
  <2> QED BY <2>2, <2>3
<1>4. ASSUME NEW c \in Clerks, RemoveCoupon(c) PROVE CouponTypes' /\ InputsAreChecked'
  <2>1. Issued' \subseteq Issued /\ \A i \in Issued' : coupons'[i] = coupons[i]
    BY <1>4 DEF RemoveCoupon, Issued
  <2> QED BY <1>4, <2>1, Writes DEF RemoveCoupon, CouponTypes, ClerkSteps
<1>5. CASE UNCHANGED couponVars
  BY <1>5 DEF couponVars, CouponTypes, Issued, InputsAreChecked, Sound, PercentageInRange,
              EndsAfterStart
<1> QED BY <1>1, <1>2, <1>3, <1>4, <1>5 DEF CouponNext

LEMMA InitCoupons == CouponInit => CouponTypes /\ InputsAreChecked
BY CouponConstants DEF CouponInit, CouponTypes, Issued, CouponIds, InputsAreChecked

(* Every variable keeps its type. *)
THEOREM CouponsTyped == CouponSpec => []CouponTypes
BY InitCoupons, NextCouponTypes, PTL DEF CouponSpec

-----------------------------------------------------------------------------
LEMMA UpdateKeepsSound ==
  ASSUME CouponTypes, InputsAreChecked, CouponsSound, NEW c \in Clerks, UpdateCoupon(c)
  PROVE  CouponsSound'
<1> DEFINE p == proposal[c]
           n == Revised(coupons[p.id], p)
<1>1. CASE UNCHANGED <<coupons, haggled, redated>>
  BY <1>1 DEF CouponsSound, Issued, PercentageInRange, EndsAfterStart
<1>2. CASE ~UNCHANGED <<coupons, haggled, redated>>
  <2>1. /\ p.id \in Issued /\ \A i \in Issued \ {p.id} : coupons[i].code # p.code
        /\ coupons' = [coupons EXCEPT ![p.id] = n]
        /\ haggled' = Halves(haggled, p, "type", "value")
        /\ redated' = Halves(redated, p, "starts", "ends")
        /\ PercentageInRange(p) /\ EndsAfterStart(p)
    BY <1>2 DEF UpdateCoupon, InputsAreChecked, Sound
  <2>2. /\ Issued' = Issued /\ coupons'[p.id] = n
        /\ \A i \in Issued \ {p.id} : coupons'[i] = coupons[i]
    BY <2>1 DEF Issued
  <2>3. n.code \in {p.code, coupons[p.id].code}
    BY DEF Revised, Fields
  <2>4. p.id \notin haggled' => PercentageInRange(n)
    BY <2>1 DEF Halves, CouponsSound, PercentageInRange, Revised, Fields
  <2>5. p.id \notin redated' => EndsAfterStart(n)
    BY <2>1 DEF Halves, CouponsSound, EndsAfterStart, Revised, Fields
  <2>6. haggled \ {p.id} \subseteq haggled' /\ redated \ {p.id} \subseteq redated'
    BY <2>1 DEF Halves
  <2>7. \A i, j \in Issued' : coupons'[i].code = coupons'[j].code => i = j
    BY <2>1, <2>2, <2>3 DEF CouponsSound
  <2>8. \A i \in Issued' \ haggled' : PercentageInRange(coupons[i])'
    BY <2>2, <2>4, <2>6 DEF CouponsSound, PercentageInRange
  <2>9. \A i \in Issued' \ redated' : EndsAfterStart(coupons[i])'
    BY <2>2, <2>5, <2>6 DEF CouponsSound, EndsAfterStart
  <2> QED BY <2>7, <2>8, <2>9 DEF CouponsSound
<1> QED BY <1>1, <1>2

LEMMA InsertKeepsSound ==
  ASSUME CouponTypes, InputsAreChecked, CouponsSound, NEW c \in Clerks, InsertCoupon(c)
  PROVE  CouponsSound'
<1> DEFINE p == proposal[c]
           n == [f \in Fields |-> p[f]]
<1>1. CASE Taken(p.code)
  BY <1>1 DEF InsertCoupon, CouponsSound, Issued, PercentageInRange, EndsAfterStart
<1>2. CASE ~Taken(p.code)
  <2>1. /\ coupons' = [i \in Issued \cup {c} |-> IF i = c THEN n ELSE coupons[i]]
        /\ UNCHANGED <<haggled, redated>>
        /\ PercentageInRange(p) /\ EndsAfterStart(p)
    BY <1>2 DEF InsertCoupon, InputsAreChecked, Sound
  <2>2. /\ Issued' = Issued \cup {c} /\ coupons'[c] = n
        /\ \A i \in Issued \ {c} : coupons'[i] = coupons[i]
    BY <2>1 DEF Issued
  <2>3. n.code = p.code /\ PercentageInRange(n) /\ EndsAfterStart(n)
    BY <2>1 DEF Fields, PercentageInRange, EndsAfterStart
  <2>4. \A i, j \in Issued' : coupons'[i].code = coupons'[j].code => i = j
    BY <1>2, <2>2, <2>3 DEF CouponsSound, Taken
  <2>5. \A i \in Issued' \ haggled' : PercentageInRange(coupons[i])'
    BY <2>1, <2>2, <2>3 DEF CouponsSound, PercentageInRange
  <2>6. \A i \in Issued' \ redated' : EndsAfterStart(coupons[i])'
    BY <2>1, <2>2, <2>3 DEF CouponsSound, EndsAfterStart
  <2> QED BY <2>4, <2>5, <2>6 DEF CouponsSound
<1> QED BY <1>1, <1>2

LEMMA NextSound ==
  CouponTypes /\ InputsAreChecked /\ CouponsSound /\ [CouponNext]_couponVars => CouponsSound'
<1> SUFFICES ASSUME CouponTypes, InputsAreChecked, CouponsSound, [CouponNext]_couponVars
             PROVE  CouponsSound'
  OBVIOUS
<1>1. ASSUME NEW c \in Clerks, LookUp(c) \/ FindCode(c) PROVE CouponsSound'
  BY <1>1, Reads DEF CouponsSound, Issued, PercentageInRange, EndsAfterStart
<1>2. ASSUME NEW c \in Clerks, RemoveCoupon(c) PROVE CouponsSound'
  <2>1. /\ Issued' \subseteq Issued /\ \A i \in Issued' : coupons'[i] = coupons[i]
        /\ UNCHANGED <<haggled, redated>>
    BY <1>2 DEF RemoveCoupon, Issued
  <2> QED BY <2>1 DEF CouponsSound, PercentageInRange, EndsAfterStart
<1>3. CASE UNCHANGED couponVars
  BY <1>3 DEF couponVars, CouponsSound, Issued, PercentageInRange, EndsAfterStart
<1> QED BY <1>1, <1>2, <1>3, InsertKeepsSound, UpdateKeepsSound DEF CouponNext

(* A code names one coupon however createCoupon, updateCoupon and deleteCoupon overlap,   *)
(* and a coupon is what createCoupon asks for unless an update has set one of two fields *)
(* that are only right together.                                                         *)
THEOREM CouponsStaySound == CouponSpec => []CouponsSound
<1>1. CouponInit => CouponsSound
  BY CouponConstants DEF CouponInit, CouponsSound, Issued
<1> QED BY <1>1, InitCoupons, NextCouponTypes, NextSound, PTL DEF CouponSpec

-----------------------------------------------------------------------------
(* Reminders: what a cart is sent, for any carts, passes and failures. *)
LEMMA InitReminder == ReminderInit => ReminderTypes
BY ReminderConstants DEF ReminderInit, ReminderTypes

(* What the steps of one pass leave alone *)
Others(p) ==
  \A q \in Passes \ {p} :
    pass'[q] = pass[q] /\ listed'[q] = listed[q] /\ current'[q] = current[q]

LEMMA Tallies ==
  ASSUME ReminderTypes
  PROVE  /\ \A ks : Slip(ks) => /\ slips' \in [Abandoned -> Nat]
                                /\ \A k \in ks \cap Abandoned : slips'[k] = slips[k] + 1
                                /\ \A k \in Abandoned \ ks : slips'[k] = slips[k]
         /\ \A p \in Passes : Mailed(p) =>
              /\ mails' \in [Abandoned -> Nat]
              /\ \A k \in current[p] \cap Abandoned : mails'[k] = mails[k] + 1
              /\ \A k \in Abandoned \ current[p] : mails'[k] = mails[k]
         /\ Fails => failed' \in 0 .. MaxSlips
<1>1. /\ mails \in [Abandoned -> Nat] /\ slips \in [Abandoned -> Nat]
      /\ failed \in 0 .. MaxSlips /\ MaxSlips \in Nat
  BY ReminderConstants DEF ReminderTypes
<1>2. Fails => failed' \in 0 .. MaxSlips  BY <1>1 DEF Fails
<1>3. ASSUME NEW ks, Slip(ks)
      PROVE  /\ slips' \in [Abandoned -> Nat]
             /\ \A k \in ks \cap Abandoned : slips'[k] = slips[k] + 1
             /\ \A k \in Abandoned \ ks : slips'[k] = slips[k]
  BY <1>1, <1>3 DEF Slip
<1>4. ASSUME NEW p \in Passes, Mailed(p)
      PROVE  /\ mails' \in [Abandoned -> Nat]
             /\ \A k \in current[p] \cap Abandoned : mails'[k] = mails[k] + 1
             /\ \A k \in Abandoned \ current[p] : mails'[k] = mails[k]
  BY <1>1, <1>4 DEF Mailed
<1> QED BY <1>2, <1>3, <1>4

(* Each step of a pass, with the cart it is about *)
LEMMA PassSteps ==
  ASSUME ReminderTypes, NEW p \in Passes
  PROVE  /\ BeginPass(p) =>
              /\ Others(p) /\ pass[p] = "idle" /\ pass'[p] = "looping"
              /\ listed'[p] = Abandoned \ reminded /\ current'[p] = current[p]
         /\ NextCart(p) =>
              /\ Others(p) /\ pass[p] = "looping"
              /\ UNCHANGED <<reminded, failed, mails, slips>>
              /\ \/ pass'[p] = "over" /\ listed'[p] = {} /\ listed[p] = {}
                    /\ current'[p] = current[p]
                 \/ \E k \in listed[p] :
                      /\ listed'[p] = listed[p] \ {k}
                      /\ \/ k \in Mailable /\ pass'[p] = "sending" /\ current'[p] = {k}
                         \/ pass'[p] = pass[p] /\ current'[p] = current[p]
         /\ SendMail(p) =>
              /\ Others(p) /\ pass[p] = "sending" /\ pass'[p] = "marking"
              /\ listed'[p] = listed[p] /\ current'[p] = current[p]
         /\ MarkReminded(p) \/ SendFails(p) \/ MarkFails(p) =>
              /\ Others(p) /\ pass[p] \in {"sending", "marking"} /\ pass'[p] = "looping"
              /\ listed'[p] = listed[p] /\ current'[p] = {}
<1>1. ASSUME NEW s, Move(p, s)
      PROVE  pass'[p] = s /\ \A q \in Passes \ {p} : pass'[q] = pass[q]
  BY <1>1 DEF Move, ReminderTypes
<1>2. LetGo(p) => current'[p] = {} /\ \A q \in Passes \ {p} : current'[q] = current[q]
  BY DEF LetGo, ReminderTypes
<1>3. BeginPass(p) =>
        /\ Others(p) /\ pass[p] = "idle" /\ pass'[p] = "looping"
        /\ listed'[p] = Abandoned \ reminded /\ current'[p] = current[p]
  BY <1>1 DEF BeginPass, Others, ReminderTypes
<1>4. ASSUME NextCart(p)
      PROVE  /\ Others(p) /\ pass[p] = "looping"
             /\ UNCHANGED <<reminded, failed, mails, slips>>
             /\ \/ pass'[p] = "over" /\ listed'[p] = {} /\ listed[p] = {}
                   /\ current'[p] = current[p]
                \/ \E k \in listed[p] :
                     /\ listed'[p] = listed[p] \ {k}
                     /\ \/ k \in Mailable /\ pass'[p] = "sending" /\ current'[p] = {k}
                        \/ pass'[p] = pass[p] /\ current'[p] = current[p]
  <2>1. pass[p] = "looping" /\ UNCHANGED <<reminded, failed, mails, slips>>
    BY <1>4 DEF NextCart
  <2>2. CASE listed[p] = {}
    <3>1. Move(p, "over") /\ UNCHANGED <<listed, current>>  BY <1>4, <2>2 DEF NextCart
    <3> QED BY <1>1, <2>1, <2>2, <3>1 DEF Others
  <2>3. CASE listed[p] # {}
    <3>1. PICK k \in listed[p] :
            /\ listed' = [listed EXCEPT ![p] = @ \ {k}]
            /\ IF k \in Mailable
               THEN Move(p, "sending") /\ current' = [current EXCEPT ![p] = {k}]
               ELSE UNCHANGED <<pass, current>>
      BY <1>4, <2>3 DEF NextCart
    <3>2. listed'[p] = listed[p] \ {k} /\ \A q \in Passes \ {p} : listed'[q] = listed[q]
      BY <3>1 DEF ReminderTypes
    <3>3. CASE k \in Mailable
      <4>1. current'[p] = {k} /\ \A q \in Passes \ {p} : current'[q] = current[q]
        BY <3>1, <3>3 DEF ReminderTypes
      <4> QED BY <1>1, <2>1, <3>1, <3>2, <3>3, <4>1 DEF Others
    <3>4. CASE k \notin Mailable  BY <2>1, <3>1, <3>2, <3>4 DEF Others
    <3> QED BY <3>3, <3>4
  <2> QED BY <2>2, <2>3
<1>5. SendMail(p) =>
        /\ Others(p) /\ pass[p] = "sending" /\ pass'[p] = "marking"
        /\ listed'[p] = listed[p] /\ current'[p] = current[p]
  BY <1>1 DEF SendMail, Others
<1>6. MarkReminded(p) \/ SendFails(p) \/ MarkFails(p) =>
        /\ Others(p) /\ pass[p] \in {"sending", "marking"} /\ pass'[p] = "looping"
        /\ listed'[p] = listed[p] /\ current'[p] = {}
  BY <1>1, <1>2 DEF MarkReminded, SendFails, MarkFails, Others
<1> QED BY <1>3, <1>4, <1>5, <1>6

LEMMA NextReminderTypes == ReminderTypes /\ [ReminderNext]_reminderVars => ReminderTypes'
<1> SUFFICES ASSUME ReminderTypes, [ReminderNext]_reminderVars PROVE ReminderTypes'
  OBVIOUS
<1> DEFINE Places == {"idle", "looping", "sending", "marking", "over"}
<1>1. ASSUME NEW p \in Passes,
             BeginPass(p) \/ NextCart(p) \/ SendMail(p) \/ MarkReminded(p)
               \/ SendFails(p) \/ MarkFails(p)
      PROVE  /\ DOMAIN pass' = Passes /\ DOMAIN listed' = Passes /\ DOMAIN current' = Passes
             /\ pass' = [q \in Passes |-> pass'[q]]
             /\ listed' = [q \in Passes |-> listed'[q]]
             /\ current' = [q \in Passes |-> current'[q]]
  BY <1>1 DEF BeginPass, NextCart, SendMail, MarkReminded, SendFails, MarkFails, Move, LetGo,
              ReminderTypes
<1>2. ASSUME NEW p \in Passes,
             BeginPass(p) \/ NextCart(p) \/ SendMail(p) \/ MarkReminded(p)
               \/ SendFails(p) \/ MarkFails(p)
      PROVE  /\ pass' \in [Passes -> Places]
             /\ listed' \in [Passes -> SUBSET Abandoned]
             /\ current' \in [Passes -> SUBSET Mailable]
             /\ \A q \in Passes : current'[q] # {} <=> pass'[q] \in {"sending", "marking"}
  <2>1. /\ Others(p) /\ pass'[p] \in Places
        /\ listed'[p] \in SUBSET Abandoned /\ current'[p] \in SUBSET Mailable
        /\ current'[p] # {} <=> pass'[p] \in {"sending", "marking"}
    <3>1. CASE NextCart(p)
      BY <3>1, PassSteps, ReminderConstants DEF ReminderTypes
    <3>2. CASE ~NextCart(p)
      BY <1>2, <3>2, PassSteps DEF ReminderTypes
    <3> QED BY <3>1, <3>2
  <2>2. \A q \in Passes : /\ pass'[q] \in Places
                          /\ listed'[q] \in SUBSET Abandoned /\ current'[q] \in SUBSET Mailable
                          /\ current'[q] # {} <=> pass'[q] \in {"sending", "marking"}
    BY <2>1 DEF Others, ReminderTypes
  <2> QED BY <1>1, <1>2, <2>2
<1>3. ASSUME NEW p \in Passes,
             BeginPass(p) \/ NextCart(p) \/ SendMail(p) \/ MarkReminded(p)
               \/ SendFails(p) \/ MarkFails(p)
      PROVE  /\ reminded' \subseteq Mailable /\ failed' \in 0 .. MaxSlips
             /\ mails' \in [Abandoned -> Nat] /\ slips' \in [Abandoned -> Nat]
  BY <1>3, Tallies DEF BeginPass, NextCart, SendMail, MarkReminded, SendFails, MarkFails,
                       ReminderTypes
<1>4. CASE RestartJob
  BY <1>4, Tallies DEF RestartJob, ReminderTypes
<1>5. CASE UNCHANGED reminderVars
  BY <1>5 DEF reminderVars, ReminderTypes
<1> HIDE DEF Places
<1>6. ASSUME NEW p \in Passes,
             BeginPass(p) \/ NextCart(p) \/ SendMail(p) \/ MarkReminded(p)
               \/ SendFails(p) \/ MarkFails(p)
      PROVE  ReminderTypes'
  BY <1>2, <1>3, <1>6 DEF ReminderTypes, Places
<1> QED BY <1>4, <1>5, <1>6 DEF ReminderNext

(* Every variable keeps its type; a pass has a cart while it sends or records. *)
THEOREM RemindersTyped == ReminderSpec => []ReminderTypes
BY InitReminder, NextReminderTypes, PTL DEF ReminderSpec

-----------------------------------------------------------------------------
(* Who has still to come to a cart, or to send its mail *)
Waits(p, k) == k \in listed[p] \/ (k \in current[p] /\ pass[p] = "sending")
Pending(k) == {p \in Passes : Waits(p, k)}
Held(k) == \E p \in Passes : k \in listed[p] \cup current[p]

(* Each mail to come is allowed for, and one more if nobody has the cart. *)
Allowed(k) ==
  /\ mails[k] + Cardinality(Pending(k)) <= 1 + slips[k]
  /\ k \in reminded => mails[k] > 0
  /\ k \notin reminded /\ ~Held(k) => mails[k] <= slips[k]

RemindedInv ==
  /\ \A p \in Passes : /\ listed[p] \cap current[p] = {}
                       /\ pass[p] = "marking" => \A k \in current[p] : mails[k] > 0
  /\ \A k \in Abandoned : Allowed(k)

One(b) == IF b THEN 1 ELSE 0

LEMMA CountOneOut ==
  ASSUME NEW S, NEW T, NEW p, IsFiniteSet(S), S \ {p} = T \ {p}
  PROVE  /\ Cardinality(S) \in Nat /\ Cardinality(T) \in Nat
         /\ Cardinality(T) + One(p \in S) = Cardinality(S) + One(p \in T)
         /\ Cardinality(S) >= One(p \in S)
<1> DEFINE R == S \ {p}
<1>1. IsFiniteSet(R) /\ Cardinality(R) \in Nat
  BY FS_RemoveElement, FS_CardinalityType
<1>2. p \notin R /\ Cardinality(R \cup {p}) = Cardinality(R) + 1
  BY <1>1, FS_AddElement
<1>3. /\ p \in S => S = R \cup {p}
      /\ p \in T => T = R \cup {p}
      /\ p \notin S => S = R
      /\ p \notin T => T = R
  OBVIOUS
<1> HIDE DEF R
<1>4. Cardinality(S) = Cardinality(R) + One(p \in S)
  <2>1. CASE p \in S  BY <1>1, <1>2, <1>3, <2>1 DEF One
  <2>2. CASE p \notin S  BY <1>1, <1>3, <2>2 DEF One
  <2> QED BY <2>1, <2>2
<1>5. Cardinality(T) = Cardinality(R) + One(p \in T)
  <2>1. CASE p \in T  BY <1>1, <1>2, <1>3, <2>1 DEF One
  <2>2. CASE p \notin T  BY <1>1, <1>3, <2>2 DEF One
  <2> QED BY <2>1, <2>2
<1> QED BY <1>1, <1>4, <1>5 DEF One

(* What a step of p takes from the allowance of a cart *)
Spent(p, k) ==
  (mails'[k] - mails[k]) - (slips'[k] - slips[k]) - One(Waits(p, k))

LEMMA OneMoves ==
  ASSUME ReminderTypes, ReminderTypes', NEW p \in Passes, Others(p),
         NEW k \in Abandoned, Allowed(k),
         \/ Spent(p, k) + One(Waits(p, k)') <= 0
         \/ mails'[k] = mails[k] /\ slips'[k] = slips[k] /\ k \notin reminded /\ ~Held(k),
         k \in reminded => k \in reminded',
         k \in reminded' => mails'[k] > 0,
         \/ k \in reminded' \cup listed'[p] \cup current'[p]
         \/ k \notin listed[p] \cup current[p] /\ Spent(p, k) <= 0
         \/ Spent(p, k) + 1 <= 0
  PROVE  Allowed(k)'
<1>1. /\ mails[k] \in Nat /\ slips[k] \in Nat /\ mails'[k] \in Nat /\ slips'[k] \in Nat
  BY DEF ReminderTypes
<1>2. IsFiniteSet(Pending(k))
  BY ReminderConstants, FS_Subset DEF Pending
<1>3. Pending(k) \ {p} = Pending(k)' \ {p}
  BY DEF Pending, Waits, Others
<1>4. (p \in Pending(k) <=> Waits(p, k)) /\ (p \in Pending(k)' <=> Waits(p, k)')
  BY DEF Pending
<1> DEFINE n == Cardinality(Pending(k))
           m == Cardinality(Pending(k)')
           w == One(Waits(p, k))
           v == One(Waits(p, k)')
<1>5. /\ n \in Nat /\ m \in Nat /\ m + w = n + v /\ n >= w
      /\ w \in {0, 1} /\ v \in {0, 1}
  <2>1. One(p \in Pending(k)) = w /\ One(p \in Pending(k)') = v  BY <1>4 DEF One
  <2>2. w \in {0, 1} /\ v \in {0, 1}  BY DEF One
  <2> QED BY <1>2, <1>3, <2>1, <2>2, CountOneOut
<1>6. ~Held(k) => n = 0
  <2>1. ~Held(k) => Pending(k) = {}  BY DEF Held, Pending, Waits
  <2> QED BY <2>1, FS_EmptySet
<1>7. mails[k] + n <= 1 + slips[k] /\ (k \in reminded => mails[k] > 0)
      /\ (k \notin reminded /\ ~Held(k) => mails[k] <= slips[k])
  BY DEF Allowed
<1>8. Spent(p, k) = (mails'[k] - mails[k]) - (slips'[k] - slips[k]) - w
  BY DEF Spent
<1>9. mails'[k] + m <= 1 + slips'[k]
  <2>1. CASE Spent(p, k) + v <= 0
    <3> HIDE DEF n, m, w, v
    <3> QED BY <1>1, <1>5, <1>7, <1>8, <2>1
  <2>2. CASE mails'[k] = mails[k] /\ slips'[k] = slips[k] /\ k \notin reminded /\ ~Held(k)
    <3> HIDE DEF n, m, w, v
    <3> QED BY <1>1, <1>5, <1>6, <1>7, <2>2
  <2> QED BY <2>1, <2>2
<1>10. ASSUME k \notin reminded', ~Held(k)' PROVE mails'[k] <= slips'[k]
  <2>1. k \notin reminded /\ k \notin listed'[p] \cup current'[p]  BY <1>10 DEF Held
  <2>2. CASE k \notin listed[p] \cup current[p] /\ Spent(p, k) <= 0
    <3>1. ~Held(k) /\ w = 0  BY <1>10, <2>2 DEF Held, Others, One, Waits
    <3> HIDE DEF n, m, w, v
    <3> QED BY <1>1, <1>7, <1>8, <2>1, <2>2, <3>1
  <2>3. CASE Spent(p, k) + 1 <= 0
    <3> HIDE DEF n, m, w, v
    <3> QED BY <1>1, <1>5, <1>7, <1>8, <2>3
  <2> QED BY <1>10, <2>1, <2>2, <2>3
<1> QED BY <1>9, <1>10 DEF Allowed

LEMMA NextReminded ==
  ReminderTypes /\ ReminderTypes' /\ RemindedInv /\ [ReminderNext]_reminderVars => RemindedInv'
<1> SUFFICES ASSUME ReminderTypes, ReminderTypes', RemindedInv, [ReminderNext]_reminderVars
             PROVE  RemindedInv'
  OBVIOUS
<1>1. /\ \A k \in Abandoned : /\ mails[k] \in Nat /\ slips[k] \in Nat
                              /\ mails'[k] \in Nat /\ slips'[k] \in Nat
                              /\ Allowed(k)
      /\ \A p \in Passes : /\ listed[p] \cap current[p] = {} /\ current[p] \subseteq Abandoned
                           /\ listed[p] \subseteq Abandoned
  BY ReminderConstants DEF ReminderTypes, RemindedInv
<1> DEFINE Apart(p) == listed[p] \cap current[p] = {}
           Sent(p) == pass[p] = "marking" => \A k \in current[p] : mails[k] > 0
<1>2. ASSUME NEW p \in Passes, Others(p), Apart(p)', Sent(p)',
             \A k \in Abandoned : mails[k] > 0 => mails'[k] > 0
      PROVE  \A q \in Passes : Apart(q)' /\ Sent(q)'
  <2> SUFFICES ASSUME NEW q \in Passes \ {p} PROVE Apart(q)' /\ Sent(q)'
    BY <1>2
  <2>1. pass'[q] = pass[q] /\ listed'[q] = listed[q] /\ current'[q] = current[q]
    BY <1>2 DEF Others
  <2>2. Apart(q) /\ Sent(q)  BY DEF RemindedInv
  <2> QED BY <1>1, <1>2, <2>1, <2>2
<1>3. ASSUME NEW p \in Passes, Others(p), Apart(p)', Sent(p)',
             \A k \in Abandoned :
               /\ mails[k] > 0 => mails'[k] > 0
               /\ \/ Spent(p, k) + One(Waits(p, k)') <= 0
                  \/ mails'[k] = mails[k] /\ slips'[k] = slips[k]
                     /\ k \notin reminded /\ ~Held(k)
               /\ k \in reminded => k \in reminded'
               /\ k \in reminded' => mails'[k] > 0
               /\ \/ k \in reminded' \cup listed'[p] \cup current'[p]
                  \/ k \notin listed[p] \cup current[p] /\ Spent(p, k) <= 0
                  \/ Spent(p, k) + 1 <= 0
      PROVE  RemindedInv'
  <2>1. \A k \in Abandoned : Allowed(k)'  BY <1>1, <1>3, OneMoves
  <2>2. \A q \in Passes : Apart(q)' /\ Sent(q)'  BY <1>2, <1>3
  <2> QED BY <2>1, <2>2 DEF RemindedInv
<1>4. \A p \in Passes : Apart(p) /\ Sent(p)  BY DEF RemindedInv
<1>5. ASSUME NEW p \in Passes, BeginPass(p) PROVE RemindedInv'
  <2>1. /\ Others(p) /\ pass'[p] = "looping" /\ current'[p] = {} /\ current[p] = {}
        /\ listed'[p] = Abandoned \ reminded /\ reminded' = reminded /\ mails' = mails
    BY <1>5, PassSteps DEF BeginPass, ReminderTypes
  <2>2. ASSUME NEW k \in Abandoned
        PROVE  slips'[k] = slips[k] + One(Held(k) /\ k \notin reminded)
    <3>1. Slip((UNION {listed[q] \cup current[q] : q \in Passes}) \ reminded)
      BY <1>5 DEF BeginPass
    <3>2. k \in UNION {listed[q] \cup current[q] : q \in Passes} <=> Held(k)  BY DEF Held
    <3>3. k \in (UNION {listed[q] \cup current[q] : q \in Passes}) \ reminded
            <=> Held(k) /\ k \notin reminded
      BY <3>2
    <3> QED BY <1>1, <3>1, <3>3, Tallies DEF One
  <2>3. ASSUME NEW k \in Abandoned
        PROVE  /\ \/ Spent(p, k) + One(Waits(p, k)') <= 0
                  \/ mails'[k] = mails[k] /\ slips'[k] = slips[k]
                     /\ k \notin reminded /\ ~Held(k)
               /\ \/ k \in reminded' \cup listed'[p] \cup current'[p]
                  \/ Spent(p, k) + 1 <= 0
    <3>1. Waits(p, k)' => k \notin reminded  BY <2>1 DEF Waits
    <3>2. k \in reminded' \cup listed'[p]  BY <2>1
    <3>3. Spent(p, k) = 0 - One(Held(k) /\ k \notin reminded) - One(Waits(p, k))
      BY <1>1, <2>1, <2>2 DEF Spent, One
    <3>4. CASE Held(k) \/ k \in reminded  BY <3>1, <3>2, <3>3, <3>4 DEF One
    <3>5. CASE ~Held(k) /\ k \notin reminded  BY <1>1, <2>1, <2>2, <3>2, <3>5 DEF One
    <3> QED BY <3>4, <3>5
  <2>4. \A k \in Abandoned : k \in reminded => mails'[k] > 0
    BY <1>1, <2>1 DEF Allowed
  <2> QED BY <1>3, <2>1, <2>3, <2>4
<1>6. ASSUME NEW p \in Passes, NextCart(p) PROVE RemindedInv'
  <2>1. /\ Others(p) /\ pass[p] = "looping" /\ current[p] = {}
        /\ UNCHANGED <<reminded, failed, mails, slips>>
        /\ \/ pass'[p] = "over" /\ listed'[p] = {} /\ listed[p] = {}
              /\ current'[p] = current[p]
           \/ \E k \in listed[p] :
                /\ listed'[p] = listed[p] \ {k}
                /\ \/ k \in Mailable /\ pass'[p] = "sending" /\ current'[p] = {k}
                   \/ pass'[p] = pass[p] /\ current'[p] = current[p]
    BY <1>6, PassSteps DEF ReminderTypes
  <2>2. Apart(p)' /\ Sent(p)'  BY <1>1, <2>1
  <2>3. ASSUME NEW k \in Abandoned
        PROVE  /\ Waits(p, k)' => Waits(p, k)
               /\ \/ k \in listed'[p] \cup current'[p]
                  \/ k \notin listed[p] \cup current[p]
                  \/ Waits(p, k)
    BY <2>1 DEF Waits
  <2>4. ASSUME NEW k \in Abandoned
        PROVE  Spent(p, k) = 0 - One(Waits(p, k)) /\ mails'[k] = mails[k]
    BY <1>1, <2>1 DEF Spent, One
  <2>5. ASSUME NEW k \in Abandoned
        PROVE  /\ Spent(p, k) + One(Waits(p, k)') <= 0
               /\ \/ k \in reminded' \cup listed'[p] \cup current'[p]
                  \/ k \notin listed[p] \cup current[p] /\ Spent(p, k) <= 0
                  \/ Spent(p, k) + 1 <= 0
    BY <2>3, <2>4 DEF One
  <2>6. \A k \in Abandoned : k \in reminded => mails'[k] > 0
    BY <1>1, <2>1 DEF Allowed
  <2> QED BY <1>3, <2>1, <2>2, <2>4, <2>5, <2>6
<1>7. ASSUME NEW p \in Passes, SendMail(p) PROVE RemindedInv'
  <2>1. /\ Others(p) /\ pass[p] = "sending" /\ pass'[p] = "marking"
        /\ listed'[p] = listed[p] /\ current'[p] = current[p]
        /\ reminded' = reminded /\ slips' = slips
        /\ \A k \in current[p] : mails'[k] = mails[k] + 1
        /\ \A k \in Abandoned \ current[p] : mails'[k] = mails[k]
    BY <1>1, <1>7, PassSteps, Tallies DEF SendMail
  <2>2. Apart(p)' /\ Sent(p)'  BY <1>1, <2>1
  <2>3. ASSUME NEW k \in Abandoned
        PROVE  /\ Spent(p, k) + One(Waits(p, k)') <= 0
               /\ \/ k \in listed'[p] \cup current'[p]
                  \/ k \notin listed[p] \cup current[p] /\ Spent(p, k) <= 0
    <3>1. CASE k \in current[p]
      <4>1. Waits(p, k) /\ ~Waits(p, k)'  BY <1>1, <2>1, <3>1 DEF Waits
      <4> QED BY <1>1, <2>1, <3>1, <4>1 DEF Spent, One
    <3>2. CASE k \notin current[p]
      <4>1. Waits(p, k) <=> Waits(p, k)'  BY <2>1, <3>2 DEF Waits
      <4> QED BY <1>1, <2>1, <3>2, <4>1 DEF Spent, One
    <3> QED BY <3>1, <3>2
  <2>4. \A k \in Abandoned : k \in reminded => mails'[k] > 0
    BY <1>1, <2>1 DEF Allowed
  <2>5. \A k \in Abandoned : mails[k] > 0 => mails'[k] > 0  BY <1>1, <2>1
  <2> QED BY <1>3, <2>1, <2>2, <2>3, <2>4, <2>5
<1>8. ASSUME NEW p \in Passes, MarkReminded(p) \/ SendFails(p) \/ MarkFails(p)
      PROVE  RemindedInv'
  <2>1. /\ Others(p) /\ pass[p] \in {"sending", "marking"} /\ pass'[p] = "looping"
        /\ listed'[p] = listed[p] /\ current'[p] = {}
    BY <1>8, PassSteps
  <2>2. \A k \in Abandoned :
          IF k \in current[p]
          THEN \/ /\ pass[p] = "marking" /\ mails'[k] = mails[k]
                  /\ \/ k \in reminded' /\ slips'[k] = slips[k]
                     \/ slips'[k] = slips[k] + 1
               \/ /\ pass[p] = "sending"
                  /\ \/ mails'[k] = mails[k] /\ slips'[k] = slips[k]
                     \/ mails'[k] = mails[k] + 1 /\ slips'[k] = slips[k] + 1
          ELSE mails'[k] = mails[k] /\ slips'[k] = slips[k]
    <3>1. CASE MarkReminded(p)  BY <3>1 DEF MarkReminded
    <3>2. CASE SendFails(p)  BY <3>2, Tallies DEF SendFails
    <3>3. CASE MarkFails(p)  BY <3>3, Tallies DEF MarkFails
    <3> QED BY <1>8, <3>1, <3>2, <3>3
  <2>3. /\ reminded \subseteq reminded'
        /\ reminded' \subseteq reminded \cup current[p]
        /\ pass[p] = "sending" => reminded' = reminded
    BY <1>8 DEF MarkReminded, SendFails, MarkFails
  <2>4. \A k \in Abandoned : mails[k] > 0 => mails'[k] > 0  BY <1>1, <2>2
  <2>5. \A k \in Abandoned : k \in reminded' => mails'[k] > 0
    BY <1>1, <1>4, <2>1, <2>3, <2>4 DEF Allowed
  <2>6. ASSUME NEW k \in Abandoned
        PROVE  /\ Spent(p, k) + One(Waits(p, k)') <= 0
               /\ \/ k \in reminded' \cup listed'[p]
                  \/ k \notin listed[p] \cup current[p] /\ Spent(p, k) <= 0
                  \/ Spent(p, k) + 1 <= 0
    <3>1. Waits(p, k)' <=> k \in listed[p]  BY <2>1 DEF Waits
    <3>2. CASE k \notin current[p]
      <4>1. Waits(p, k) <=> k \in listed[p]  BY <3>2 DEF Waits
      <4> QED BY <1>1, <2>1, <2>2, <3>1, <3>2, <4>1 DEF Spent, One
    <3>3. CASE k \in current[p]
      <4>1. ~Waits(p, k)' /\ (Waits(p, k) <=> pass[p] = "sending")
        BY <1>1, <3>1, <3>3 DEF Waits
      <4> QED BY <1>1, <2>2, <3>3, <4>1 DEF Spent, One
    <3> QED BY <3>2, <3>3
  <2> QED BY <1>3, <2>1, <2>3, <2>4, <2>5, <2>6
<1>9. CASE RestartJob
  <2>1. /\ reminded' = reminded /\ mails' = mails
        /\ \A q \in Passes : /\ listed'[q] = {} /\ current'[q] = {}
                             /\ pass'[q] \in {"idle", "over"}
    BY <1>9 DEF RestartJob
  <2>2. \A k \in Abandoned :
          slips'[k] = slips[k] + One(\E q \in Passes : pass[q] = "marking" /\ k \in current[q])
    BY <1>9, Tallies DEF RestartJob, One
  <2>3. ASSUME NEW k \in Abandoned PROVE Allowed(k)'
    <3>1. Pending(k)' = {}  BY <2>1 DEF Pending, Waits
    <3>2. Cardinality(Pending(k)') = 0  BY <3>1, FS_EmptySet
    <3>3. Cardinality(Pending(k)) \in Nat
          /\ (Pending(k) # {} => Cardinality(Pending(k)) >= 1)
      <4>1. IsFiniteSet(Pending(k))  BY ReminderConstants, FS_Subset DEF Pending
      <4>2. Cardinality(Pending(k)) \in Nat
            /\ (Cardinality(Pending(k)) = 0 <=> Pending(k) = {})
        BY <4>1, FS_EmptySet, FS_CardinalityType
      <4> QED BY <4>2
    <3>4. slips'[k] = slips[k] \/ slips'[k] = slips[k] + 1  BY <1>1, <2>2 DEF One
    <3>5. mails[k] + Cardinality(Pending(k)) <= 1 + slips[k]
          /\ (k \in reminded => mails[k] > 0)
          /\ (k \notin reminded /\ ~Held(k) => mails[k] <= slips[k])
      BY <1>1 DEF Allowed
    <3>6. k \notin reminded => mails[k] <= slips'[k]
      <4>1. CASE Pending(k) # {}  BY <1>1, <3>3, <3>4, <3>5, <4>1
      <4>2. CASE \E q \in Passes : pass[q] = "marking" /\ k \in current[q]
        BY <1>1, <2>2, <3>3, <3>5, <4>2 DEF One
      <4>3. CASE ~Held(k)  BY <1>1, <3>4, <3>5, <4>3
      <4>4. Held(k) => \/ Pending(k) # {}
                       \/ \E q \in Passes : pass[q] = "marking" /\ k \in current[q]
        BY DEF Held, Pending, Waits, ReminderTypes
      <4> QED BY <4>1, <4>2, <4>3, <4>4
    <3>7. mails'[k] + Cardinality(Pending(k)') <= 1 + slips'[k]
      BY <1>1, <2>1, <3>2, <3>3, <3>4, <3>5
    <3> QED BY <2>1, <3>5, <3>6, <3>7 DEF Allowed
  <2> QED BY <2>1, <2>3 DEF RemindedInv
<1>10. CASE UNCHANGED reminderVars
  BY <1>10 DEF reminderVars, RemindedInv, Allowed, Pending, Waits, Held
<1> QED BY <1>5, <1>6, <1>7, <1>8, <1>9, <1>10 DEF ReminderNext

LEMMA InitReminded == ReminderInit => RemindedInv
<1> SUFFICES ASSUME ReminderInit PROVE RemindedInv  OBVIOUS
<1>1. \A k \in Abandoned : Pending(k) = {}  BY DEF ReminderInit, Pending, Waits
<1>2. \A k \in Abandoned : Cardinality(Pending(k)) = 0  BY <1>1, FS_EmptySet
<1> QED BY <1>2 DEF ReminderInit, RemindedInv, Allowed

(* A cart is reminded once, and once more for each mail that was not recorded and each *)
(* listing by two passes together; what is recorded was sent.                          *)
THEOREM CartsAreRemindedOnce == ReminderSpec => []RemindedOnce
<1>1. ReminderTypes /\ RemindedInv => RemindedOnce
  <2> SUFFICES ASSUME ReminderTypes, RemindedInv, NEW k \in Abandoned
               PROVE  mails[k] <= 1 + slips[k] /\ (k \in reminded => mails[k] > 0)
    BY DEF RemindedOnce
  <2>1. Cardinality(Pending(k)) \in Nat
    <3>1. IsFiniteSet(Pending(k))  BY ReminderConstants, FS_Subset DEF Pending
    <3> QED BY <3>1, FS_CardinalityType
  <2>2. /\ mails[k] \in Nat /\ slips[k] \in Nat
        /\ mails[k] + Cardinality(Pending(k)) <= 1 + slips[k]
        /\ k \in reminded => mails[k] > 0
    BY DEF ReminderTypes, RemindedInv, Allowed
  <2> QED BY <2>1, <2>2
<1> QED BY <1>1, InitReminder, InitReminded, NextReminderTypes, NextReminded, PTL
        DEF ReminderSpec

-----------------------------------------------------------------------------
(* Categories: what a walk up the tree has seen, for any tree, editors and plans. *)
LEMMA InitTree == TreeInit => TreeTypes
BY CategoryConstants DEF TreeInit, TreeTypes, There

LEMMA TurnTypes ==
  ASSUME TreeTypes, NEW e \in Editors, NEW s, Turn(e, s)
  PROVE  /\ at'[e] = s /\ \A d \in Editors \ {e} : at'[d] = at[d]
         /\ DOMAIN at' = Editors
         /\ s \in {"walking", "writing", "orphaning", "deleting", "refused", "ended"} =>
              at' \in [Editors -> {"idle", "walking", "writing", "orphaning", "deleting",
                                   "refused", "ended"}]
BY DEF TreeTypes, Turn

LEMMA Planned ==
  ASSUME TreeTypes, NEW e \in Editors
  PROVE  /\ plan[e].op \in {"create", "move", "delete"} /\ plan[e].node \in Nodes
         /\ plan[e].under \in Nodes \cup {Root}
BY CategoryConstants DEF TreeTypes, Edits

(* What a lookup and a visit find *)
LEMMA Looks ==
  ASSUME TreeTypes, NEW e \in Editors, Look(e)
  PROVE  /\ UNCHANGED <<plan, parent, stirred>> /\ at[e] = "idle"
         /\ \/ /\ Turn(e, "walking") /\ todo' = [todo EXCEPT ![e] = {plan[e].under}]
               /\ plan[e].under \in There /\ plan[e].under # plan[e].node
               /\ plan[e].op = "move"
            \/ /\ \E s \in {"ended", "orphaning", "writing"} : Turn(e, s)
               /\ todo' = todo
BY DEF Look, ParentFound

LEMMA Visits ==
  ASSUME TreeTypes, NEW e \in Editors, Visit(e)
  PROVE  /\ UNCHANGED <<plan, parent, stirred>> /\ at[e] = "walking"
         /\ \E n \in todo[e] :
              \/ /\ plan[e].node \in Children(n)
                 /\ Turn(e, "refused") /\ todo' = todo
              \/ /\ plan[e].node \notin Children(n)
                 /\ todo' = [todo EXCEPT ![e] = (todo[e] \ {n}) \cup Children(n)]
                 /\ \/ Turn(e, "walking")
                    \/ Turn(e, "writing") /\ (todo[e] \ {n}) \cup Children(n) = {}
BY DEF Visit

LEMMA Replants ==
  ASSUME TreeTypes, NEW e \in Editors, WriteParent(e) \/ Orphan(e) \/ Remove(e)
  PROVE  /\ UNCHANGED <<plan, todo>> /\ at[e] # "walking"
         /\ \E s \in {"ended", "deleting"} : Turn(e, s)
         /\ There' \subseteq Nodes /\ parent' \in [There' -> There' \cup {Root}]
         /\ stirred \subseteq stirred' /\ stirred' \subseteq Editors
         /\ parent' = parent \/ stirred' = stirred \cup Walking
<1>1. /\ There \subseteq Nodes /\ parent \in [There -> There \cup {Root}]
      /\ stirred \subseteq Editors /\ Walking \subseteq Editors
      /\ plan[e].node \in Nodes
  BY Planned DEF TreeTypes, Walking
<1>2. CASE WriteParent(e)
  <2>1. CASE UNCHANGED <<parent, stirred>>
    BY <1>1, <1>2, <2>1 DEF WriteParent, There
  <2>2. CASE ~UNCHANGED <<parent, stirred>>
    <3> DEFINE new == [n \in There \cup {plan[e].node} |->
                         IF n = plan[e].node THEN plan[e].under ELSE parent[n]]
    <3>1. /\ parent' = new /\ stirred' = stirred \cup Walking
          /\ plan[e].under \in There \cup {plan[e].node, Root}
      BY <1>2, <2>2 DEF WriteParent, Replant
    <3>2. There' = There \cup {plan[e].node}  BY <3>1 DEF There
    <3>3. parent' \in [There' -> There' \cup {Root}]  BY <1>1, <3>1, <3>2
    <3> QED BY <1>1, <1>2, <3>1, <3>2, <3>3 DEF WriteParent
  <2> QED BY <2>1, <2>2
<1>3. CASE Orphan(e)
  BY <1>1, <1>3 DEF Orphan, Replant, There
<1>4. CASE Remove(e)
  <2>1. /\ parent' = [n \in There \ {plan[e].node} |->
                        IF parent[n] = plan[e].node THEN Root ELSE parent[n]]
        /\ stirred' = stirred \cup Walking
    BY <1>4 DEF Remove, Replant
  <2>2. There' = There \ {plan[e].node}  BY <2>1 DEF There
  <2> QED BY <1>1, <1>4, <2>1, <2>2 DEF Remove
<1> QED BY <1>2, <1>3, <1>4

LEMMA NextTreeTypes == TreeTypes /\ [TreeNext]_treeVars => TreeTypes'
<1> SUFFICES ASSUME TreeTypes, [TreeNext]_treeVars PROVE TreeTypes'  OBVIOUS
<1>1. ASSUME NEW e \in Editors, Look(e) PROVE TreeTypes'
  <2>1. at' \in [Editors -> {"idle", "walking", "writing", "orphaning", "deleting", "refused",
                             "ended"}]
    BY <1>1, Looks, TurnTypes
  <2>2. todo' \in [Editors -> SUBSET Nodes]
    BY <1>1, Looks DEF TreeTypes
  <2> QED BY <1>1, <2>1, <2>2, Looks DEF TreeTypes, There
<1>2. ASSUME NEW e \in Editors, Visit(e) PROVE TreeTypes'
  <2>1. at' \in [Editors -> {"idle", "walking", "writing", "orphaning", "deleting", "refused",
                             "ended"}]
    BY <1>2, Visits, TurnTypes
  <2>2. todo' \in [Editors -> SUBSET Nodes]
    <3>1. \A n : Children(n) \subseteq Nodes  BY DEF Children, TreeTypes
    <3> QED BY <1>2, <3>1, Visits DEF TreeTypes
  <2> QED BY <1>2, <2>1, <2>2, Visits DEF TreeTypes, There
<1>3. ASSUME NEW e \in Editors, WriteParent(e) \/ Orphan(e) \/ Remove(e) PROVE TreeTypes'
  <2>1. at' \in [Editors -> {"idle", "walking", "writing", "orphaning", "deleting", "refused",
                             "ended"}]
    BY <1>3, Replants, TurnTypes
  <2> QED BY <1>3, <2>1, Replants DEF TreeTypes
<1>4. ASSUME NEW e \in Editors, Abandon(e) PROVE TreeTypes'
  BY <1>4, TurnTypes DEF Abandon, TreeTypes, There
<1>5. CASE UNCHANGED treeVars
  BY <1>5 DEF treeVars, TreeTypes, There
<1> QED BY <1>1, <1>2, <1>3, <1>4, <1>5 DEF TreeNext, Proceed

(* Every variable keeps its type, and the parent of a category is there. *)
THEOREM TreesTyped == TreeSpec => []TreeTypes
BY InitTree, NextTreeTypes, PTL DEF TreeSpec

-----------------------------------------------------------------------------
(* The walk of a move *)

(* Upwards is the least closed set. *)
LEMMA UpwardsLeast ==
  ASSUME TreeTypes, NEW n \in Nodes \cup {Root}
  PROVE  /\ n \in Upwards(n) /\ Closed(Upwards(n)) /\ Upwards(n) \subseteq Nodes \cup {Root}
         /\ \A S \in SUBSET (Nodes \cup {Root}) : n \in S /\ Closed(S) => Upwards(n) \subseteq S
<1>1. \A k \in There : parent[k] \in Nodes \cup {Root}  BY DEF TreeTypes
<1> QED BY <1>1 DEF Upwards, Closed

LEMMA UpwardsOfParent ==
  ASSUME TreeTypes, NEW k \in There
  PROVE  parent[k] \in Nodes \cup {Root} /\ Upwards(parent[k]) \subseteq Upwards(k)
<1>1. k \in Nodes /\ parent[k] \in Nodes \cup {Root}  BY DEF TreeTypes
<1>2. k \in Upwards(k) /\ Closed(Upwards(k)) /\ Upwards(k) \in SUBSET (Nodes \cup {Root})
  BY <1>1, UpwardsLeast
<1>3. parent[k] \in Upwards(k)  BY <1>2 DEF Closed
<1> QED BY <1>1, <1>2, <1>3, UpwardsLeast

(* What is above n, and not n, is the parent of something that is. *)
LEMMA UpwardsStep ==
  ASSUME TreeTypes, NEW n \in Nodes, NEW m \in Upwards(n), m # n
  PROVE  \E k \in Upwards(n) \cap There : parent[k] = m
<1> DEFINE S == Upwards(n) \ {m}
<1> SUFFICES ASSUME \A k \in Upwards(n) \cap There : parent[k] # m PROVE FALSE  OBVIOUS
<1>1. n \in Upwards(n) /\ Closed(Upwards(n)) /\ Upwards(n) \subseteq Nodes \cup {Root}
  BY UpwardsLeast
<1>2. n \in S /\ S \in SUBSET (Nodes \cup {Root})  BY <1>1
<1>3. Closed(S)  BY <1>1 DEF Closed
<1>4. Upwards(n) \subseteq S
  <2> HIDE DEF S
  <2> QED BY <1>2, <1>3, UpwardsLeast
<1> QED BY <1>4

(* What is still to be asked for is below the new parent, and cuts each way from the *)
(* category up to it.                                                                *)
WalkInv ==
  \A e \in Walking \ stirred :
    LET node == plan[e].node
        under == plan[e].under
    IN  /\ \A n \in todo[e] : under \in Upwards(n)
        /\ under \in Upwards(node) => \E n \in todo[e] : n \in Upwards(node) /\ n # node

LEMMA LookWalks ==
  ASSUME TreeTypes, WalkInv, NEW e \in Editors, Look(e)
  PROVE  WalkInv'
<1>1. UNCHANGED <<plan, parent, stirred>>  BY Looks
<1>2. \A n : Upwards(n)' = Upwards(n)  BY <1>1 DEF Upwards, Closed, There
<1>3. \A d \in Editors \ {e} : at'[d] = at[d] /\ todo'[d] = todo[d]
  <2>1. \A d \in Editors \ {e} : at'[d] = at[d]  BY Looks, TurnTypes
  <2>2. \A d \in Editors \ {e} : todo'[d] = todo[d]  BY Looks DEF TreeTypes
  <2> QED BY <2>1, <2>2
<1>4. CASE at'[e] = "walking"
  <2>1. /\ todo'[e] = {plan[e].under} /\ plan[e].under \in Nodes
        /\ plan[e].under # plan[e].node
    BY <1>4, Looks, TurnTypes DEF TreeTypes
  <2>2. plan[e].under \in Upwards(plan[e].under)  BY <2>1, UpwardsLeast
  <2> QED BY <1>1, <1>2, <1>3, <2>1, <2>2 DEF WalkInv, Walking
<1>5. CASE at'[e] # "walking"
  BY <1>1, <1>2, <1>3, <1>5 DEF WalkInv, Walking
<1> QED BY <1>4, <1>5

LEMMA VisitWalks ==
  ASSUME TreeTypes, WalkInv, NEW e \in Editors, Visit(e)
  PROVE  /\ WalkInv'
         /\ e \notin stirred =>
              /\ at'[e] = "refused" => plan[e].under \in Upwards(plan[e].node)
              /\ at'[e] = "writing" => plan[e].under \notin Upwards(plan[e].node)
<1>1. UNCHANGED <<plan, parent, stirred>> /\ at[e] = "walking"  BY Visits
<1>2. \A n : Upwards(n)' = Upwards(n)  BY <1>1 DEF Upwards, Closed, There
<1>3. \A d \in Editors \ {e} : at'[d] = at[d] /\ todo'[d] = todo[d]
  <2>1. \A d \in Editors \ {e} : at'[d] = at[d]  BY Visits, TurnTypes
  <2>2. \A d \in Editors \ {e} : todo'[d] = todo[d]  BY Visits DEF TreeTypes
  <2> QED BY <2>1, <2>2
<1>4. CASE e \in stirred
  BY <1>1, <1>2, <1>3, <1>4 DEF WalkInv, Walking
<1>5. CASE e \notin stirred
  <2> DEFINE node == plan[e].node
             under == plan[e].under
  <2>1. node \in Nodes /\ todo[e] \subseteq Nodes  BY Planned DEF TreeTypes
  <2>2. /\ \A n \in todo[e] : under \in Upwards(n)
        /\ under \in Upwards(node) => \E n \in todo[e] : n \in Upwards(node) /\ n # node
    BY <1>1, <1>5 DEF WalkInv, Walking
  <2>3. PICK n \in todo[e] :
          \/ /\ node \in Children(n)
             /\ Turn(e, "refused") /\ todo' = todo
          \/ /\ node \notin Children(n)
             /\ todo' = [todo EXCEPT ![e] = (todo[e] \ {n}) \cup Children(n)]
             /\ \/ Turn(e, "walking")
                \/ Turn(e, "writing") /\ (todo[e] \ {n}) \cup Children(n) = {}
    BY Visits
  <2>4. CASE node \in Children(n)
    <3>1. at'[e] = "refused"  BY <2>3, <2>4, TurnTypes
    <3>2. node \in There /\ parent[node] = n  BY <2>4 DEF Children
    <3>3. under \in Upwards(node)  BY <2>2, <3>2, UpwardsOfParent
    <3>4. WalkInv'  BY <1>1, <1>2, <1>3, <3>1 DEF WalkInv, Walking
    <3> QED BY <3>1, <3>3, <3>4
  <2>5. CASE node \notin Children(n)
    <3> DEFINE left == (todo[e] \ {n}) \cup Children(n)
    <3>1. /\ todo'[e] = left /\ at'[e] \in {"walking", "writing"}
          /\ at'[e] = "writing" => left = {}
      BY <2>3, <2>5, TurnTypes DEF TreeTypes
    <3>2. \A m \in left : under \in Upwards(m)
      <4> SUFFICES ASSUME NEW m \in Children(n) PROVE under \in Upwards(m)
        BY <2>2
      <4>1. m \in There /\ parent[m] = n  BY DEF Children
      <4> QED BY <2>2, <4>1, UpwardsOfParent
    <3>3. ASSUME under \in Upwards(node)
          PROVE  \E m \in left : m \in Upwards(node) /\ m # node
      <4>1. PICK m \in todo[e] : m \in Upwards(node) /\ m # node  BY <2>2, <3>3
      <4>2. CASE m # n  BY <4>1, <4>2
      <4>3. CASE m = n
        <5>1. PICK k \in Upwards(node) \cap There : parent[k] = n
          BY <2>1, <4>1, <4>3, UpwardsStep
        <5>2. k \in Children(n)  BY <5>1 DEF Children
        <5> QED BY <2>5, <5>1, <5>2
      <4> QED BY <4>2, <4>3
    <3> HIDE DEF left
    <3>4. WalkInv'  BY <1>1, <1>2, <1>3, <3>1, <3>2, <3>3 DEF WalkInv, Walking
    <3> QED BY <3>1, <3>3, <3>4
  <2> QED BY <2>4, <2>5
<1> QED BY <1>4, <1>5

LEMMA NextWalks == TreeTypes /\ WalkInv /\ [TreeNext]_treeVars => WalkInv'
<1> SUFFICES ASSUME TreeTypes, WalkInv, [TreeNext]_treeVars PROVE WalkInv'  OBVIOUS
<1>1. ASSUME NEW e \in Editors, WriteParent(e) \/ Orphan(e) \/ Remove(e) PROVE WalkInv'
  <2>1. /\ UNCHANGED <<plan, todo>> /\ Walking' \subseteq Walking
        /\ stirred \subseteq stirred'
    BY <1>1, Replants, TurnTypes DEF Walking
  <2>2. CASE parent' = parent
    <3>1. \A n : Upwards(n)' = Upwards(n)  BY <2>2 DEF Upwards, Closed, There
    <3> QED BY <2>1, <3>1 DEF WalkInv
  <2>3. CASE stirred' = stirred \cup Walking
    BY <2>1, <2>3 DEF WalkInv
  <2> QED BY <1>1, <2>2, <2>3, Replants
<1>2. ASSUME NEW e \in Editors, Abandon(e) PROVE WalkInv'
  <2>1. Walking' \subseteq Walking /\ UNCHANGED <<plan, parent, todo, stirred>>
    BY <1>2, TurnTypes DEF Abandon, Walking
  <2>2. \A n : Upwards(n)' = Upwards(n)  BY <2>1 DEF Upwards, Closed, There
  <2> QED BY <2>1, <2>2 DEF WalkInv
<1>3. CASE UNCHANGED treeVars
  <2>1. UNCHANGED <<plan, parent, at, todo, stirred>>  BY <1>3 DEF treeVars
  <2>2. \A n : Upwards(n)' = Upwards(n)  BY <2>1 DEF Upwards, Closed, There
  <2> QED BY <2>1, <2>2 DEF WalkInv, Walking
<1> QED BY <1>1, <1>2, <1>3, LookWalks, VisitWalks DEF TreeNext, Proceed

LEMMA TreesJudge == TreeInit /\ [][TreeNext]_treeVars => MovesJudged
<1>1. TreeInit => WalkInv
  BY DEF TreeInit, WalkInv, Walking
<1>2. ASSUME TreeTypes, WalkInv, [TreeNext]_treeVars
      PROVE  [\A e \in Walking \ stirred :
                LET above == plan[e].under \in Upwards(plan[e].node)
                IN  /\ at'[e] = "refused" => above
                    /\ at'[e] = "writing" => ~above]_treeVars
  <2> SUFFICES ASSUME TreeNext, NEW e \in Walking \ stirred
               PROVE  /\ at'[e] = "refused" => plan[e].under \in Upwards(plan[e].node)
                      /\ at'[e] = "writing" => plan[e].under \notin Upwards(plan[e].node)
    BY <1>2
  <2>1. e \in Editors /\ at[e] = "walking"  BY DEF Walking
  <2>2. PICK d \in Editors : Look(d) \/ Proceed(d)  BY DEF TreeNext
  <2>3. CASE d = e /\ Visit(e)  BY <1>2, <2>1, <2>3, VisitWalks
  <2>4. CASE d # e \/ ~Visit(e)
    <3>1. d # e => at'[e] = at[e]
      <4>1. PICK s : Turn(d, s)
        BY <1>2, <2>2, Looks, Visits, Replants DEF Proceed, Abandon
      <4> QED BY <1>2, <2>1, <4>1, TurnTypes
    <3>2. d = e => at'[e] = "ended"
      <4>1. d = e => Abandon(e)
        BY <1>2, <2>1, <2>2, <2>4, Looks, Replants DEF Proceed
      <4> QED BY <1>2, <2>1, <4>1, TurnTypes DEF Abandon
    <3> QED BY <2>1, <3>1, <3>2
  <2> QED BY <2>3, <2>4
<1> QED BY <1>1, <1>2, InitTree, NextTreeTypes, NextWalks, PTL DEF MovesJudged

(* A walk during which the tree does not change refuses exactly the moves of a category *)
(* to one that is above it, whatever the tree, cyclic or not.                           *)
THEOREM WalksJudge == TreeSpec => MovesJudged
BY TreesJudge, PTL DEF TreeSpec

-----------------------------------------------------------------------------
(* CatalogImport: what the rows of a job are, for any jobs, shelves and failures. *)
ShelfTypes ==
  /\ minted \in 0 .. MaxProducts
  /\ DOMAIN shelf \subseteq 1 .. minted
  /\ \A i \in DOMAIN shelf : shelf[i] \in Products

LEMMA NewPriceIsNat ==
  ASSUME NEW j, NEW p \in Nat, order[j].value \in Int, NewBase(j, p) > 0
  PROVE  NewPrice(j, p) \in Nat
<1>1. \A v \in Int : p * (100 + v) \in Int /\ 100 * v \in Int  OBVIOUS
<1>2. NewBase(j, p) \in Int  BY <1>1 DEF NewBase
<1>3. NewBase(j, p) + 50 \in Nat  BY <1>2
<1>4. \A n \in Nat : n \div 100 \in Nat  OBVIOUS
<1> QED BY <1>3, <1>4 DEF NewPrice

LEMMA Counts ==
  ASSUME ImportTypes, NEW j \in Jobs, NEW outcome \in {"created", "updated", "skipped"},
         Count(j, outcome)
  PROVE  /\ tally' \in [Jobs -> [created : Nat, updated : Nat, skipped : Nat]]
         /\ line' \in [Jobs -> Nat]
BY DEF ImportTypes, Count

LEMMA Reprices ==
  ASSUME ShelfTypes, NEW i \in DOMAIN shelf, NEW p \in Nat
  PROVE  /\ DOMAIN [shelf EXCEPT ![i].price = p] = DOMAIN shelf
         /\ [shelf EXCEPT ![i].price = p][i] \in Products
         /\ \A k \in DOMAIN shelf \ {i} : [shelf EXCEPT ![i].price = p][k] = shelf[k]
<1>1. shelf[i] \in Products BY DEF ShelfTypes
<1>2. [shelf[i] EXCEPT !.price = p] \in Products  BY <1>1 DEF Products
<1> QED BY <1>2

LEMMA Links ==
  ASSUME ShelfTypes, NEW i \in DOMAIN shelf, NEW l \in Labels
  PROVE  /\ DOMAIN [shelf EXCEPT ![i].suppliers = @ \cup {l}] = DOMAIN shelf
         /\ [shelf EXCEPT ![i].suppliers = @ \cup {l}][i] \in Products
         /\ \A k \in DOMAIN shelf \ {i} : [shelf EXCEPT ![i].suppliers = @ \cup {l}][k] = shelf[k]
<1>1. shelf[i] \in Products BY DEF ShelfTypes
<1>2. [shelf[i] EXCEPT !.suppliers = @ \cup {l}] \in Products  BY <1>1 DEF Products
<1> QED BY <1>2

LEMMA Edited ==
  ASSUME ShelfTypes, NEW i \in DOMAIN shelf, NEW n \in Names, NEW p \in Nat
  PROVE  /\ DOMAIN [shelf EXCEPT ![i].name = n, ![i].price = p] = DOMAIN shelf
         /\ \A k \in DOMAIN shelf : [shelf EXCEPT ![i].name = n, ![i].price = p][k] \in Products
<1>1. shelf[i] \in Products BY DEF ShelfTypes
<1>2. [shelf[i] EXCEPT !.name = n, !.price = p] \in Products  BY <1>1 DEF Products
<1> QED BY <1>2 DEF ShelfTypes

ImportStages == {"category", "newCategory", "supplier", "newSupplier", "product", "updating",
                 "creating", "linking", "linkingNew"}
PriceStages == {"reading", "pricing"}

(* A job is at a row that it has, and where its kind can be. *)
RowFits(j) ==
  /\ line[j] > 0
  /\ stage[j] = "row" => order[j].kind \in {"import", "raise", "fix"}
  /\ stage[j] \in ImportStages => order[j].kind = "import" /\ line[j] <= Len(order[j].rows)
  /\ stage[j] \in PriceStages =>
       order[j].kind \in {"raise", "fix"} /\ line[j] <= Len(order[j].rows)
  /\ stage[j] \in {"supplier", "newSupplier", "linking", "linkingNew"} =>
       Row(j).supplier # Nobody

RowsFit ==
  /\ stage \in [Jobs -> {"idle", "row", "ended"} \cup ImportStages \cup PriceStages]
  /\ \A j \in Jobs : RowFits(j)

LEMMA Ordered ==
  ASSUME ImportTypes, NEW j \in Jobs
  PROVE  /\ order[j].kind = "import" => order[j].rows \in Seq(Rows)
         /\ order[j].kind \in {"raise", "fix"} => order[j].rows \in Seq(Ids) /\ order[j].value \in Int
         /\ order[j].kind = "create" => order[j].name \in Names /\ order[j].price \in Nat
         /\ order[j].kind = "update" => /\ order[j].id \in Ids /\ order[j].name \in Names
                                        /\ order[j].price \in Nat
<1>1. order[j] \in Kinds  BY ImportConstants DEF ImportTypes
<1> QED BY <1>1 DEF Kinds

LEMMA RowTypes ==
  ASSUME ImportTypes, RowsFit, NEW j \in Jobs
  PROVE  /\ stage[j] \in ImportStages => Row(j) \in Rows
         /\ stage[j] \in PriceStages => Row(j) \in Ids
<1>1. line[j] \in Nat /\ line[j] > 0  BY DEF ImportTypes, RowsFit, RowFits
<1>2. CASE stage[j] \in ImportStages
  <2>1. order[j].rows \in Seq(Rows) /\ line[j] <= Len(order[j].rows)
    BY <1>2, Ordered DEF RowsFit, RowFits
  <2>2. Row(j) \in Rows
    <3> DEFINE rs == order[j].rows
    <3>1. rs \in Seq(Rows) /\ line[j] \in 1 .. Len(rs)  BY <1>1, <2>1
    <3> HIDE DEF rs
    <3>2. rs[line[j]] \in Rows  BY <3>1
    <3> QED BY <3>2 DEF Row, rs
  <2>3. stage[j] \notin PriceStages  BY <1>2 DEF ImportStages, PriceStages
  <2> QED BY <2>2, <2>3
<1>3. CASE stage[j] \in PriceStages
  <2>1. order[j].rows \in Seq(Ids) /\ line[j] <= Len(order[j].rows)
    BY <1>3, Ordered DEF RowsFit, RowFits
  <2>2. Row(j) \in Ids
    <3> DEFINE rs == order[j].rows
    <3>1. rs \in Seq(Ids) /\ line[j] \in 1 .. Len(rs)  BY <1>1, <2>1
    <3> HIDE DEF rs
    <3>2. rs[line[j]] \in Ids  BY <3>1
    <3> QED BY <3>2 DEF Row, rs
  <2>3. stage[j] \notin ImportStages  BY <1>3 DEF ImportStages, PriceStages
  <2> QED BY <2>2, <2>3
<1> QED BY <1>2, <1>3

(* A row is left, or its job goes to another of its steps. *)
LEMMA StageFits ==
  ASSUME ImportTypes, RowsFit, order' = order, NEW j \in Jobs,
         \/ \E outcome \in {"created", "updated", "skipped"} :
              Count(j, outcome) /\ order[j].kind \in {"import", "raise", "fix"}
         \/ \E s \in {"row", "ended"} \cup ImportStages \cup PriceStages :
              /\ Stage(j, s)
              /\ s = "row" => order[j].kind \in {"import", "raise", "fix"}
              /\ s \in ImportStages =>
                   order[j].kind = "import" /\ line[j] <= Len(order[j].rows)
              /\ s \in PriceStages =>
                   order[j].kind \in {"raise", "fix"} /\ line[j] <= Len(order[j].rows)
              /\ s \in {"supplier", "newSupplier", "linking", "linkingNew"} =>
                   Row(j).supplier # Nobody
  PROVE  /\ RowsFit'
         /\ tally' \in [Jobs -> [created : Nat, updated : Nat, skipped : Nat]]
         /\ line' \in [Jobs -> Nat]
<1>1. /\ line \in [Jobs -> Nat] /\ tally \in [Jobs -> [created : Nat, updated : Nat, skipped : Nat]]
      /\ stage \in [Jobs -> {"idle", "row", "ended"} \cup ImportStages \cup PriceStages]
  BY DEF ImportTypes, RowsFit
<1>2. ASSUME NEW outcome \in {"created", "updated", "skipped"}, Count(j, outcome),
             order[j].kind \in {"import", "raise", "fix"}
      PROVE  /\ RowsFit'
             /\ tally' \in [Jobs -> [created : Nat, updated : Nat, skipped : Nat]]
             /\ line' \in [Jobs -> Nat]
  <2>1. /\ tally' \in [Jobs -> [created : Nat, updated : Nat, skipped : Nat]]
        /\ line' \in [Jobs -> Nat]
    BY <1>2, Counts
  <2>2. /\ stage' = [stage EXCEPT ![j] = "row"] /\ line' = [line EXCEPT ![j] = @ + 1]
    BY <1>2 DEF Count
  <2>3. /\ stage'[j] = "row" /\ line'[j] = line[j] + 1
        /\ \A d \in Jobs \ {j} : stage'[d] = stage[d] /\ line'[d] = line[d]
        /\ stage' \in [Jobs -> {"idle", "row", "ended"} \cup ImportStages \cup PriceStages]
    BY <1>1, <2>2
  <2>4. "row" \notin ImportStages /\ "row" \notin PriceStages  BY DEF ImportStages, PriceStages
  <2>5. \A d \in Jobs \ {j} : RowFits(d)'  BY <2>3 DEF RowsFit, RowFits, Row
  <2>6. RowFits(j)'
    <3>1. line'[j] > 0  BY <1>1, <2>3 DEF RowsFit, RowFits
    <3> QED BY <1>2, <2>3, <2>4, <3>1 DEF RowFits
  <2>7. RowsFit'  BY <2>3, <2>5, <2>6 DEF RowsFit
  <2> QED BY <2>1, <2>7
<1>3. ASSUME NEW s \in {"row", "ended"} \cup ImportStages \cup PriceStages, Stage(j, s),
             s = "row" => order[j].kind \in {"import", "raise", "fix"},
             s \in ImportStages => order[j].kind = "import" /\ line[j] <= Len(order[j].rows),
             s \in PriceStages =>
               order[j].kind \in {"raise", "fix"} /\ line[j] <= Len(order[j].rows),
             s \in {"supplier", "newSupplier", "linking", "linkingNew"} =>
               Row(j).supplier # Nobody
      PROVE  /\ RowsFit'
             /\ tally' \in [Jobs -> [created : Nat, updated : Nat, skipped : Nat]]
             /\ line' \in [Jobs -> Nat]
  <2>1. stage' = [stage EXCEPT ![j] = s] /\ UNCHANGED <<line, tally>>  BY <1>3 DEF Stage
  <2>2. /\ stage'[j] = s /\ \A d \in Jobs \ {j} : stage'[d] = stage[d]
        /\ stage' \in [Jobs -> {"idle", "row", "ended"} \cup ImportStages \cup PriceStages]
    BY <1>1, <2>1
  <2> QED BY <1>1, <1>3, <2>1, <2>2 DEF RowsFit, RowFits, Row
<1> QED BY <1>2, <1>3

LEMMA ShelveTypes ==
  ASSUME ImportTypes, NEW j \in Jobs, NEW new, Shelve(j, new),
         DOMAIN new \subseteq DOMAIN shelf, \A i \in DOMAIN new : new[i] \in Products
  PROVE  /\ ShelfTypes' /\ crossed' \subseteq Jobs
         /\ UNCHANGED <<minted, categories, suppliers>>
BY DEF ImportTypes, ShelfTypes, Shelve, Crosses

LEMMA MintTypes ==
  ASSUME ImportTypes, NEW j \in Jobs, NEW product \in Products, Mint(j, product)
  PROVE  /\ ShelfTypes' /\ crossed' \subseteq Jobs /\ minted' = minted + 1
         /\ UNCHANGED <<categories, suppliers>>
<1>1. minted \in Nat /\ minted < MaxProducts /\ minted' = minted + 1 /\ MaxProducts \in Nat
  BY ImportConstants DEF ImportTypes, Mint
<1>2. DOMAIN shelf' \subseteq 1 .. minted'
  BY <1>1 DEF ImportTypes, Mint
<1>3. \A i \in DOMAIN shelf' : shelf'[i] \in Products
  BY DEF ImportTypes, Mint
<1> QED BY <1>1, <1>2, <1>3 DEF ImportTypes, ShelfTypes, Mint, Crosses


(* The steps that write nothing but their own progress *)
LEMMA QuietSteps ==
  ASSUME ImportTypes, RowsFit, NEW j \in Jobs,
         \/ Start(j) \/ NextRow(j) \/ FindCategory(j) \/ FindSupplier(j) \/ FindProduct(j)
         \/ ReadPrice(j) \/ StatementFails(j)
  PROVE  ImportTypes' /\ RowsFit'
<1>1. UNCHANGED <<order, stores>>
  BY DEF Start, NextRow, FindCategory, FindSupplier, FindProduct, ReadPrice, StatementFails
<1>2. /\ marred' \subseteq Jobs /\ errors' \in 0 .. MaxErrors
  BY ImportConstants
     DEF Start, NextRow, FindCategory, FindSupplier, FindProduct, ReadPrice, StatementFails,
         ImportTypes
<1>3. target' \in [Jobs -> Nat] /\ price' \in [Jobs -> Nat]
  <2>1. CASE FindProduct(j)
    <3>1. \A i \in DOMAIN shelf : i \in Nat  BY DEF ImportTypes
    <3> QED BY <2>1, <3>1 DEF FindProduct, ImportTypes
  <2>2. CASE ReadPrice(j)
    <3>1. CASE price' = price  BY <2>2, <3>1 DEF ReadPrice, ImportTypes
    <3>2. CASE price' # price
      <4> DEFINE i == Row(j)
      <4>1. i \in DOMAIN shelf /\ price' = [price EXCEPT ![j] = NewPrice(j, shelf[i].price)]
            /\ stage[j] = "reading" /\ NewBase(j, shelf[i].price) > 0
        BY <2>2, <3>2 DEF ReadPrice, Here
      <4>2. shelf[i].price \in Nat  BY <4>1 DEF ImportTypes, Products
      <4>3. order[j].value \in Int
        BY <4>1, Ordered DEF RowsFit, RowFits, PriceStages
      <4> HIDE DEF i
      <4>4. NewPrice(j, shelf[i].price) \in Nat
        BY <4>1, <4>2, <4>3, NewPriceIsNat
      <4>5. target' = target  BY <2>2 DEF ReadPrice
      <4> QED BY <4>1, <4>4, <4>5 DEF ImportTypes
    <3> QED BY <3>1, <3>2
  <2>3. CASE Start(j) \/ NextRow(j) \/ FindCategory(j) \/ FindSupplier(j) \/ StatementFails(j)
    BY <2>3 DEF Start, NextRow, FindCategory, FindSupplier, StatementFails, ImportTypes
  <2> QED BY <2>1, <2>2, <2>3
<1>4. /\ RowsFit'
      /\ tally' \in [Jobs -> [created : Nat, updated : Nat, skipped : Nat]]
      /\ line' \in [Jobs -> Nat]
  <2> USE <1>1 DEF ImportStages, PriceStages
  <2>1. RowFits(j) /\ line[j] \in Nat  BY DEF RowsFit, ImportTypes
  <2>2. CASE Start(j)  BY <2>2, StageFits DEF Start
  <2>3. CASE NextRow(j)
    <3>1. order[j].kind \in {"import", "raise", "fix"}  BY <2>1, <2>3 DEF NextRow, RowFits
    <3>2. Len(order[j].rows) \in Nat  BY <3>1, Ordered
    <3>3. \/ Count(j, "skipped")
          \/ \E s \in {"ended", "reading", "category"} :
               /\ Stage(j, s)
               /\ s = "category" => order[j].kind = "import" /\ line[j] <= Len(order[j].rows)
               /\ s = "reading" =>
                    order[j].kind \in {"raise", "fix"} /\ line[j] <= Len(order[j].rows)
      BY <2>1, <2>3, <3>1, <3>2 DEF NextRow
    <3> QED BY <3>1, <3>3, StageFits
  <2>4. CASE FindCategory(j)
    <3>1. order[j].kind = "import" /\ line[j] <= Len(order[j].rows)
      BY <2>1, <2>4 DEF FindCategory, RowFits
    <3>2. \E s \in {"product", "supplier", "newCategory"} :
            Stage(j, s) /\ (s = "supplier" => Row(j).supplier # Nobody)
      BY <2>4 DEF FindCategory, Supplied
    <3> QED BY <3>1, <3>2, StageFits
  <2>5. CASE FindSupplier(j)
    <3>1. /\ order[j].kind = "import" /\ line[j] <= Len(order[j].rows)
          /\ Row(j).supplier # Nobody
      BY <2>1, <2>5 DEF FindSupplier, RowFits
    <3>2. \E s \in {"product", "newSupplier"} : Stage(j, s)  BY <2>5 DEF FindSupplier
    <3> QED BY <3>1, <3>2, StageFits
  <2>6. CASE FindProduct(j)
    <3>1. order[j].kind = "import" /\ line[j] <= Len(order[j].rows)
      BY <2>1, <2>6 DEF FindProduct, RowFits
    <3>2. \E s \in {"creating", "updating"} : Stage(j, s)  BY <2>6 DEF FindProduct
    <3> QED BY <3>1, <3>2, StageFits
  <2>7. CASE ReadPrice(j)
    <3>1. order[j].kind \in {"raise", "fix"} /\ line[j] <= Len(order[j].rows)
      BY <2>1, <2>7 DEF ReadPrice, RowFits
    <3>2. Stage(j, "pricing") \/ Count(j, "skipped")  BY <2>7 DEF ReadPrice
    <3> QED BY <3>1, <3>2, StageFits
  <2>8. CASE StatementFails(j)
    <3>1. order[j].kind \in {"import", "raise", "fix"}
      BY <2>1, <2>8 DEF StatementFails, RowFits, RowsFit
    <3>2. Stage(j, "ended") \/ Count(j, "skipped")  BY <2>8 DEF StatementFails
    <3> QED BY <3>1, <3>2, StageFits
  <2> QED BY <2>2, <2>3, <2>4, <2>5, <2>6, <2>7, <2>8
<1> QED BY <1>1, <1>2, <1>3, <1>4 DEF ImportTypes, stores

LEMMA WritingSteps ==
  ASSUME ImportTypes, RowsFit, NEW j \in Jobs,
         \/ NewCategory(j) \/ NewSupplier(j) \/ UpdateProduct(j) \/ InsertProduct(j)
         \/ LinkSupplier(j) \/ WritePrice(j)
  PROVE  ImportTypes' /\ RowsFit'
<1> USE DEF ImportStages, PriceStages
<1>1. UNCHANGED <<order, price, errors, marred>>
  BY DEF NewCategory, NewSupplier, UpdateProduct, InsertProduct, LinkSupplier, WritePrice
<1>2. /\ RowFits(j) /\ ShelfTypes /\ target[j] \in Nat /\ price[j] \in Nat
      /\ stage[j] \in ImportStages => Row(j) \in Rows
      /\ stage[j] \in PriceStages => Row(j) \in Ids
  BY RowTypes DEF RowsFit, ImportTypes, ShelfTypes
<1>3. UNCHANGED stores =>
        /\ ShelfTypes' /\ crossed' \subseteq Jobs
        /\ categories' \subseteq Labels /\ suppliers' \in [Labels -> Nat]
  BY DEF stores, ImportTypes, ShelfTypes
<1>4. Crosses(j) => crossed' \subseteq Jobs  BY DEF Crosses, ImportTypes
<1>5. /\ ShelfTypes' /\ crossed' \subseteq Jobs
      /\ categories' \subseteq Labels /\ suppliers' \in [Labels -> Nat]
      /\ target' \in [Jobs -> Nat]
  <2>1. CASE NewCategory(j)
    BY <1>2, <1>3, <1>4, <2>1 DEF NewCategory, ImportTypes, ShelfTypes, Rows
  <2>2. CASE NewSupplier(j)
    <3>1. Row(j).supplier \in Labels  BY <1>2, <2>2 DEF NewSupplier, RowFits, Rows
    <3> QED BY <1>2, <1>4, <2>2, <3>1 DEF NewSupplier, ImportTypes, ShelfTypes
  <2>3. CASE UpdateProduct(j)
    <3>1. CASE Here(target[j])
      <4>1. Row(j).price \in Nat  BY <1>2, <2>3 DEF UpdateProduct, Rows
      <4> DEFINE new == [shelf EXCEPT ![target[j]].price = Row(j).price]
      <4>2. Shelve(j, new)  BY <2>3, <3>1 DEF UpdateProduct
      <4>3. DOMAIN new \subseteq DOMAIN shelf /\ \A i \in DOMAIN new : new[i] \in Products
        BY <1>2, <3>1, <4>1, Reprices DEF Here, ShelfTypes
      <4> HIDE DEF new
      <4> QED BY <2>3, <4>2, <4>3, ShelveTypes DEF UpdateProduct, ImportTypes
    <3>2. CASE ~Here(target[j])  BY <1>3, <2>3, <3>2 DEF UpdateProduct, ImportTypes
    <3> QED BY <3>1, <3>2
  <2>4. CASE InsertProduct(j)
    <3> DEFINE product == [name |-> Row(j).name, price |-> Row(j).price, suppliers |-> {}]
    <3>1. product \in Products  BY <1>2, <2>4 DEF InsertProduct, Rows, Products
    <3>2. Mint(j, product)  BY <2>4 DEF InsertProduct
    <3> HIDE DEF product
    <3>3. minted + 1 \in Nat  BY ImportConstants DEF ImportTypes
    <3> QED BY <2>4, <3>1, <3>2, <3>3, MintTypes DEF InsertProduct, ImportTypes
  <2>5. CASE LinkSupplier(j)
    <3>1. CASE Here(target[j])
      <4>1. Row(j).supplier \in Labels  BY <1>2, <2>5 DEF LinkSupplier, RowFits, Rows
      <4> DEFINE new == [shelf EXCEPT ![target[j]].suppliers = @ \cup {Row(j).supplier}]
      <4>2. Shelve(j, new)  BY <2>5, <3>1 DEF LinkSupplier
      <4>3. DOMAIN new \subseteq DOMAIN shelf /\ \A i \in DOMAIN new : new[i] \in Products
        BY <1>2, <3>1, <4>1, Links DEF Here, ShelfTypes
      <4> HIDE DEF new
      <4> QED BY <2>5, <4>2, <4>3, ShelveTypes DEF LinkSupplier, ImportTypes
    <3>2. CASE ~Here(target[j])  BY <1>3, <2>5, <3>2 DEF LinkSupplier, ImportTypes
    <3> QED BY <3>1, <3>2
  <2>6. CASE WritePrice(j)
    <3>1. CASE Here(Row(j))
      <4> DEFINE new == [shelf EXCEPT ![Row(j)].price = price[j]]
      <4>1. Shelve(j, new)  BY <2>6, <3>1 DEF WritePrice
      <4>2. DOMAIN new \subseteq DOMAIN shelf /\ \A i \in DOMAIN new : new[i] \in Products
        BY <1>2, <3>1, Reprices DEF Here, ShelfTypes
      <4> HIDE DEF new
      <4> QED BY <2>6, <4>1, <4>2, ShelveTypes DEF WritePrice, ImportTypes
    <3>2. CASE ~Here(Row(j))  BY <1>3, <2>6, <3>2 DEF WritePrice, ImportTypes
    <3> QED BY <3>1, <3>2
  <2> QED BY <2>1, <2>2, <2>3, <2>4, <2>5, <2>6
<1>6. /\ RowsFit'
      /\ tally' \in [Jobs -> [created : Nat, updated : Nat, skipped : Nat]]
      /\ line' \in [Jobs -> Nat]
  <2>1. CASE WritePrice(j)
    <3>1. order[j].kind \in {"raise", "fix"}  BY <1>2, <2>1 DEF WritePrice, RowFits
    <3>2. Count(j, "updated") \/ Count(j, "skipped")  BY <2>1 DEF WritePrice
    <3> QED BY <1>1, <3>1, <3>2, StageFits
  <2>2. CASE ~WritePrice(j)
    <3>1. order[j].kind = "import" /\ line[j] <= Len(order[j].rows)
      BY <1>2, <2>2 DEF NewCategory, NewSupplier, UpdateProduct, InsertProduct, LinkSupplier,
                        RowFits
    <3>2. \/ \E outcome \in {"created", "updated", "skipped"} : Count(j, outcome)
          \/ \E s \in {"product", "supplier", "linking", "linkingNew"} :
               /\ Stage(j, s)
               /\ s \in {"supplier", "linking", "linkingNew"} => Row(j).supplier # Nobody
      BY <2>2 DEF NewCategory, NewSupplier, UpdateProduct, InsertProduct, LinkSupplier, Supplied
    <3> QED BY <1>1, <3>1, <3>2, StageFits
  <2> QED BY <2>1, <2>2
<1> QED BY <1>1, <1>5, <1>6 DEF ImportTypes, ShelfTypes

LEMMA SingleSteps ==
  ASSUME ImportTypes, RowsFit, NEW j \in Jobs,
         CreateProduct(j) \/ EditProduct(j) \/ DeleteProduct(j)
  PROVE  ImportTypes' /\ RowsFit'
<1>1. UNCHANGED <<order, target, price, errors, marred>> /\ Stage(j, "ended")
  BY DEF CreateProduct, EditProduct, DeleteProduct
<1>2. RowsFit' /\ UNCHANGED <<line, tally>>
  <2>1. order' = order /\ UNCHANGED <<line, tally>>  BY <1>1 DEF Stage
  <2>2. /\ "ended" \notin ImportStages /\ "ended" \notin PriceStages
        /\ "ended" \notin {"supplier", "newSupplier", "linking", "linkingNew"}
    BY DEF ImportStages, PriceStages
  <2>3. RowsFit'
    <3>1. stage' = [stage EXCEPT ![j] = "ended"] /\ line' = line  BY <1>1 DEF Stage
    <3>2. stage' \in [Jobs -> {"idle", "row", "ended"} \cup ImportStages \cup PriceStages]
      BY <3>1 DEF RowsFit
    <3>3. ASSUME NEW d \in Jobs PROVE RowFits(d)'
      <4>1. RowFits(d)  BY DEF RowsFit
      <4>2. stage'[d] = IF d = j THEN "ended" ELSE stage[d]  BY <3>1 DEF RowsFit
      <4>3. Row(d)' = Row(d)  BY <2>1 DEF Row
      <4>4. CASE d = j
        BY <2>1, <2>2, <4>1, <4>2, <4>4 DEF RowFits
      <4>5. CASE d # j
        <5>1. stage'[d] = stage[d]  BY <4>2, <4>5
        <5> QED BY <2>1, <4>1, <4>3, <5>1 DEF RowFits
      <4> QED BY <4>4, <4>5
    <3> QED BY <3>2, <3>3 DEF RowsFit
  <2> QED BY <2>1, <2>3
<1>3. ShelfTypes  BY DEF ImportTypes, ShelfTypes
<1>4. /\ ShelfTypes' /\ crossed' \subseteq Jobs
      /\ categories' \subseteq Labels /\ suppliers' \in [Labels -> Nat]
  <2>1. CASE CreateProduct(j)
    <3> DEFINE product == [name |-> order[j].name, price |-> order[j].price, suppliers |-> {}]
    <3>1. product \in Products  BY <2>1, Ordered DEF CreateProduct, Products
    <3>2. Mint(j, product)  BY <2>1 DEF CreateProduct
    <3> HIDE DEF product
    <3> QED BY <3>1, <3>2, MintTypes DEF ImportTypes
  <2>2. CASE EditProduct(j)
    <3>1. CASE Here(order[j].id)
      <4> DEFINE new == [shelf EXCEPT ![order[j].id].name = order[j].name,
                                      ![order[j].id].price = order[j].price]
      <4>1. Shelve(j, new)  BY <2>2, <3>1 DEF EditProduct
      <4>2. DOMAIN new \subseteq DOMAIN shelf /\ \A i \in DOMAIN new : new[i] \in Products
        <5>1. order[j].name \in Names /\ order[j].price \in Nat
          BY <2>2, Ordered DEF EditProduct
        <5>2. order[j].id \in DOMAIN shelf  BY <3>1 DEF Here
        <5>3. DOMAIN new = DOMAIN shelf /\ \A i \in DOMAIN shelf : new[i] \in Products
          BY <1>3, <5>1, <5>2, Edited
        <5> QED BY <5>3
      <4> HIDE DEF new
      <4> QED BY <4>1, <4>2, ShelveTypes DEF ImportTypes
    <3>2. CASE ~Here(order[j].id)
      BY <1>3, <2>2, <3>2 DEF EditProduct, stores, ImportTypes, ShelfTypes
    <3> QED BY <3>1, <3>2
  <2>3. CASE DeleteProduct(j)
    <3> DEFINE new == [i \in DOMAIN shelf \ {order[j].id} |-> shelf[i]]
    <3>1. Shelve(j, new)  BY <2>3 DEF DeleteProduct
    <3>2. DOMAIN new \subseteq DOMAIN shelf /\ \A i \in DOMAIN new : new[i] \in Products
      BY <1>3 DEF ShelfTypes
    <3> HIDE DEF new
    <3> QED BY <3>1, <3>2, ShelveTypes DEF ImportTypes
  <2> QED BY <2>1, <2>2, <2>3
<1> QED BY <1>1, <1>2, <1>4 DEF ImportTypes, ShelfTypes

LEMMA NextImportTypes ==
  ImportTypes /\ RowsFit /\ [ImportNext]_importVars => ImportTypes' /\ RowsFit'
<1> SUFFICES ASSUME ImportTypes, RowsFit, [ImportNext]_importVars
             PROVE  ImportTypes' /\ RowsFit'
  OBVIOUS
<1>1. CASE UNCHANGED importVars
  BY <1>1 DEF importVars, stores, loop, ImportTypes, RowsFit, RowFits, Row
<1> QED BY <1>1, QuietSteps, WritingSteps, SingleSteps DEF ImportNext, ImportRow

LEMMA InitImport == ImportInit => ImportTypes /\ RowsFit
<1> SUFFICES ASSUME ImportInit PROVE ImportTypes /\ RowsFit  OBVIOUS
<1>1. /\ minted \in 0 .. MaxProducts /\ DOMAIN shelf \subseteq 1 .. minted
      /\ \A i \in DOMAIN shelf : shelf[i] \in Products
  BY ImportConstants DEF ImportInit
<1>2. errors \in 0 .. MaxErrors  BY ImportConstants DEF ImportInit
<1> QED BY <1>1, <1>2 DEF ImportInit, ImportTypes, RowsFit, RowFits, ImportStages, PriceStages

(* Every variable keeps its type; all ids there are were given. *)
THEOREM ImportsTyped == ImportSpec => []ImportTypes
BY InitImport, NextImportTypes, PTL DEF ImportSpec

-----------------------------------------------------------------------------
(* CatalogImport: what a bulk job does, told row by row. *)
LEMMA RowAbout ==
  ASSUME NEW j \in Jobs, NEW m \in Nat, NEW n,
         order[j].rows[m + 1].price \in Nat
  PROVE  LET row == order[j].rows[m + 1]
         IN  /\ Valid(j, m + 1) = IF row.price > 0 THEN Valid(j, m) \cup {m + 1} ELSE Valid(j, m)
             /\ About(j, m + 1, n) = IF row.price > 0 /\ row.name = n
                                     THEN About(j, m, n) \cup {m + 1} ELSE About(j, m, n)
             /\ m + 1 \notin Valid(j, m) /\ About(j, m, n) \subseteq 1 .. m
<1>1. 1 .. (m + 1) = (1 .. m) \cup {m + 1} /\ m + 1 \notin 1 .. m  OBVIOUS
<1>2. Valid(j, m + 1) =
        IF order[j].rows[m + 1].price > 0 THEN Valid(j, m) \cup {m + 1} ELSE Valid(j, m)
  BY <1>1 DEF Valid
<1>3. About(j, m + 1, n) =
        IF order[j].rows[m + 1].price > 0 /\ order[j].rows[m + 1].name = n
        THEN About(j, m, n) \cup {m + 1} ELSE About(j, m, n)
  BY <1>2 DEF About
<1>4. m + 1 \notin Valid(j, m) /\ About(j, m, n) \subseteq 1 .. m  BY <1>1 DEF About, Valid
<1> QED BY <1>2, <1>3, <1>4

LEMMA RowLast ==
  ASSUME NEW j \in Jobs, NEW m \in Nat, NEW n,
         order[j].rows[m + 1].price \in Nat, order[j].rows[m + 1].price > 0,
         order[j].rows[m + 1].name = n
  PROVE  LastAbout(j, m + 1, n) = order[j].rows[m + 1]
<1>1. About(j, m + 1, n) = About(j, m, n) \cup {m + 1} /\ About(j, m, n) \subseteq 1 .. m
  BY RowAbout
<1>2. \A r \in About(j, m + 1, n) : r \in 1 .. (m + 1)  BY <1>1
<1>3. \A r \in About(j, m + 1, n) :
        (\A q \in About(j, m + 1, n) : q <= r) <=> r = m + 1
  <2> SUFFICES ASSUME NEW r \in About(j, m + 1, n)
               PROVE  (\A q \in About(j, m + 1, n) : q <= r) <=> r = m + 1
    OBVIOUS
  <2>1. r \in 1 .. (m + 1) /\ m + 1 \in About(j, m + 1, n)  BY <1>1, <1>2
  <2> QED BY <1>2, <2>1
<1>4. m + 1 \in About(j, m + 1, n)  BY <1>1
<1>5. (CHOOSE r \in About(j, m + 1, n) : \A q \in About(j, m + 1, n) : q <= r) = m + 1
  BY <1>3, <1>4
<1> QED BY <1>5 DEF LastAbout

(* A row that is not about a name changes nothing of what is told of it. *)
LEMMA ToldOthers ==
  ASSUME NEW j \in Jobs, NEW m \in Nat, NEW n, NEW old,
         order[j].rows[m + 1].price \in Nat,
         order[j].rows[m + 1].price = 0 \/ order[j].rows[m + 1].name # n,
         Told(j, m, old, n)
  PROVE  Told(j, m + 1, old, n)
<1>1. ~(order[j].rows[m + 1].price > 0 /\ order[j].rows[m + 1].name = n)  OBVIOUS
<1>2. About(j, m + 1, n) = About(j, m, n)  BY <1>1, RowAbout
<1> QED BY <1>2 DEF Told, LastAbout

LEMMA ToldRow ==
  ASSUME order' = order, NEW j \in Jobs, NEW m \in Nat, NEW n, NEW old,
         order[j].rows[m + 1].price \in Nat, order[j].rows[m + 1].price > 0,
         order[j].rows[m + 1].name = n,
         Placed(n, old)', Carries(n, order[j].rows[m + 1])'
  PROVE  Told(j, m + 1, old, n)'
<1>1. About(j, m + 1, n) = About(j, m, n) \cup {m + 1}  BY RowAbout
<1>2. LastAbout(j, m + 1, n) = order[j].rows[m + 1]  BY RowLast
<1>3. About(j, m + 1, n)' # {} /\ LastAbout(j, m + 1, n)' = order'[j].rows[m + 1]
  BY <1>1, <1>2 DEF About, Valid, LastAbout
<1> QED BY <1>3 DEF Told

(* What a step does not touch stays told. *)
Spared(n) == Named(n, shelf') = Named(n, shelf) /\ \A i \in Named(n, shelf) : shelf'[i] = shelf[i]

LEMMA ToldStays ==
  ASSUME order' = order, NEW j \in Jobs, NEW m, NEW n, NEW old, Spared(n), Told(j, m, old, n)
  PROVE  Told(j, m, old, n)'
<1>1. About(j, m, n)' = About(j, m, n) /\ LastAbout(j, m, n)' = LastAbout(j, m, n)
  BY DEF About, Valid, LastAbout
<1>2. CASE About(j, m, n) = {}
  BY <1>1, <1>2 DEF Told, Untouched, Spared
<1>3. CASE About(j, m, n) # {}
  <2>1. Placed(n, old)'  BY <1>3 DEF Told, Placed, Spared
  <2>2. Carries(n, LastAbout(j, m, n))'  BY <1>1, <1>3 DEF Told, Carries, Spared
  <2> QED BY <1>1, <1>3, <2>1, <2>2 DEF Told
<1> QED BY <1>2, <1>3

(* The tally after one row more. *)
CountsFit(j, m, old) ==
  /\ IsFiniteSet(Valid(j, m)) /\ IsFiniteSet(Missing(j, m, old))
  /\ Tallied(j, m, old)

LEMMA TalliedInvalid ==
  ASSUME order' = order, NEW j \in Jobs, NEW m \in Nat, NEW old,
         tally \in [Jobs -> [created : Nat, updated : Nat, skipped : Nat]],
         order[j].rows[m + 1].price \in Nat, order[j].rows[m + 1].price = 0,
         CountsFit(j, m, old), Count(j, "skipped")
  PROVE  CountsFit(j, m + 1, old)'
<1> DEFINE row == order[j].rows[m + 1]
<1>1. ~(row.price > 0)  OBVIOUS
<1>2. Valid(j, m + 1)' = Valid(j, m)
  <2>1. Valid(j, m + 1) = Valid(j, m)  BY <1>1, RowAbout
  <2> QED BY <2>1 DEF Valid
<1>3. Missing(j, m + 1, old)' = Missing(j, m, old)
  <2>1. \A n : About(j, m + 1, n)' = About(j, m, n)  BY <1>2 DEF About
  <2> QED BY <2>1 DEF Missing
<1>4. Cardinality(Valid(j, m)) \in Nat /\ Cardinality(Missing(j, m, old)) \in Nat
  BY FS_CardinalityType DEF CountsFit
<1>5. Tallied(j, m + 1, old)'
  <2>1. tally'[j] = [tally[j] EXCEPT !.skipped = @ + 1]  BY DEF Count
  <2> HIDE DEF row
  <2> QED BY <1>2, <1>3, <1>4, <2>1 DEF CountsFit, Tallied
<1> QED BY <1>2, <1>3, <1>5 DEF CountsFit

LEMMA TalliedValid ==
  ASSUME order' = order, NEW j \in Jobs, NEW m \in Nat, NEW old,
         tally \in [Jobs -> [created : Nat, updated : Nat, skipped : Nat]],
         NEW n \in Names, order[j].rows[m + 1].name = n,
         order[j].rows[m + 1].price \in Nat, order[j].rows[m + 1].price > 0,
         CountsFit(j, m, old),
         NEW outcome \in {"created", "updated"}, Count(j, outcome),
         outcome = "created" <=> About(j, m, n) = {} /\ Named(n, old) = {}
  PROVE  CountsFit(j, m + 1, old)'
<1>1. /\ Valid(j, m + 1)' = Valid(j, m) \cup {m + 1} /\ m + 1 \notin Valid(j, m)
      /\ About(j, m + 1, n)' # {}
      /\ \A k \in Names \ {n} : About(j, m + 1, k)' = About(j, m, k)
  <2>1. Valid(j, m + 1) = Valid(j, m) \cup {m + 1} /\ m + 1 \notin Valid(j, m)  BY RowAbout
  <2>2. About(j, m + 1, n) # {}
    <3>1. About(j, m + 1, n) = About(j, m, n) \cup {m + 1}  BY RowAbout
    <3> QED BY <3>1
  <2>3. ASSUME NEW k \in Names \ {n} PROVE About(j, m + 1, k) = About(j, m, k)
    <3>1. ~(order[j].rows[m + 1].price > 0 /\ order[j].rows[m + 1].name = k)  OBVIOUS
    <3> QED BY <3>1, RowAbout
  <2> QED BY <2>1, <2>2, <2>3 DEF About, Valid
<1>2. /\ Cardinality(Valid(j, m)) \in Nat
      /\ Cardinality(Valid(j, m + 1)') = Cardinality(Valid(j, m)) + 1
      /\ IsFiniteSet(Valid(j, m + 1)')
  BY <1>1, FS_AddElement, FS_CardinalityType DEF CountsFit
<1>3. Cardinality(Missing(j, m, old)) \in Nat  BY FS_CardinalityType DEF CountsFit
<1>4. CASE outcome = "created"
  <2>1. Missing(j, m + 1, old)' = Missing(j, m, old) \cup {n} /\ n \notin Missing(j, m, old)
    BY <1>1, <1>4 DEF Missing, Named
  <2>2. /\ IsFiniteSet(Missing(j, m + 1, old)')
        /\ Cardinality(Missing(j, m + 1, old)') = Cardinality(Missing(j, m, old)) + 1
    BY <2>1, FS_AddElement DEF CountsFit
  <2>3. tally'[j] = [tally[j] EXCEPT !.created = @ + 1]  BY <1>4 DEF Count
  <2>4. Tallied(j, m + 1, old)'  BY <1>2, <1>3, <2>2, <2>3 DEF CountsFit, Tallied
  <2> QED BY <1>2, <2>2, <2>4 DEF CountsFit
<1>5. CASE outcome = "updated"
  <2>1. Missing(j, m + 1, old)' = Missing(j, m, old)  BY <1>1, <1>5 DEF Missing, Named
  <2>2. tally'[j] = [tally[j] EXCEPT !.updated = @ + 1]  BY <1>5 DEF Count
  <2>3. Tallied(j, m + 1, old)'  BY <1>2, <1>3, <2>1, <2>2 DEF CountsFit, Tallied
  <2> QED BY <1>2, <2>1, <2>3 DEF CountsFit
<1> QED BY <1>4, <1>5

-----------------------------------------------------------------------------
LEMMA Rewritten ==
  ASSUME NEW i \in DOMAIN shelf, DOMAIN shelf' = DOMAIN shelf,
         shelf'[i].name = shelf[i].name, \A k \in DOMAIN shelf \ {i} : shelf'[k] = shelf[k]
  PROVE  \A n : /\ Named(n, shelf') = Named(n, shelf)
                /\ n # shelf[i].name => Spared(n)
<1>1. \A k \in DOMAIN shelf : shelf'[k].name = shelf[k].name  OBVIOUS
<1>2. \A n : Named(n, shelf') = Named(n, shelf)  BY <1>1 DEF Named
<1> QED BY <1>2 DEF Spared, Named

LEMMA Minted ==
  ASSUME ShelfTypes, NEW j, NEW product \in Products, Mint(j, product)
  PROVE  /\ Named(product.name, shelf') = Named(product.name, shelf) \cup {minted + 1}
         /\ shelf'[minted + 1] = product
         /\ \A n : n # product.name => Spared(n)
<1>1. minted + 1 \notin DOMAIN shelf  BY DEF ShelfTypes
<1>2. /\ DOMAIN shelf' = DOMAIN shelf \cup {minted + 1}
      /\ shelf'[minted + 1] = product
      /\ \A i \in DOMAIN shelf : shelf'[i] = shelf[i]
  BY <1>1 DEF Mint
<1> QED BY <1>1, <1>2 DEF Named, Spared

(* Where an import is that nothing has disturbed *)
Linkings == {"linking", "linkingNew"}
ImportLoop(j) ==
  LET m == line[j] - 1
      old == before[j]
      name == Row(j).name
  IN  /\ line[j] <= Len(order[j].rows) + 1
      /\ CountsFit(j, m, old)
      /\ stage[j] \notin Linkings => Imported(j, m, old)
      /\ stage[j] \in ImportStages => Row(j).price > 0
      /\ stage[j] = "newCategory" => Row(j).category \notin categories
      /\ stage[j] = "creating" => Named(name, shelf) = {}
      /\ stage[j] = "updating" => target[j] \in Named(name, shelf)
      /\ stage[j] \in Linkings =>
           /\ \A n \in Names \ {name} : Told(j, m, old, n)
           /\ Placed(name, old)
           /\ target[j] \in Named(name, shelf) /\ shelf[target[j]].price = Row(j).price
           /\ stage[j] = "linkingNew" <=> About(j, m, name) = {} /\ Named(name, old) = {}

LEMMA SameCounts ==
  ASSUME order' = order, NEW j, NEW m, NEW old, tally'[j] = tally[j], CountsFit(j, m, old)
  PROVE  CountsFit(j, m, old)'
<1>1. Valid(j, m)' = Valid(j, m) /\ Missing(j, m, old)' = Missing(j, m, old)
  BY DEF Valid, Missing, About
<1> QED BY <1>1 DEF CountsFit, Tallied

LEMMA SpareAll == shelf' = shelf => \A n : Spared(n)
BY DEF Spared, Named

LEMMA SameImported ==
  ASSUME order' = order, shelf' = shelf, NEW j \in Jobs, NEW m, NEW old, Imported(j, m, old)
  PROVE  Imported(j, m, old)'
BY SpareAll, ToldStays DEF Imported

(* What the steps of others leave of it *)
LEMMA ImportLoopStays ==
  ASSUME order' = order, shelf' = shelf, categories' = categories, NEW j \in Jobs,
         before'[j] = before[j], line'[j] = line[j], tally'[j] = tally[j],
         stage'[j] = stage[j], target'[j] = target[j], ImportLoop(j)
  PROVE  ImportLoop(j)'
<1> DEFINE m == line[j] - 1
           old == before[j]
           name == Row(j).name
<1>1. m' = m /\ old' = old /\ Row(j)' = Row(j) /\ name' = name  BY DEF Row
<1>2. CountsFit(j, m, old)'
  <2>1. CountsFit(j, m, old)  BY DEF ImportLoop
  <2> HIDE DEF m, old
  <2> QED BY <1>1, <2>1, SameCounts
<1>3. stage[j] \notin Linkings => Imported(j, m, old)'
  <2>1. stage[j] \notin Linkings => Imported(j, m, old)  BY DEF ImportLoop
  <2> HIDE DEF m, old
  <2> QED BY <1>1, <2>1, SameImported
<1>4. ASSUME stage[j] \in Linkings
      PROVE  /\ \A n \in Names \ {name} : Told(j, m, old, n)'
             /\ Placed(name, old)'
             /\ target'[j] \in Named(name, shelf') /\ shelf'[target'[j]].price = Row(j).price
             /\ stage[j] = "linkingNew" <=> About(j, m, name)' = {} /\ Named(name, old)' = {}
  <2>1. /\ \A n \in Names \ {name} : Told(j, m, old, n)
        /\ Placed(name, old)
        /\ target[j] \in Named(name, shelf) /\ shelf[target[j]].price = Row(j).price
        /\ stage[j] = "linkingNew" <=> About(j, m, name) = {} /\ Named(name, old) = {}
    BY <1>4 DEF ImportLoop
  <2> HIDE DEF m, old, name
  <2>2. \A n \in Names \ {name} : Told(j, m, old, n)'
    <3>1. ASSUME NEW n \in Names \ {name} PROVE Told(j, m, old, n)'
      <4>1. Told(j, m, old, n) /\ Spared(n)  BY <2>1, SpareAll
      <4>2. Told(j, m, old, n)'  BY <1>1, <4>1, ToldStays
      <4> QED BY <4>2
    <3> QED BY <3>1
  <2>3. Placed(name, old)'  BY <1>1, <2>1 DEF Placed
  <2>4. About(j, m, name)' = About(j, m, name)  BY <1>1 DEF About, Valid
  <2> QED BY <1>1, <2>1, <2>2, <2>3, <2>4
<1>5. stage[j] \in Linkings =>
        /\ \A n \in Names \ {name'} : Told(j, m, old, n)'
        /\ Placed(name, old)'
        /\ target'[j] \in Named(name, shelf)' /\ (shelf[target[j]].price)' = (Row(j).price)'
        /\ stage'[j] = "linkingNew" <=> About(j, m, name)' = {} /\ Named(name, old)' = {}
  BY <1>1, <1>4
<1> QED BY <1>1, <1>2, <1>3, <1>5 DEF ImportLoop

(* Its own steps: from statement to statement, *)
LEMMA ImportMoves ==
  ASSUME order' = order, before' = before, shelf' = shelf, RowsFit,
         NEW j \in Jobs, ImportLoop(j), stage[j] \notin Linkings, Row(j).price > 0,
         NEW s \in ImportStages \ Linkings, Stage(j, s),
         s = "newCategory" => Row(j).category \notin categories',
         s = "creating" => Named(Row(j).name, shelf) = {},
         s = "updating" => target'[j] \in Named(Row(j).name, shelf)
  PROVE  ImportLoop(j)'
<1> DEFINE m == line[j] - 1
           old == before[j]
<1>1. m' = m /\ old' = old /\ Row(j)' = Row(j) /\ line' = line /\ tally' = tally
  BY DEF Row, Stage
<1>2. stage'[j] = s  BY DEF Stage, RowsFit
<1>3. CountsFit(j, m, old)'
  <2>1. CountsFit(j, m, old)  BY DEF ImportLoop
  <2> HIDE DEF m, old
  <2> QED BY <1>1, <2>1, SameCounts
<1>4. Imported(j, m, old)'
  <2>1. Imported(j, m, old)  BY DEF ImportLoop
  <2> HIDE DEF m, old
  <2> QED BY <1>1, <2>1, SameImported
<1>5. line'[j] <= Len(order'[j].rows) + 1  BY <1>1 DEF ImportLoop
<1>6. stage'[j] \notin Linkings  BY <1>2
<1> QED BY <1>1, <1>2, <1>3, <1>4, <1>5, <1>6 DEF ImportLoop

(* and from a row to the next. *)
LEMMA ImportCounts ==
  ASSUME order' = order, before' = before, NEW j \in Jobs,
         NEW m \in Nat, line[j] = m + 1, m < Len(order[j].rows), NEW old, before[j] = old,
         Len(order[j].rows) \in Nat, line'[j] = m + 2, stage'[j] = "row",
         CountsFit(j, m + 1, old)', Imported(j, m + 1, old)'
  PROVE  ImportLoop(j)'
<1>1. line'[j] - 1 = m + 1 /\ line'[j] <= Len(order'[j].rows) + 1  OBVIOUS
<1>2. "row" \notin ImportStages /\ "row" \notin Linkings  BY DEF ImportStages, Linkings
<1>3. CountsFit(j, line[j] - 1, before[j])' /\ Imported(j, line[j] - 1, before[j])'
  BY <1>1
<1> QED BY <1>1, <1>2, <1>3 DEF ImportLoop

LEMMA RowDone ==
  ASSUME order' = order, NEW j \in Jobs, NEW m \in Nat, NEW n \in Names, NEW old,
         order[j].rows[m + 1].price \in Nat, order[j].rows[m + 1].price > 0,
         order[j].rows[m + 1].name = n,
         \A k \in Names \ {n} : Told(j, m, old, k) /\ Spared(k),
         Placed(n, old)', Carries(n, order[j].rows[m + 1])'
  PROVE  Imported(j, m + 1, old)'
<1>1. Told(j, m + 1, old, n)'  BY ToldRow
<1>2. ASSUME NEW k \in Names \ {n} PROVE Told(j, m + 1, old, k)'
  <2>1. Told(j, m + 1, old, k)  BY <1>2, ToldOthers
  <2> QED BY <1>2, <2>1, ToldStays
<1> QED BY <1>1, <1>2 DEF Imported

LEMMA QuietRowSteps ==
  ASSUME ImportTypes, RowsFit, NEW j \in Jobs, ImportLoop(j),
         \/ FindCategory(j) \/ NewCategory(j) \/ FindSupplier(j) \/ NewSupplier(j)
         \/ FindProduct(j)
  PROVE  ImportLoop(j)'
<1>1. /\ order' = order /\ before' = before /\ shelf' = shelf /\ stage[j] \notin Linkings
      /\ stage[j] \in ImportStages
  BY DEF FindCategory, NewCategory, FindSupplier, NewSupplier, FindProduct, stores,
         Linkings, ImportStages, ImportLoop
<1>2. Row(j).price > 0  BY <1>1 DEF ImportLoop
<1>3. Supplied(j) \in {"product", "supplier"}  BY DEF Supplied
<1>4. /\ {"product", "supplier", "newSupplier", "newCategory", "creating", "updating"}
           \subseteq ImportStages \ Linkings
  BY DEF ImportStages, Linkings
<1>5. CASE FindCategory(j)
  <2>1. CASE Row(j).category \in categories
    BY <1>1, <1>2, <1>3, <1>4, <1>5, <2>1, ImportMoves DEF FindCategory
  <2>2. CASE Row(j).category \notin categories
    <3>1. Stage(j, "newCategory") /\ categories' = categories
      BY <1>5, <2>2 DEF FindCategory, stores
    <3> QED BY <1>1, <1>2, <1>4, <2>2, <3>1, ImportMoves
  <2> QED BY <2>1, <2>2
<1>6. CASE NewCategory(j)
  <2>1. Row(j).category \notin categories  BY <1>6 DEF NewCategory, ImportLoop
  <2>2. Stage(j, Supplied(j))  BY <1>6, <2>1 DEF NewCategory
  <2> QED BY <1>1, <1>2, <1>3, <1>4, <2>2, ImportMoves
<1>7. CASE FindSupplier(j)
  <2>1. Stage(j, "product") \/ Stage(j, "newSupplier")  BY <1>7 DEF FindSupplier
  <2> QED BY <1>1, <1>2, <1>4, <2>1, ImportMoves
<1>8. CASE NewSupplier(j)
  <2>1. Stage(j, "product")  BY <1>8 DEF NewSupplier
  <2> QED BY <1>1, <1>2, <1>4, <2>1, ImportMoves
<1>9. CASE FindProduct(j)
  <2>1. CASE Named(Row(j).name, shelf) = {}
    <3>1. Stage(j, "creating")  BY <1>9, <2>1 DEF FindProduct, Named
    <3> QED BY <1>1, <1>2, <1>4, <2>1, <3>1, ImportMoves
  <2>2. CASE Named(Row(j).name, shelf) # {}
    <3>1. PICK i \in Named(Row(j).name, shelf) :
            Stage(j, "updating") /\ target' = [target EXCEPT ![j] = i]
      BY <1>9, <2>2 DEF FindProduct, Named
    <3>2. target'[j] = i  BY <3>1 DEF ImportTypes
    <3> QED BY <1>1, <1>2, <1>4, <3>1, <3>2, ImportMoves
  <2> QED BY <2>1, <2>2
<1> QED BY <1>5, <1>6, <1>7, <1>8, <1>9

(* What a job in one of its statements knows of its row *)
LEMMA AtRow ==
  ASSUME ImportTypes, RowsFit, NEW j \in Jobs, ImportLoop(j), stage[j] \in ImportStages
  PROVE  \E m \in Nat :
           /\ line[j] = m + 1 /\ m < Len(order[j].rows) /\ Len(order[j].rows) \in Nat
           /\ Row(j) = order[j].rows[m + 1] /\ Row(j) \in Rows
           /\ order[j].rows[m + 1].name \in Names
           /\ order[j].rows[m + 1].price \in Nat /\ order[j].rows[m + 1].price > 0
           /\ CountsFit(j, m, before[j])
           /\ stage[j] \notin Linkings => Imported(j, m, before[j])
<1>1. /\ line[j] \in Nat /\ line[j] > 0 /\ order[j].kind = "import"
      /\ line[j] <= Len(order[j].rows)
  BY DEF ImportTypes, RowsFit, RowFits
<1>2. order[j].rows \in Seq(Rows)  BY <1>1, Ordered
<1>3. Row(j) \in Rows  BY RowTypes
<1>4. Row(j).price > 0  BY DEF ImportLoop
<1>5. /\ CountsFit(j, line[j] - 1, before[j])
      /\ stage[j] \notin Linkings => Imported(j, line[j] - 1, before[j])
  BY DEF ImportLoop
<1> DEFINE m == line[j] - 1
<1>6. m \in Nat /\ line[j] = m + 1  BY <1>1
<1>7. Row(j) = order[j].rows[m + 1]  BY <1>6 DEF Row
<1>8. Row(j).name \in Names /\ Row(j).price \in Nat  BY <1>3 DEF Rows
<1>9. Len(order[j].rows) \in Nat /\ m < Len(order[j].rows)  BY <1>1, <1>2, <1>6
<1> QED
  <2>1. CountsFit(j, m, before[j]) /\ (stage[j] \notin Linkings => Imported(j, m, before[j]))
    BY <1>5
  <2> HIDE DEF m
  <2> QED BY <1>3, <1>4, <1>6, <1>7, <1>8, <1>9, <2>1

LEMMA ImportLinks ==
  ASSUME order' = order, before' = before, RowsFit, NEW j \in Jobs,
         NEW m \in Nat, line[j] = m + 1, m < Len(order[j].rows), Len(order[j].rows) \in Nat,
         NEW old, before[j] = old, NEW n \in Names, order[j].rows[m + 1].name = n,
         order[j].rows[m + 1].price > 0, CountsFit(j, m, old),
         \A k \in Names \ {n} : Told(j, m, old, k) /\ Spared(k), Placed(n, old)',
         target'[j] \in Named(n, shelf'),
         shelf'[target'[j]].price = order[j].rows[m + 1].price,
         NEW s \in Linkings, Stage(j, s),
         s = "linkingNew" <=> About(j, m, n) = {} /\ Named(n, old) = {}
  PROVE  ImportLoop(j)'
<1>1. /\ line' = line /\ tally' = tally /\ stage'[j] = s
  BY DEF Stage, RowsFit
<1>2. line'[j] - 1 = m /\ before'[j] = old /\ line'[j] <= Len(order'[j].rows) + 1
  BY <1>1
<1>3. Row(j)' = order[j].rows[m + 1]  BY <1>1 DEF Row
<1>4. CountsFit(j, m, old)'  BY <1>1, SameCounts
<1>5. \A k \in Names \ {n} : Told(j, m, old, k)'
  <2>1. ASSUME NEW k \in Names \ {n} PROVE Told(j, m, old, k)'  BY <2>1, ToldStays
  <2> QED BY <2>1
<1>6. About(j, m, n)' = About(j, m, n) /\ Named(n, old)' = Named(n, old)
  BY DEF About, Valid, Named
<1>7. s \notin {"newCategory", "creating", "updating"}  BY DEF Linkings
<1>8. /\ (Row(j).price)' > 0 /\ (Row(j).name)' = n
      /\ target'[j] \in Named(n, shelf)' /\ shelf'[target'[j]].price = (Row(j).price)'
  BY <1>3 DEF Named
<1> QED BY <1>1, <1>2, <1>4, <1>5, <1>6, <1>7, <1>8 DEF ImportLoop

LEMMA UpdateSteps ==
  ASSUME ImportTypes, RowsFit, NEW j \in Jobs, ImportLoop(j), UpdateProduct(j)
  PROVE  ImportLoop(j)'
<1>1. /\ stage[j] = "updating" /\ order' = order /\ before' = before /\ target' = target
      /\ stage[j] \in ImportStages /\ stage[j] \notin Linkings
  BY DEF UpdateProduct, ImportStages, Linkings
<1>2. PICK m \in Nat :
        /\ line[j] = m + 1 /\ m < Len(order[j].rows) /\ Len(order[j].rows) \in Nat
        /\ Row(j) = order[j].rows[m + 1] /\ Row(j) \in Rows
        /\ order[j].rows[m + 1].name \in Names
        /\ order[j].rows[m + 1].price \in Nat /\ order[j].rows[m + 1].price > 0
        /\ CountsFit(j, m, before[j])
        /\ stage[j] \notin Linkings => Imported(j, m, before[j])
  BY <1>1, AtRow
<1>3. PICK old : old = before[j]  OBVIOUS
<1>4. PICK n \in Names : n = order[j].rows[m + 1].name  BY <1>2
<1>5. target[j] \in Named(n, shelf)  BY <1>1, <1>2, <1>4 DEF ImportLoop
<1>6. Imported(j, m, old)  BY <1>1, <1>2, <1>3
<1>7. ShelfTypes  BY DEF ImportTypes, ShelfTypes
<1>8. /\ DOMAIN shelf' = DOMAIN shelf /\ shelf'[target[j]].name = n
      /\ shelf'[target[j]].price = Row(j).price
      /\ \A k \in DOMAIN shelf \ {target[j]} : shelf'[k] = shelf[k]
  <2>1. target[j] \in DOMAIN shelf /\ shelf[target[j]].name = n  BY <1>5 DEF Named
  <2>2. shelf' = [shelf EXCEPT ![target[j]].price = Row(j).price]
    BY <2>1 DEF UpdateProduct, Here, Shelve
  <2>3. shelf[target[j]] \in Products  BY <1>7, <2>1 DEF ShelfTypes
  <2>4. shelf'[target[j]] = [shelf[target[j]] EXCEPT !.price = Row(j).price]  BY <2>1, <2>2
  <2>5. shelf'[target[j]].name = n /\ shelf'[target[j]].price = Row(j).price
    BY <2>1, <2>3, <2>4 DEF Products
  <2> QED BY <2>1, <2>2, <2>5
<1>9. \A k : /\ Named(k, shelf') = Named(k, shelf)
             /\ k # n => Spared(k)
  <2>1. target[j] \in DOMAIN shelf /\ shelf[target[j]].name = n  BY <1>5 DEF Named
  <2> QED BY <1>8, <2>1, Rewritten
<1>10. Placed(n, old) /\ ~(About(j, m, n) = {} /\ Named(n, old) = {})
  <2>1. Told(j, m, old, n)  BY <1>6 DEF Imported
  <2> QED BY <1>5, <2>1 DEF Told, Untouched, Placed
<1>11. Placed(n, old)'  BY <1>9, <1>10 DEF Placed
<1>12. \A k \in Names \ {n} : Told(j, m, old, k) /\ Spared(k)  BY <1>6, <1>9 DEF Imported
<1>13. /\ target[j] \in Named(n, shelf')
       /\ shelf'[target[j]].price = order[j].rows[m + 1].price
  BY <1>2, <1>5, <1>8, <1>9
<1>14. CASE Row(j).supplier = Nobody
  <2>1. Count(j, "updated")  BY <1>5, <1>14 DEF UpdateProduct, Here, Named
  <2>2. Carries(n, order[j].rows[m + 1])'  BY <1>1, <1>2, <1>13, <1>14 DEF Carries
  <2>3. CountsFit(j, m + 1, old)'
    BY <1>1, <1>2, <1>3, <1>4, <1>10, <2>1, TalliedValid DEF ImportTypes
  <2>4. Imported(j, m + 1, old)'  BY <1>1, <1>2, <1>4, <1>11, <1>12, <2>2, RowDone
  <2>5. line'[j] = m + 2 /\ stage'[j] = "row"  BY <1>2, <2>1 DEF Count, ImportTypes, RowsFit
  <2> QED BY <1>1, <1>2, <1>3, <2>3, <2>4, <2>5, ImportCounts
<1>15. CASE Row(j).supplier # Nobody
  <2>1. Stage(j, "linking")  BY <1>5, <1>15 DEF UpdateProduct, Here, Named
  <2>2. "linking" \in Linkings  BY DEF Linkings
  <2> QED BY <1>1, <1>2, <1>3, <1>4, <1>10, <1>11, <1>12, <1>13, <2>1, <2>2, ImportLinks
<1> QED BY <1>14, <1>15

LEMMA InsertSteps ==
  ASSUME ImportTypes, RowsFit, NEW j \in Jobs, ImportLoop(j), InsertProduct(j)
  PROVE  ImportLoop(j)'
<1>1. /\ stage[j] = "creating" /\ order' = order /\ before' = before
      /\ stage[j] \in ImportStages /\ stage[j] \notin Linkings
  BY DEF InsertProduct, ImportStages, Linkings
<1>2. PICK m \in Nat :
        /\ line[j] = m + 1 /\ m < Len(order[j].rows) /\ Len(order[j].rows) \in Nat
        /\ Row(j) = order[j].rows[m + 1] /\ Row(j) \in Rows
        /\ order[j].rows[m + 1].name \in Names
        /\ order[j].rows[m + 1].price \in Nat /\ order[j].rows[m + 1].price > 0
        /\ CountsFit(j, m, before[j])
        /\ stage[j] \notin Linkings => Imported(j, m, before[j])
  BY <1>1, AtRow
<1>3. PICK old : old = before[j]  OBVIOUS
<1>4. PICK n \in Names : n = order[j].rows[m + 1].name  BY <1>2
<1>5. Named(n, shelf) = {}  BY <1>1, <1>2, <1>4 DEF ImportLoop
<1>6. Imported(j, m, old)  BY <1>1, <1>2, <1>3
<1>7. ShelfTypes  BY DEF ImportTypes, ShelfTypes
<1>8. /\ Named(n, shelf') = {minted + 1} /\ target'[j] = minted + 1
      /\ shelf'[minted + 1].price = order[j].rows[m + 1].price
      /\ \A k : k # n => Spared(k)
  <2> DEFINE product == [name |-> Row(j).name, price |-> Row(j).price, suppliers |-> {}]
  <2>1. product \in Products /\ product.name = n /\ product.price = order[j].rows[m + 1].price
    BY <1>2, <1>4 DEF Products
  <2>2. Mint(j, product) /\ target' = [target EXCEPT ![j] = minted + 1]  BY DEF InsertProduct
  <2> HIDE DEF product
  <2>3. Named(n, shelf') = {minted + 1} /\ shelf'[minted + 1] = product /\ \A k : k # n => Spared(k)
    BY <1>5, <1>7, <2>1, <2>2, Minted
  <2>4. target'[j] = minted + 1  BY <2>2 DEF ImportTypes
  <2> QED BY <2>1, <2>3, <2>4
<1>9. About(j, m, n) = {} /\ Named(n, old) = {}
  <2>1. Told(j, m, old, n)  BY <1>6 DEF Imported
  <2> QED BY <1>5, <2>1 DEF Told, Untouched, Carries
<1>10. Placed(n, old)'  BY <1>8, <1>9 DEF Placed, Named
<1>11. \A k \in Names \ {n} : Told(j, m, old, k) /\ Spared(k)  BY <1>6, <1>8 DEF Imported
<1>12. CASE Row(j).supplier = Nobody
  <2>1. Count(j, "created")  BY <1>12 DEF InsertProduct
  <2>2. Carries(n, order[j].rows[m + 1])'  BY <1>1, <1>2, <1>8, <1>12 DEF Carries
  <2>3. CountsFit(j, m + 1, old)'
    BY <1>1, <1>2, <1>3, <1>4, <1>9, <2>1, TalliedValid DEF ImportTypes
  <2>4. Imported(j, m + 1, old)'  BY <1>1, <1>2, <1>4, <1>10, <1>11, <2>2, RowDone
  <2>5. line'[j] = m + 2 /\ stage'[j] = "row"  BY <1>2, <2>1 DEF Count, ImportTypes, RowsFit
  <2> QED BY <1>1, <1>2, <1>3, <2>3, <2>4, <2>5, ImportCounts
<1>13. CASE Row(j).supplier # Nobody
  <2>1. Stage(j, "linkingNew")  BY <1>13 DEF InsertProduct
  <2>2. "linkingNew" \in Linkings  BY DEF Linkings
  <2>3. target'[j] \in Named(n, shelf') /\ shelf'[target'[j]].price = order[j].rows[m + 1].price
    BY <1>8
  <2> QED BY <1>1, <1>2, <1>3, <1>4, <1>9, <1>10, <1>11, <2>1, <2>2, <2>3, ImportLinks
<1> QED BY <1>12, <1>13

LEMMA LinkSteps ==
  ASSUME ImportTypes, RowsFit, NEW j \in Jobs, ImportLoop(j), LinkSupplier(j)
  PROVE  ImportLoop(j)'
<1>1. /\ stage[j] \in Linkings /\ order' = order /\ before' = before
      /\ stage[j] \in ImportStages
  BY DEF LinkSupplier, ImportStages, Linkings
<1>2. PICK m \in Nat :
        /\ line[j] = m + 1 /\ m < Len(order[j].rows) /\ Len(order[j].rows) \in Nat
        /\ Row(j) = order[j].rows[m + 1] /\ Row(j) \in Rows
        /\ order[j].rows[m + 1].name \in Names
        /\ order[j].rows[m + 1].price \in Nat /\ order[j].rows[m + 1].price > 0
        /\ CountsFit(j, m, before[j])
        /\ stage[j] \notin Linkings => Imported(j, m, before[j])
  BY <1>1, AtRow
<1>3. PICK old : old = before[j]  OBVIOUS
<1>4. PICK n \in Names : n = order[j].rows[m + 1].name  BY <1>2
<1>5. /\ \A k \in Names \ {n} : Told(j, m, old, k)
      /\ Placed(n, old)
      /\ target[j] \in Named(n, shelf) /\ shelf[target[j]].price = Row(j).price
      /\ stage[j] = "linkingNew" <=> About(j, m, n) = {} /\ Named(n, old) = {}
  <2>1. line[j] - 1 = m /\ Row(j).name = n  BY <1>2, <1>4
  <2> QED BY <1>1, <1>3, <2>1 DEF ImportLoop
<1>6. target[j] \in DOMAIN shelf /\ shelf[target[j]].name = n  BY <1>5 DEF Named
<1>7. /\ DOMAIN shelf' = DOMAIN shelf /\ shelf'[target[j]].name = n
      /\ shelf'[target[j]].price = Row(j).price
      /\ Row(j).supplier \in shelf'[target[j]].suppliers
      /\ \A k \in DOMAIN shelf \ {target[j]} : shelf'[k] = shelf[k]
  <2>1. shelf' = [shelf EXCEPT ![target[j]].suppliers = @ \cup {Row(j).supplier}]
    BY <1>6 DEF LinkSupplier, Here, Shelve
  <2>2. shelf[target[j]] \in Products  BY <1>6 DEF ImportTypes
  <2>3. shelf'[target[j]] = [shelf[target[j]] EXCEPT !.suppliers = @ \cup {Row(j).supplier}]
    BY <1>6, <2>1
  <2>4. /\ shelf'[target[j]].name = n /\ shelf'[target[j]].price = Row(j).price
        /\ Row(j).supplier \in shelf'[target[j]].suppliers
    BY <1>5, <1>6, <2>2, <2>3 DEF Products
  <2> QED BY <1>6, <2>1, <2>4
<1>8. \A k : /\ Named(k, shelf') = Named(k, shelf)
             /\ k # n => Spared(k)
  BY <1>6, <1>7, Rewritten
<1>9. Placed(n, old)'  BY <1>5, <1>8 DEF Placed
<1>10. \A k \in Names \ {n} : Told(j, m, old, k) /\ Spared(k)  BY <1>5, <1>8
<1>11. Carries(n, order[j].rows[m + 1])'
  <2>1. target[j] \in Named(n, shelf')  BY <1>5, <1>8
  <2>2. /\ shelf'[target[j]].price = order[j].rows[m + 1].price
        /\ order[j].rows[m + 1].supplier \in shelf'[target[j]].suppliers \cup {Nobody}
    BY <1>2, <1>7
  <2> QED BY <1>1, <2>1, <2>2 DEF Carries
<1>12. \E outcome \in {"created", "updated"} :
         /\ Count(j, outcome)
         /\ outcome = "created" <=> About(j, m, n) = {} /\ Named(n, old) = {}
  <2>1. Count(j, IF stage[j] = "linking" THEN "updated" ELSE "created")
    BY <1>6 DEF LinkSupplier, Here
  <2>2. stage[j] = "linking" \/ stage[j] = "linkingNew"  BY <1>1 DEF Linkings
  <2>3. CASE stage[j] = "linking"
    <3>1. Count(j, "updated")  BY <2>1, <2>3
    <3>2. ~(About(j, m, n) = {} /\ Named(n, old) = {})  BY <1>5, <2>3
    <3> QED BY <3>1, <3>2
  <2>4. CASE stage[j] = "linkingNew"
    <3>1. Count(j, "created")  BY <2>1, <2>4
    <3>2. About(j, m, n) = {} /\ Named(n, old) = {}  BY <1>5, <2>4
    <3> QED BY <3>1, <3>2
  <2> QED BY <2>2, <2>3, <2>4
<1>13. PICK outcome \in {"created", "updated"} :
         /\ Count(j, outcome)
         /\ outcome = "created" <=> About(j, m, n) = {} /\ Named(n, old) = {}
  BY <1>12
<1>14. CountsFit(j, m + 1, old)'
  BY <1>1, <1>2, <1>3, <1>4, <1>13, TalliedValid DEF ImportTypes
<1>15. Imported(j, m + 1, old)'  BY <1>1, <1>2, <1>4, <1>9, <1>10, <1>11, RowDone
<1>16. line'[j] = m + 2 /\ stage'[j] = "row"  BY <1>2, <1>13 DEF Count, ImportTypes, RowsFit
<1> QED BY <1>1, <1>2, <1>3, <1>14, <1>15, <1>16, ImportCounts

LEMMA HeadSteps ==
  ASSUME ImportTypes, RowsFit, NEW j \in Jobs, order[j].kind = "import", ImportLoop(j), NextRow(j)
  PROVE  stage'[j] # "ended" => ImportLoop(j)'
<1>1. /\ stage[j] = "row" /\ order' = order /\ before' = before /\ shelf' = shelf
      /\ categories' = categories /\ stage[j] \notin ImportStages /\ stage[j] \notin Linkings
  BY DEF NextRow, stores, ImportStages, Linkings
<1>2. line[j] \in Nat /\ line[j] > 0  BY DEF ImportTypes, RowsFit, RowFits
<1>3. order[j].rows \in Seq(Rows) /\ Len(order[j].rows) \in Nat  BY Ordered
<1>4. CASE line[j] > Len(order[j].rows)
  <2>1. stage'[j] = "ended"  BY <1>1, <1>4 DEF NextRow, Stage, RowsFit
  <2> QED BY <2>1
<1>5. CASE ~(line[j] > Len(order[j].rows))
  <2>1. PICK m \in Nat : line[j] = m + 1
    <3>1. line[j] - 1 \in Nat /\ line[j] = (line[j] - 1) + 1  BY <1>2
    <3> QED BY <3>1
  <2>2. PICK old : old = before[j]  OBVIOUS
  <2>3. m < Len(order[j].rows) /\ Row(j) = order[j].rows[m + 1]  BY <1>3, <1>5, <2>1 DEF Row
  <2>4. Row(j) \in Rows
    <3> DEFINE rs == order[j].rows
    <3>1. rs \in Seq(Rows) /\ m + 1 \in 1 .. Len(rs)  BY <1>3, <2>3
    <3> HIDE DEF rs
    <3>2. rs[m + 1] \in Rows  BY <3>1
    <3> QED BY <2>3, <3>2 DEF rs
  <2>5. Row(j).price \in Nat  BY <2>4 DEF Rows
  <2>6. line[j] - 1 = m  BY <2>1
  <2>7. CountsFit(j, m, old) /\ Imported(j, m, old)  BY <1>1, <2>2, <2>6 DEF ImportLoop
  <2>8. CASE Row(j).price = 0
    <3>1. Count(j, "skipped")  BY <1>5, <2>8 DEF NextRow
    <3>2. CountsFit(j, m + 1, old)'
      BY <1>1, <2>3, <2>5, <2>7, <2>8, <3>1, TalliedInvalid DEF ImportTypes
    <3>3. ASSUME NEW n \in Names PROVE Told(j, m + 1, old, n)'
      <4>1. Told(j, m, old, n)  BY <2>7 DEF Imported
      <4>2. Told(j, m + 1, old, n)  BY <2>3, <2>5, <2>8, <4>1, ToldOthers
      <4> QED BY <1>1, <4>2, SpareAll, ToldStays
    <3>4. Imported(j, m + 1, old)'  BY <3>3 DEF Imported
    <3>5. line'[j] = m + 2 /\ stage'[j] = "row"
      BY <2>1, <3>1 DEF Count, ImportTypes, RowsFit
    <3> QED BY <1>1, <1>3, <2>1, <2>2, <2>3, <3>2, <3>4, <3>5, ImportCounts
  <2>9. CASE Row(j).price # 0
    <3>1. Stage(j, "category")  BY <1>5, <2>9 DEF NextRow
    <3>2. Row(j).price > 0  BY <2>5, <2>9
    <3>3. "category" \in ImportStages \ Linkings  BY DEF ImportStages, Linkings
    <3> QED BY <1>1, <3>1, <3>2, <3>3, ImportMoves
  <2> QED BY <2>8, <2>9
<1> QED BY <1>4, <1>5

LEMMA StartSteps ==
  ASSUME ImportTypes, RowsFit, NEW j \in Jobs, order[j].kind = "import", DOMAIN before = Jobs,
         line[j] = 1, tally[j] = [created |-> 0, updated |-> 0, skipped |-> 0], Start(j)
  PROVE  ImportLoop(j)'
<1>1. /\ order' = order /\ shelf' = shelf /\ before'[j] = shelf /\ line' = line /\ tally' = tally
      /\ stage'[j] = "row"
  BY DEF Start, Stage, stores, RowsFit
<1>2. Len(order[j].rows) \in Nat  BY Ordered
<1>3. /\ Valid(j, 0) = {} /\ \A n : About(j, 0, n) = {}  BY DEF Valid, About
<1>4. \A old : Missing(j, 0, old) = {}  BY <1>3 DEF Missing
<1>5. Valid(j, 0)' = {} /\ (\A n : About(j, 0, n)' = {}) /\ \A old : Missing(j, 0, old)' = {}
  BY <1>1, <1>3, <1>4 DEF Valid, About, Missing
<1>6. PICK old : old = shelf  OBVIOUS
<1>7. CountsFit(j, 0, old)'
  <2>1. IsFiniteSet({}) /\ Cardinality({}) = 0  BY FS_EmptySet
  <2>2. tally'[j] = [created |-> 0, updated |-> 0, skipped |-> 0]  BY <1>1
  <2> QED BY <1>5, <2>1, <2>2 DEF CountsFit, Tallied
<1>8. Imported(j, 0, old)'
  <2>1. \A n : Untouched(n, old)'  BY <1>1, <1>6 DEF Untouched, Named
  <2> QED BY <1>5, <2>1 DEF Imported, Told
<1>9. line'[j] - 1 = 0 /\ before'[j] = old /\ line'[j] <= Len(order'[j].rows) + 1
  BY <1>1, <1>2, <1>6
<1>10. "row" \notin ImportStages /\ "row" \notin Linkings  BY DEF ImportStages, Linkings
<1> QED BY <1>1, <1>7, <1>8, <1>9, <1>10 DEF ImportLoop

-----------------------------------------------------------------------------
(* Repeated, up to a number of times *)
UpTo(f, p, m, g) == g = [n \in 0 .. m |-> IF n = 0 THEN p ELSE f[g[n - 1]]]

LEMMA UpToAgree ==
  ASSUME NEW f, NEW p, NEW m \in Nat, NEW k \in Nat, NEW g, NEW h,
         UpTo(f, p, m, g), UpTo(f, p, k, h), NEW n \in Nat, n <= m, n <= k
  PROVE  g[n] = h[n]
<1> DEFINE Odd == {i \in 0 .. n : g[i] # h[i]}
<1> SUFFICES ASSUME Odd # {} PROVE FALSE  OBVIOUS
<1>1. PICK i \in Odd : \A l \in Odd : i <= l
  <2> Odd \in SUBSET Nat  OBVIOUS
  <2> HIDE DEF Odd
  <2> QED BY LeastNumber
<1>2. i \in 0 .. m /\ i \in 0 .. k  OBVIOUS
<1>3. i # 0  BY <1>1, <1>2 DEF UpTo
<1>4. g[i] = f[g[i - 1]] /\ h[i] = f[h[i - 1]]  BY <1>2, <1>3 DEF UpTo
<1>5. g[i - 1] = h[i - 1]
  <2>1. i - 1 \in 0 .. n /\ ~(i <= i - 1)  BY <1>1, <1>3
  <2> QED BY <1>1, <2>1
<1> QED BY <1>1, <1>4, <1>5

LEMMA UpToExists ==
  ASSUME NEW f, NEW p, NEW m \in Nat
  PROVE  \E g : UpTo(f, p, m, g)
<1> DEFINE Odd == {i \in Nat : ~ \E g : UpTo(f, p, i, g)}
<1> SUFFICES ASSUME Odd # {} PROVE FALSE  OBVIOUS
<1>1. PICK i \in Odd : \A l \in Odd : i <= l
  <2> Odd \in SUBSET Nat  OBVIOUS
  <2> HIDE DEF Odd
  <2> QED BY LeastNumber
<1>2. CASE i = 0
  <2>1. UpTo(f, p, 0, [n \in 0 .. 0 |-> p])  BY DEF UpTo
  <2> QED BY <1>1, <1>2, <2>1
<1>3. CASE i # 0
  <2>1. i - 1 \in Nat /\ ~(i <= i - 1)  BY <1>1, <1>3
  <2>2. PICK h : UpTo(f, p, i - 1, h)  BY <1>1, <2>1
  <2> DEFINE g == [n \in 0 .. i |-> IF n = i THEN f[h[i - 1]] ELSE h[n]]
  <2>3. ASSUME NEW n \in 0 .. i PROVE g[n] = IF n = 0 THEN p ELSE f[g[n - 1]]
    <3>1. CASE n = i
      <4>1. g[n - 1] = h[i - 1]  BY <1>3, <2>1, <3>1
      <4> QED BY <1>3, <3>1, <4>1
    <3>2. CASE n # i
      <4>1. n \in 0 .. (i - 1) /\ (n # 0 => n - 1 \in 0 .. i /\ n - 1 # i)  BY <2>1, <2>3, <3>2
      <4>2. h[n] = IF n = 0 THEN p ELSE f[h[n - 1]]  BY <2>2, <4>1 DEF UpTo
      <4> QED BY <4>1, <4>2, <3>2
    <3> QED BY <3>1, <3>2
  <2>4. g = [n \in 0 .. i |-> IF n = 0 THEN p ELSE f[g[n - 1]]]
    <3> g = [n \in 0 .. i |-> g[n]]  OBVIOUS
    <3> HIDE DEF g
    <3> QED BY <2>3
  <2>5. UpTo(f, p, i, g)
    <3> HIDE DEF g
    <3> QED BY <2>4 DEF UpTo
  <2> QED BY <1>1, <2>5
<1> QED BY <1>2, <1>3

LEMMA Repeats ==
  ASSUME NEW f, NEW p
  PROVE  /\ Repeated(f, p)[0] = p
         /\ \A n \in Nat : Repeated(f, p)[n + 1] = f[Repeated(f, p)[n]]
<1> DEFINE of(m) == CHOOSE g : UpTo(f, p, m, g)
           g == [n \in Nat |-> of(n)[n]]
<1>1. ASSUME NEW m \in Nat PROVE UpTo(f, p, m, of(m))
  <2>1. \E h : UpTo(f, p, m, h)  BY UpToExists
  <2> HIDE DEF g
  <2> QED BY <2>1
<1> HIDE DEF of
<1>2. ASSUME NEW n \in Nat PROVE g[n] = IF n = 0 THEN p ELSE f[g[n - 1]]
  <2>1. UpTo(f, p, n, of(n))  BY <1>1
  <2>2. of(n)[n] = IF n = 0 THEN p ELSE f[of(n)[n - 1]]
    <3> n \in 0 .. n  OBVIOUS
    <3> QED BY <2>1 DEF UpTo
  <2>3. CASE n = 0  BY <2>2, <2>3
  <2>4. CASE n # 0
    <3>1. n - 1 \in Nat /\ n - 1 <= n /\ n - 1 <= n - 1  BY <2>4
    <3>2. UpTo(f, p, n - 1, of(n - 1))  BY <1>1, <3>1
    <3>3. of(n)[n - 1] = of(n - 1)[n - 1]  BY <2>1, <3>1, <3>2, UpToAgree
    <3> QED BY <2>2, <2>4, <3>1, <3>3
  <2> QED BY <2>3, <2>4
<1>3. g = [n \in Nat |-> IF n = 0 THEN p ELSE f[g[n - 1]]]
  <2> g = [n \in Nat |-> g[n]]  OBVIOUS
  <2> HIDE DEF g
  <2> QED BY <1>2
<1>4. \E h : h = [n \in Nat |-> IF n = 0 THEN p ELSE f[h[n - 1]]]
  <2> HIDE DEF g
  <2> QED BY <1>3
<1> DEFINE after == Repeated(f, p)
<1>5. after = [n \in Nat |-> IF n = 0 THEN p ELSE f[after[n - 1]]]
  BY <1>4 DEF Repeated
<1> HIDE DEF after
<1>6. after[0] = p  BY <1>5
<1>7. \A n \in Nat : after[n + 1] = f[after[n]]
  <2> TAKE n \in Nat
  <2>1. n + 1 \in Nat /\ n + 1 # 0 /\ (n + 1) - 1 = n  OBVIOUS
  <2> QED BY <1>5, <2>1
<1> QED BY <1>6, <1>7 DEF after

-----------------------------------------------------------------------------
LEMMA RowListed ==
  ASSUME NEW j, NEW m \in Nat, NEW i
  PROVE  /\ Cardinality(Listed(j, m, i)) \in Nat
         /\ Cardinality(Listed(j, m + 1, i)) =
              IF order[j].rows[m + 1] = i THEN Cardinality(Listed(j, m, i)) + 1
              ELSE Cardinality(Listed(j, m, i))
<1>1. 1 .. (m + 1) = (1 .. m) \cup {m + 1} /\ m + 1 \notin 1 .. m  OBVIOUS
<1>2. IsFiniteSet(1 .. m) /\ Listed(j, m, i) \subseteq 1 .. m
  BY FS_Interval DEF Listed
<1>3. IsFiniteSet(Listed(j, m, i))  BY <1>2, FS_Subset
<1>4. Listed(j, m + 1, i) = IF order[j].rows[m + 1] = i THEN Listed(j, m, i) \cup {m + 1}
                            ELSE Listed(j, m, i)
  BY <1>1 DEF Listed
<1>5. m + 1 \notin Listed(j, m, i)  BY <1>1, <1>2
<1> QED BY <1>3, <1>4, <1>5, FS_AddElement, FS_CardinalityType

LEMMA PricedRow ==
  ASSUME order' = order, NEW j \in Jobs, NEW m \in Nat, NEW old,
         \A k \in DOMAIN old : old[k] \in Products,
         Priced(j, m, old), NEW i, order[j].rows[m + 1] = i,
         shelf' = [k \in DOMAIN old |->
                     IF k = i THEN [shelf[k] EXCEPT !.price = Settle(j)[shelf[k].price]]
                     ELSE shelf[k]]
  PROVE  Priced(j, m + 1, old)'
<1> DEFINE rep(k) == Repeated(Settle(j), old[k].price)
           times(k) == Cardinality(Listed(j, m, k))
           more(k) == Cardinality(Listed(j, m + 1, k))
<1>1. \A k \in DOMAIN old : shelf[k] = [old[k] EXCEPT !.price = rep(k)[times(k)]]
  BY DEF Priced
<1>2. ASSUME NEW k \in DOMAIN old PROVE shelf'[k] = [old[k] EXCEPT !.price = rep(k)[more(k)]]
  <2>1. CASE k # i
    <3>1. more(k) = times(k)  BY <2>1, RowListed
    <3>2. shelf'[k] = shelf[k]  BY <2>1
    <3> QED BY <1>1, <3>1, <3>2
  <2>2. CASE k = i
    <3>1. more(k) = times(k) + 1 /\ times(k) \in Nat  BY <2>2, RowListed
    <3>2. rep(k)[times(k) + 1] = Settle(j)[rep(k)[times(k)]]  BY <3>1, Repeats
    <3>3. shelf'[k] = [shelf[k] EXCEPT !.price = Settle(j)[shelf[k].price]]  BY <2>2
    <3> HIDE DEF rep, times, more
    <3>4. old[k] \in Products  OBVIOUS
    <3>5. shelf[k] = [old[k] EXCEPT !.price = rep(k)[times(k)]]  BY <1>1
    <3>6. shelf[k].price = rep(k)[times(k)]  BY <3>4, <3>5 DEF Products
    <3>7. shelf'[k] = [[old[k] EXCEPT !.price = rep(k)[times(k)]] EXCEPT !.price = rep(k)[more(k)]]
      BY <3>1, <3>2, <3>3, <3>5, <3>6
    <3> QED BY <3>4, <3>7 DEF Products
  <2> QED BY <2>1, <2>2
<1>3. /\ Settle(j)' = Settle(j)
      /\ \A k : Listed(j, m + 1, k)' = Listed(j, m + 1, k)
  BY DEF Settle, NewPrice, NewBase, Listed
<1>4. shelf' = [k \in DOMAIN old |-> shelf'[k]]  OBVIOUS
<1>5. shelf' = [k \in DOMAIN old |-> [old[k] EXCEPT !.price = rep(k)[more(k)]]]
  <2> HIDE DEF rep, more
  <2> QED BY <1>2, <1>4
<1>6. \A k : /\ (Repeated(Settle(j), old[k].price))' = rep(k)
             /\ (Cardinality(Listed(j, m + 1, k)))' = more(k)
  BY <1>3 DEF Repeated
<1> QED BY <1>5, <1>6 DEF Priced

LEMMA PricedShelf ==
  ASSUME NEW j \in Jobs, NEW m, NEW old, Priced(j, m, old)
  PROVE  DOMAIN shelf = DOMAIN old /\ shelf = [k \in DOMAIN old |-> shelf[k]]
BY DEF Priced

(* The rows that have changed a price, and the tally, after one row more *)
LEMMA RecountedRow ==
  ASSUME order' = order, NEW j \in Jobs, NEW m \in Nat, NEW old, Priced(j, m, old),
         Recounted(j, m, old), \A k \in DOMAIN old : old[k] \in Products,
         tally \in [Jobs -> [created : Nat, updated : Nat, skipped : Nat]],
         NEW i, order[j].rows[m + 1] = i,
         NEW outcome \in {"updated", "skipped"}, Count(j, outcome),
         outcome = "updated" <=> i \in DOMAIN shelf /\ NewBase(j, shelf[i].price) > 0
  PROVE  Recounted(j, m + 1, old)'
<1> DEFINE done == Changing(j, m, old)
           now == Changing(j, m + 1, old)
<1>1. (m + 1) - 1 = m /\ 1 .. (m + 1) = (1 .. m) \cup {m + 1} /\ m + 1 \notin 1 .. m
  OBVIOUS
<1>2. ASSUME i \in DOMAIN old PROVE shelf[i].price = Found(j, m + 1, i, old)
  <2>1. old[i] \in Products  BY <1>2
  <2>2. shelf[i] = [old[i] EXCEPT !.price = Repeated(Settle(j), @)[Cardinality(Listed(j, m, i))]]
    BY <1>2 DEF Priced
  <2> QED BY <1>1, <2>1, <2>2 DEF Products, Found
<1>3. Changes(j, m + 1, i, old) <=> outcome = "updated"
  BY <1>2, PricedShelf DEF Changes
<1>4. now = IF outcome = "updated" THEN done \cup {m + 1} ELSE done
  <2>1. ASSUME NEW r \in 1 .. m PROVE r \in now <=> r \in done  BY <1>1 DEF Changing
  <2>2. m + 1 \in now <=> outcome = "updated"
    <3>1. m + 1 \in now <=> Changes(j, m + 1, order[j].rows[m + 1], old)  BY <1>1 DEF Changing
    <3> QED BY <1>3, <3>1
  <2>3. now \subseteq 1 .. (m + 1) /\ done \subseteq 1 .. m  BY DEF Changing
  <2> HIDE DEF done, now
  <2>4. now \subseteq (1 .. m) \cup {m + 1} /\ m + 1 \notin done  BY <1>1, <2>3
  <2>5. \A r : r \in now <=> r \in done \/ (r = m + 1 /\ outcome = "updated")
    <3> TAKE r
    <3>1. CASE r \in 1 .. m  BY <1>1, <2>1, <3>1
    <3>2. CASE r = m + 1  BY <2>2, <2>4, <3>2
    <3>3. CASE r \notin (1 .. m) \cup {m + 1}  BY <2>3, <2>4, <3>3
    <3> QED BY <3>1, <3>2, <3>3
  <2> QED BY <2>5
<1>5. IsFiniteSet(done) /\ m + 1 \notin done
  <2>1. IsFiniteSet(1 .. m) /\ done \subseteq 1 .. m  BY FS_Interval DEF Changing
  <2>2. IsFiniteSet(done)  BY <2>1, FS_Subset
  <2> HIDE DEF done
  <2> QED BY <1>1, <2>1, <2>2
<1>6. Cardinality(done) \in Nat /\ Cardinality(done \cup {m + 1}) = Cardinality(done) + 1
  BY <1>5, FS_AddElement, FS_CardinalityType
<1>7. now' = now
  BY DEF Changing, Changes, Found, Repeated, Settle, NewPrice, NewBase, Listed
<1>8. tally'[j] = [tally[j] EXCEPT ![outcome] = @ + 1]  BY DEF Count
<1>9. tally[j] = [created |-> 0, updated |-> Cardinality(done), skipped |-> m - Cardinality(done)]
  BY DEF Recounted
<1>10. tally'[j] = [created |-> 0, updated |-> Cardinality(now),
                    skipped |-> (m + 1) - Cardinality(now)]
  <2> HIDE DEF done, now
  <2>1. CASE outcome = "updated"
    <3>1. Cardinality(now) = Cardinality(done) + 1  BY <1>4, <1>6, <2>1
    <3> QED BY <1>6, <1>8, <1>9, <2>1, <3>1
  <2>2. CASE outcome = "skipped"
    <3>1. Cardinality(now) = Cardinality(done)  BY <1>4, <2>2
    <3> QED BY <1>6, <1>8, <1>9, <2>2, <3>1
  <2> QED BY <2>1, <2>2
<1>11. (Cardinality(now))' = Cardinality(now)  BY <1>7
<1> QED BY <1>10, <1>11 DEF Recounted

LEMMA SameRecounted ==
  ASSUME order' = order, NEW j, tally'[j] = tally[j], NEW m, NEW old, Recounted(j, m, old)
  PROVE  Recounted(j, m, old)'
<1>1. Changing(j, m, old)' = Changing(j, m, old)
  BY DEF Changing, Changes, Found, Repeated, Settle, NewPrice, NewBase, Listed
<1>2. (Cardinality(Changing(j, m, old)))' = Cardinality(Changing(j, m, old))  BY <1>1
<1> QED BY <1>2 DEF Recounted

(* Where a change of prices is that nothing has disturbed *)
PriceLoop(j) ==
  /\ line[j] <= Len(order[j].rows) + 1
  /\ \A k \in DOMAIN before[j] : before[j][k] \in Products
  /\ Priced(j, line[j] - 1, before[j]) /\ Recounted(j, line[j] - 1, before[j])
  /\ stage[j] = "pricing" => /\ Row(j) \in DOMAIN shelf
                             /\ price[j] = NewPrice(j, shelf[Row(j)].price)
                             /\ NewBase(j, shelf[Row(j)].price) > 0

LEMMA SamePriced ==
  ASSUME order' = order, shelf' = shelf, NEW j, NEW m, NEW old, Priced(j, m, old)
  PROVE  Priced(j, m, old)'
<1>1. Settle(j)' = Settle(j) /\ \A k : Listed(j, m, k)' = Listed(j, m, k)
  BY DEF Settle, NewPrice, NewBase, Listed
<1>2. \A k : /\ (Repeated(Settle(j), old[k].price))' = Repeated(Settle(j), old[k].price)
             /\ (Cardinality(Listed(j, m, k)))' = Cardinality(Listed(j, m, k))
  BY <1>1 DEF Repeated
<1> QED BY <1>2 DEF Priced

LEMMA PriceLoopStays ==
  ASSUME order' = order, shelf' = shelf, NEW j \in Jobs, before'[j] = before[j],
         line'[j] = line[j], tally'[j] = tally[j], stage'[j] = stage[j], price'[j] = price[j],
         PriceLoop(j)
  PROVE  PriceLoop(j)'
<1>1. Row(j)' = Row(j)  BY DEF Row
<1>2. PICK m : m = line[j] - 1  OBVIOUS
<1>3. PICK old : old = before[j]  OBVIOUS
<1>4. Priced(j, m, old)' /\ Recounted(j, m, old)'
  BY <1>2, <1>3, SamePriced, SameRecounted DEF PriceLoop
<1>5. Priced(j, line[j] - 1, before[j])' /\ Recounted(j, line[j] - 1, before[j])'
  BY <1>2, <1>3, <1>4
<1> QED BY <1>1, <1>5 DEF PriceLoop, NewPrice, NewBase

(* A row is done with: *)
LEMMA PriceCounts ==
  ASSUME order' = order, before' = before, ImportTypes, RowsFit, NEW j \in Jobs, PriceLoop(j),
         stage[j] \in PriceStages, NEW outcome \in {"updated", "skipped"}, Count(j, outcome),
         outcome = "updated" <=> Row(j) \in DOMAIN shelf /\ NewBase(j, shelf[Row(j)].price) > 0,
         shelf' = [k \in DOMAIN before[j] |->
                     IF k = Row(j) THEN [shelf[k] EXCEPT !.price = Settle(j)[shelf[k].price]]
                     ELSE shelf[k]]
  PROVE  PriceLoop(j)'
<1>1. /\ line[j] \in Nat /\ line[j] > 0 /\ line[j] <= Len(order[j].rows)
      /\ order[j].kind \in {"raise", "fix"}
  BY DEF ImportTypes, RowsFit, RowFits
<1>2. Len(order[j].rows) \in Nat  BY <1>1, Ordered
<1>3. PICK m \in Nat : line[j] = m + 1 /\ line[j] - 1 = m
  <2>1. line[j] - 1 \in Nat /\ line[j] = (line[j] - 1) + 1  BY <1>1
  <2> QED BY <2>1
<1>4. PICK old : old = before[j]  OBVIOUS
<1>5. Row(j) = order[j].rows[m + 1]  BY <1>3 DEF Row
<1>6. Priced(j, m, old) /\ Recounted(j, m, old) /\ \A k \in DOMAIN old : old[k] \in Products
  BY <1>3, <1>4 DEF PriceLoop
<1>7. Priced(j, m + 1, old)' /\ Recounted(j, m + 1, old)'
  <2>1. Priced(j, m + 1, old)'  BY <1>4, <1>5, <1>6, PricedRow
  <2>2. Recounted(j, m + 1, old)'  BY <1>5, <1>6, RecountedRow DEF ImportTypes
  <2> QED BY <2>1, <2>2
<1>8. line'[j] = m + 2 /\ stage'[j] = "row"  BY <1>3 DEF Count, ImportTypes, RowsFit
<1>9. line'[j] - 1 = m + 1 /\ line'[j] <= Len(order'[j].rows) + 1
  BY <1>1, <1>2, <1>3, <1>8
<1>10. Priced(j, line[j] - 1, before[j])' /\ Recounted(j, line[j] - 1, before[j])'
  BY <1>4, <1>7, <1>9
<1> QED BY <1>4, <1>6, <1>8, <1>9, <1>10 DEF PriceLoop

LEMMA ReadSteps ==
  ASSUME ImportTypes, RowsFit, NEW j \in Jobs, PriceLoop(j), ReadPrice(j)
  PROVE  PriceLoop(j)'
<1>1. /\ stage[j] = "reading" /\ order' = order /\ before' = before /\ shelf' = shelf
      /\ stage[j] \in PriceStages
  BY DEF ReadPrice, stores, PriceStages
<1>2. DOMAIN shelf = DOMAIN before[j] /\ shelf = [k \in DOMAIN before[j] |-> shelf[k]]
  BY PricedShelf DEF PriceLoop
<1>3. \A k \in DOMAIN shelf : shelf[k] \in Products /\ shelf[k].price \in Nat
  BY DEF ImportTypes, Products
<1>4. CASE Here(Row(j)) /\ NewBase(j, shelf[Row(j)].price) > 0
  <2>1. /\ Stage(j, "pricing") /\ price' = [price EXCEPT ![j] = NewPrice(j, shelf[Row(j)].price)]
    BY <1>4 DEF ReadPrice
  <2>2. /\ line' = line /\ tally' = tally /\ Row(j)' = Row(j)
        /\ price'[j] = NewPrice(j, shelf[Row(j)].price)
    BY <1>1, <2>1 DEF Stage, Row, ImportTypes
  <2>3. PICK m : m = line[j] - 1  OBVIOUS
  <2>4. PICK old : old = before[j]  OBVIOUS
  <2>5. Priced(j, m, old)' /\ Recounted(j, m, old)'
    BY <1>1, <2>2, <2>3, <2>4, SamePriced, SameRecounted DEF PriceLoop
  <2>6. Priced(j, line[j] - 1, before[j])' /\ Recounted(j, line[j] - 1, before[j])'
    BY <1>1, <2>2, <2>3, <2>4, <2>5
  <2>7. /\ (NewPrice(j, shelf[Row(j)].price))' = NewPrice(j, shelf[Row(j)].price)
        /\ (NewBase(j, shelf[Row(j)].price))' = NewBase(j, shelf[Row(j)].price)
    BY <1>1, <2>2 DEF NewPrice, NewBase
  <2> QED BY <1>1, <1>4, <2>2, <2>6, <2>7 DEF PriceLoop, Here
<1>5. CASE ~(Here(Row(j)) /\ NewBase(j, shelf[Row(j)].price) > 0)
  <2>1. /\ Count(j, "skipped")
        /\ ~(Row(j) \in DOMAIN shelf /\ NewBase(j, shelf[Row(j)].price) > 0)
    BY <1>1, <1>5 DEF ReadPrice, Here
  <2>2. ASSUME NEW k \in DOMAIN shelf, k = Row(j)
        PROVE  [shelf[k] EXCEPT !.price = Settle(j)[shelf[k].price]] = shelf[k]
    <3>1. ~(NewBase(j, shelf[k].price) > 0)  BY <1>5, <2>2 DEF Here
    <3>2. Settle(j)[shelf[k].price] = shelf[k].price  BY <1>3, <3>1 DEF Settle
    <3> QED BY <1>3, <3>2 DEF Products
  <2>3. shelf' = [k \in DOMAIN before[j] |->
                    IF k = Row(j) THEN [shelf[k] EXCEPT !.price = Settle(j)[shelf[k].price]]
                    ELSE shelf[k]]
    BY <1>1, <1>2, <2>2
  <2> QED BY <1>1, <2>1, <2>3, PriceCounts
<1> QED BY <1>4, <1>5

LEMMA WriteSteps ==
  ASSUME ImportTypes, RowsFit, NEW j \in Jobs, PriceLoop(j), WritePrice(j)
  PROVE  PriceLoop(j)'
<1>1. /\ stage[j] = "pricing" /\ order' = order /\ before' = before
      /\ stage[j] \in PriceStages
  BY DEF WritePrice, PriceStages
<1>2. DOMAIN shelf = DOMAIN before[j] /\ shelf = [k \in DOMAIN before[j] |-> shelf[k]]
  BY PricedShelf DEF PriceLoop
<1>3. /\ Row(j) \in DOMAIN shelf /\ price[j] = NewPrice(j, shelf[Row(j)].price)
      /\ NewBase(j, shelf[Row(j)].price) > 0
  BY <1>1 DEF PriceLoop
<1>4. shelf[Row(j)].price \in Nat  BY <1>3 DEF ImportTypes, Products
<1>5. Settle(j)[shelf[Row(j)].price] = price[j]  BY <1>3, <1>4 DEF Settle
<1>6. shelf' = [shelf EXCEPT ![Row(j)].price = price[j]] /\ Count(j, "updated")
  BY <1>3 DEF WritePrice, Shelve, Here
<1>7. shelf' = [k \in DOMAIN before[j] |->
                  IF k = Row(j) THEN [shelf[k] EXCEPT !.price = Settle(j)[shelf[k].price]]
                  ELSE shelf[k]]
  BY <1>2, <1>3, <1>5, <1>6
<1> QED BY <1>1, <1>3, <1>6, <1>7, PriceCounts

LEMMA PriceHeadSteps ==
  ASSUME ImportTypes, RowsFit, NEW j \in Jobs, order[j].kind \in {"raise", "fix"}, PriceLoop(j),
         NextRow(j)
  PROVE  stage'[j] # "ended" => PriceLoop(j)'
<1>1. /\ stage[j] = "row" /\ order' = order /\ before' = before /\ shelf' = shelf
      /\ order[j].kind # "import"
  BY DEF NextRow, stores
<1>2. CASE line[j] > Len(order[j].rows)
  BY <1>1, <1>2 DEF NextRow, Stage, RowsFit
<1>3. CASE ~(line[j] > Len(order[j].rows))
  <2>1. Stage(j, "reading")  BY <1>1, <1>3 DEF NextRow
  <2>2. line' = line /\ tally' = tally /\ stage'[j] = "reading"  BY <2>1 DEF Stage, RowsFit
  <2>3. PICK m : m = line[j] - 1  OBVIOUS
  <2>4. PICK old : old = before[j]  OBVIOUS
  <2>5. Priced(j, m, old)' /\ Recounted(j, m, old)'
    BY <1>1, <2>2, <2>3, <2>4, SamePriced, SameRecounted DEF PriceLoop
  <2>6. Priced(j, line[j] - 1, before[j])' /\ Recounted(j, line[j] - 1, before[j])'
    BY <1>1, <2>2, <2>3, <2>4, <2>5
  <2> QED BY <1>1, <2>2, <2>6 DEF PriceLoop
<1> QED BY <1>2, <1>3

LEMMA PriceStartSteps ==
  ASSUME ImportTypes, RowsFit, NEW j \in Jobs, order[j].kind \in {"raise", "fix"},
         DOMAIN before = Jobs, line[j] = 1, shelf = [k \in DOMAIN shelf |-> shelf[k]], Start(j),
         tally[j] = [created |-> 0, updated |-> 0, skipped |-> 0]
  PROVE  PriceLoop(j)'
<1>1. /\ order' = order /\ shelf' = shelf /\ before'[j] = shelf /\ line' = line /\ tally' = tally
      /\ stage'[j] = "row"
  BY DEF Start, Stage, stores, RowsFit
<1>2. Len(order[j].rows) \in Nat  BY Ordered
<1>3. PICK old : old = shelf  OBVIOUS
<1>4. \A k : Listed(j, 0, k)' = {}  BY DEF Listed
<1>5. \A k : (Cardinality(Listed(j, 0, k)))' = 0  BY <1>4, FS_EmptySet
<1>6. Priced(j, 0, old)'
  <2> DEFINE settled == [k \in DOMAIN old |->
                           [old[k] EXCEPT !.price = Repeated(Settle(j), @)[Cardinality(Listed(j, 0, k))]]]
  <2>1. ASSUME NEW k \in DOMAIN old
        PROVE  [old[k] EXCEPT !.price = (Repeated(Settle(j), old[k].price))'[0]] = old[k]
    <3>1. old[k] \in Products  BY <1>3, <2>1 DEF ImportTypes
    <3>2. (Repeated(Settle(j), old[k].price))'[0] = old[k].price  BY Repeats
    <3> QED BY <3>1, <3>2 DEF Products
  <2>2. settled' = [k \in DOMAIN old |-> old[k]]
    BY <1>5, <2>1
  <2>3. shelf' = settled'  BY <1>1, <1>3, <2>2
  <2> QED BY <2>3 DEF Priced
<1>7. Priced(j, line[j] - 1, before[j])' /\ Recounted(j, line[j] - 1, before[j])'
  <2>1. line'[j] - 1 = 0 /\ before'[j] = old  BY <1>1, <1>3
  <2>2. Changing(j, 0, old)' = {}  BY DEF Changing
  <2>3. (Cardinality(Changing(j, 0, old)))' = 0  BY <2>2, FS_EmptySet
  <2>4. Recounted(j, 0, old)'  BY <1>1, <2>3 DEF Recounted
  <2> QED BY <1>6, <2>1, <2>4
<1>8. \A k \in DOMAIN before'[j] : before'[j][k] \in Products  BY <1>1 DEF ImportTypes
<1> QED BY <1>1, <1>2, <1>7, <1>8 DEF PriceLoop

-----------------------------------------------------------------------------
Steps(d) ==
  \/ Start(d) \/ NextRow(d) \/ ImportRow(d) \/ ReadPrice(d) \/ WritePrice(d)
  \/ CreateProduct(d) \/ EditProduct(d) \/ DeleteProduct(d) \/ StatementFails(d)

(* What is true of jobs from the start: *)
JobsStand ==
  /\ shelf = [i \in DOMAIN shelf |-> shelf[i]]
  /\ DOMAIN before = Jobs
  /\ \A j \in Jobs : stage[j] = "idle" =>
       line[j] = 1 /\ tally[j] = [created |-> 0, updated |-> 0, skipped |-> 0]

(* a step of one is a step of no other, which it crosses if it writes. *)
Apart(d) ==
  /\ order' = order /\ stage'[d] # "idle"
  /\ crossed \subseteq crossed' /\ marred \subseteq marred'
  /\ shelf' = [i \in DOMAIN shelf' |-> shelf'[i]] /\ DOMAIN before' = Jobs
  /\ \A j \in Jobs \ {d} :
       /\ stage'[j] = stage[j] /\ line'[j] = line[j] /\ tally'[j] = tally[j]
       /\ target'[j] = target[j] /\ price'[j] = price[j] /\ before'[j] = before[j]
       /\ stage[j] \notin {"idle", "ended"} /\ j \notin crossed' =>
            shelf' = shelf /\ categories' = categories

LEMMA StageApart ==
  ASSUME RowsFit, NEW d \in Jobs, NEW s, Stage(d, s)
  PROVE  /\ stage'[d] = s /\ line' = line /\ tally' = tally
         /\ \A j \in Jobs \ {d} : stage'[j] = stage[j]
BY DEF Stage, RowsFit

LEMMA CountApart ==
  ASSUME ImportTypes, RowsFit, NEW d \in Jobs, NEW outcome, Count(d, outcome)
  PROVE  /\ stage'[d] = "row"
         /\ \A j \in Jobs \ {d} :
              stage'[j] = stage[j] /\ line'[j] = line[j] /\ tally'[j] = tally[j]
BY DEF Count, RowsFit, ImportTypes

Moved(d) ==
  \/ \E s \in ({"row", "ended"} \cup ImportStages \cup PriceStages) : Stage(d, s)
  \/ \E outcome \in {"created", "updated", "skipped"} : Count(d, outcome)

LEMMA LoopApart ==
  ASSUME ImportTypes, RowsFit, NEW d \in Jobs, Moved(d)
  PROVE  /\ stage'[d] # "idle"
         /\ \A j \in Jobs \ {d} :
              stage'[j] = stage[j] /\ line'[j] = line[j] /\ tally'[j] = tally[j]
<1>1. "idle" \notin {"row", "ended"} \cup ImportStages \cup PriceStages
  BY DEF ImportStages, PriceStages
<1> QED BY <1>1, StageApart, CountApart DEF Moved

LEMMA StepsMove == ASSUME NEW d \in Jobs, Steps(d) PROVE Moved(d)
<1>1. CASE Start(d)  BY <1>1 DEF Start, Moved
<1>2. CASE NextRow(d)  BY <1>2 DEF NextRow, Moved, ImportStages, PriceStages
<1>3. CASE ReadPrice(d) \/ WritePrice(d)
  BY <1>3 DEF ReadPrice, WritePrice, Moved, PriceStages
<1>4. CASE CreateProduct(d) \/ EditProduct(d) \/ DeleteProduct(d) \/ StatementFails(d)
  BY <1>4 DEF CreateProduct, EditProduct, DeleteProduct, StatementFails, Moved
<1>5. CASE ImportRow(d)
  <2>1. Supplied(d) \in ImportStages  BY DEF Supplied, ImportStages
  <2>2. CASE FindCategory(d) \/ NewCategory(d)
    BY <2>1, <2>2 DEF FindCategory, NewCategory, Moved, ImportStages
  <2>3. CASE FindSupplier(d) \/ NewSupplier(d) \/ FindProduct(d)
    BY <2>3 DEF FindSupplier, NewSupplier, FindProduct, Moved, ImportStages
  <2>4. CASE UpdateProduct(d) \/ InsertProduct(d)
    BY <2>4 DEF UpdateProduct, InsertProduct, Moved, ImportStages
  <2>5. CASE LinkSupplier(d)  BY <2>5 DEF LinkSupplier, Moved
  <2> QED BY <1>5, <2>2, <2>3, <2>4, <2>5 DEF ImportRow
<1> QED BY <1>1, <1>2, <1>3, <1>4, <1>5 DEF Steps

LEMMA WritesCross ==
  ASSUME NEW d \in Jobs, Steps(d)
  PROVE  UNCHANGED <<shelf, categories, crossed>> \/ Crosses(d)
<1>1. CASE Start(d) \/ NextRow(d) \/ StatementFails(d)
  BY <1>1 DEF Start, NextRow, StatementFails, stores
<1>2. CASE ReadPrice(d) \/ WritePrice(d)
  BY <1>2 DEF ReadPrice, WritePrice, stores, Shelve
<1>3. CASE CreateProduct(d) \/ EditProduct(d) \/ DeleteProduct(d)
  BY <1>3 DEF CreateProduct, EditProduct, DeleteProduct, Mint, Shelve, stores
<1>4. CASE FindCategory(d) \/ NewCategory(d) \/ FindSupplier(d) \/ NewSupplier(d)
  BY <1>4 DEF FindCategory, NewCategory, FindSupplier, NewSupplier, stores
<1>5. CASE FindProduct(d) \/ UpdateProduct(d) \/ InsertProduct(d) \/ LinkSupplier(d)
  BY <1>5 DEF FindProduct, UpdateProduct, InsertProduct, LinkSupplier, Mint, Shelve, stores
<1> QED BY <1>1, <1>2, <1>3, <1>4, <1>5 DEF Steps, ImportRow

LEMMA ShelfApart ==
  ASSUME JobsStand, NEW d \in Jobs, Steps(d)
  PROVE  shelf' = [i \in DOMAIN shelf' |-> shelf'[i]]
<1>1. CASE shelf' = shelf  BY <1>1 DEF JobsStand
<1>2. CASE shelf' # shelf
  <2>1. \/ WritePrice(d) \/ CreateProduct(d) \/ EditProduct(d) \/ DeleteProduct(d)
        \/ UpdateProduct(d) \/ InsertProduct(d) \/ LinkSupplier(d)
    BY <1>2 DEF Steps, ImportRow, Start, NextRow, StatementFails, ReadPrice, FindCategory,
                NewCategory, FindSupplier, NewSupplier, FindProduct, stores
  <2>2. shelf = [i \in DOMAIN shelf |-> shelf[i]]  BY DEF JobsStand
  <2>3. CASE WritePrice(d)  BY <1>2, <2>2, <2>3 DEF WritePrice, Shelve, stores
  <2>4. CASE UpdateProduct(d)  BY <1>2, <2>2, <2>4 DEF UpdateProduct, Shelve, stores
  <2>5. CASE LinkSupplier(d)  BY <1>2, <2>2, <2>5 DEF LinkSupplier, Shelve, stores
  <2>6. CASE EditProduct(d)  BY <1>2, <2>2, <2>6 DEF EditProduct, Shelve, stores
  <2>7. CASE DeleteProduct(d)  BY <2>7 DEF DeleteProduct, Shelve
  <2>8. CASE InsertProduct(d)  BY <2>8 DEF InsertProduct, Mint
  <2>9. CASE CreateProduct(d)  BY <2>9 DEF CreateProduct, Mint
  <2> QED BY <2>1, <2>3, <2>4, <2>5, <2>6, <2>7, <2>8, <2>9
<1> QED BY <1>1, <1>2

LEMMA RestApart ==
  ASSUME ImportTypes, JobsStand, NEW d \in Jobs, Steps(d)
  PROVE  /\ order' = order /\ marred \subseteq marred' /\ DOMAIN before' = Jobs
         /\ \A j \in Jobs \ {d} :
              target'[j] = target[j] /\ price'[j] = price[j] /\ before'[j] = before[j]
<1>1. CASE Start(d) \/ NextRow(d) \/ StatementFails(d)
  BY <1>1 DEF Start, NextRow, StatementFails, JobsStand
<1>2. CASE ReadPrice(d) \/ WritePrice(d)
  BY <1>2 DEF ReadPrice, WritePrice, JobsStand, ImportTypes
<1>3. CASE CreateProduct(d) \/ EditProduct(d) \/ DeleteProduct(d)
  BY <1>3 DEF CreateProduct, EditProduct, DeleteProduct, JobsStand
<1>4. CASE FindCategory(d) \/ NewCategory(d) \/ FindSupplier(d) \/ NewSupplier(d)
  BY <1>4 DEF FindCategory, NewCategory, FindSupplier, NewSupplier, JobsStand
<1>5. CASE FindProduct(d) \/ UpdateProduct(d) \/ InsertProduct(d) \/ LinkSupplier(d)
  BY <1>5 DEF FindProduct, UpdateProduct, InsertProduct, LinkSupplier, JobsStand, ImportTypes
<1> QED BY <1>1, <1>2, <1>3, <1>4, <1>5 DEF Steps, ImportRow

LEMMA StepsApart ==
  ASSUME ImportTypes, RowsFit, JobsStand, NEW d \in Jobs, Steps(d)
  PROVE  Apart(d)
<1>1. /\ stage'[d] # "idle"
      /\ \A j \in Jobs \ {d} :
           stage'[j] = stage[j] /\ line'[j] = line[j] /\ tally'[j] = tally[j]
  BY StepsMove, LoopApart
<1>2. /\ shelf' = [i \in DOMAIN shelf' |-> shelf'[i]]
      /\ UNCHANGED <<shelf, categories, crossed>> \/ Crosses(d)
  BY ShelfApart, WritesCross
<1>3. /\ order' = order /\ marred \subseteq marred' /\ DOMAIN before' = Jobs
      /\ \A j \in Jobs \ {d} :
           target'[j] = target[j] /\ price'[j] = price[j] /\ before'[j] = before[j]
  BY RestApart
<1>4. /\ crossed \subseteq crossed'
      /\ \A j \in Jobs \ {d} : stage[j] \notin {"idle", "ended"} /\ j \notin crossed' =>
           shelf' = shelf /\ categories' = categories
  BY <1>2 DEF Crosses
<1> QED BY <1>1, <1>2, <1>3, <1>4 DEF Apart

-----------------------------------------------------------------------------
(* A job under way that nothing has disturbed *)
Undisturbed(j) == j \notin crossed \cup marred /\ stage[j] \notin {"idle", "ended"}
LoopInv ==
  /\ JobsStand
  /\ \A j \in Jobs : Undisturbed(j) =>
       /\ order[j].kind = "import" => ImportLoop(j)
       /\ order[j].kind \in {"raise", "fix"} => PriceLoop(j)

LEMMA OwnImportSteps ==
  ASSUME ImportTypes, RowsFit, LoopInv, NEW j \in Jobs, Steps(j), Undisturbed(j)',
         order[j].kind = "import", order' = order, crossed \subseteq crossed', marred \subseteq marred'
  PROVE  ImportLoop(j)'
<1>1. CASE stage[j] = "idle"
  <2>1. Start(j)
    BY <1>1 DEF Steps, NextRow, ImportRow, FindCategory, NewCategory, FindSupplier, NewSupplier,
         FindProduct, UpdateProduct, InsertProduct, LinkSupplier, ReadPrice, WritePrice,
         CreateProduct, EditProduct, DeleteProduct, StatementFails
  <2> QED BY <1>1, <2>1, StartSteps DEF LoopInv, JobsStand
<1>2. CASE stage[j] # "idle"
  <2>1. stage[j] # "ended"
    BY DEF Steps, Start, NextRow, ImportRow, FindCategory, NewCategory, FindSupplier, NewSupplier,
         FindProduct, UpdateProduct, InsertProduct, LinkSupplier, ReadPrice, WritePrice,
         CreateProduct, EditProduct, DeleteProduct, StatementFails
  <2>2. ImportLoop(j)  BY <1>2, <2>1 DEF LoopInv, Undisturbed
  <2>3. stage'[j] # "ended"  BY DEF Undisturbed
  <2>4. NextRow(j) \/ ImportRow(j)
    <3>1. ~Start(j) /\ ~CreateProduct(j) /\ ~EditProduct(j) /\ ~DeleteProduct(j)
      BY <1>2 DEF Start, CreateProduct, EditProduct, DeleteProduct
    <3>2. ~StatementFails(j)  BY DEF StatementFails, Undisturbed
    <3>3. ~ReadPrice(j) /\ ~WritePrice(j)
      BY DEF ReadPrice, WritePrice, RowsFit, RowFits, PriceStages
    <3> QED BY <3>1, <3>2, <3>3 DEF Steps
  <2>5. CASE NextRow(j)  BY <2>2, <2>3, <2>5, HeadSteps
  <2>6. CASE ImportRow(j)
    BY <2>2, <2>6, QuietRowSteps, UpdateSteps, InsertSteps, LinkSteps DEF ImportRow
  <2> QED BY <2>4, <2>5, <2>6
<1> QED BY <1>1, <1>2

LEMMA OwnPriceSteps ==
  ASSUME ImportTypes, RowsFit, LoopInv, NEW j \in Jobs, Steps(j), Undisturbed(j)',
         order[j].kind \in {"raise", "fix"}, order' = order, crossed \subseteq crossed',
         marred \subseteq marred'
  PROVE  PriceLoop(j)'
<1>1. CASE stage[j] = "idle"
  <2>1. Start(j)
    BY <1>1 DEF Steps, NextRow, ImportRow, FindCategory, NewCategory, FindSupplier, NewSupplier,
         FindProduct, UpdateProduct, InsertProduct, LinkSupplier, ReadPrice, WritePrice,
         CreateProduct, EditProduct, DeleteProduct, StatementFails
  <2> QED BY <1>1, <2>1, PriceStartSteps DEF LoopInv, JobsStand
<1>2. CASE stage[j] # "idle"
  <2>1. stage[j] # "ended"
    BY DEF Steps, Start, NextRow, ImportRow, FindCategory, NewCategory, FindSupplier, NewSupplier,
         FindProduct, UpdateProduct, InsertProduct, LinkSupplier, ReadPrice, WritePrice,
         CreateProduct, EditProduct, DeleteProduct, StatementFails
  <2>2. PriceLoop(j)  BY <1>2, <2>1 DEF LoopInv, Undisturbed
  <2>3. stage'[j] # "ended"  BY DEF Undisturbed
  <2>4. NextRow(j) \/ ReadPrice(j) \/ WritePrice(j)
    <3>1. ~Start(j) /\ ~CreateProduct(j) /\ ~EditProduct(j) /\ ~DeleteProduct(j)
      BY <1>2 DEF Start, CreateProduct, EditProduct, DeleteProduct
    <3>2. ~StatementFails(j)  BY DEF StatementFails, Undisturbed
    <3>3. ~ImportRow(j)
      BY DEF ImportRow, FindCategory, NewCategory, FindSupplier, NewSupplier,
         FindProduct, UpdateProduct, InsertProduct, LinkSupplier, RowsFit, RowFits, ImportStages
    <3> QED BY <3>1, <3>2, <3>3 DEF Steps
  <2> QED BY <2>2, <2>3, <2>4, PriceHeadSteps, ReadSteps, WriteSteps
<1> QED BY <1>1, <1>2

LEMMA NextLoop ==
  ImportTypes /\ RowsFit /\ LoopInv /\ [ImportNext]_importVars => LoopInv'
<1> SUFFICES ASSUME ImportTypes, RowsFit, LoopInv, [ImportNext]_importVars
             PROVE  LoopInv'
  OBVIOUS
<1>1. CASE UNCHANGED importVars
  <2>1. JobsStand'  BY <1>1 DEF LoopInv, JobsStand, importVars, stores, loop
  <2>2. ASSUME NEW j \in Jobs, Undisturbed(j)'
        PROVE  /\ order[j].kind = "import" => ImportLoop(j)'
               /\ order[j].kind \in {"raise", "fix"} => PriceLoop(j)'
    <3>1. Undisturbed(j)  BY <1>1, <2>2 DEF Undisturbed, importVars, stores, loop
    <3>2. /\ order' = order /\ shelf' = shelf /\ categories' = categories /\ before' = before
          /\ line' = line /\ tally' = tally /\ stage' = stage /\ target' = target /\ price' = price
      BY <1>1 DEF importVars, stores, loop
    <3> QED BY <3>1, <3>2, ImportLoopStays, PriceLoopStays DEF LoopInv
  <2> QED BY <1>1, <2>1, <2>2 DEF LoopInv, importVars
<1>2. ASSUME NEW d \in Jobs, Steps(d) PROVE LoopInv'
  <2>1. Apart(d)  BY <1>2, StepsApart DEF LoopInv
  <2>2. JobsStand'  BY <2>1 DEF LoopInv, JobsStand, Apart
  <2>3. ASSUME NEW j \in Jobs, Undisturbed(j)'
        PROVE  /\ order'[j].kind = "import" => ImportLoop(j)'
               /\ order'[j].kind \in {"raise", "fix"} => PriceLoop(j)'
    <3>1. order' = order /\ crossed \subseteq crossed' /\ marred \subseteq marred'
      BY <2>1 DEF Apart
    <3>2. CASE j = d  BY <1>2, <2>3, <3>1, <3>2, OwnImportSteps, OwnPriceSteps
    <3>3. CASE j # d
      <4>1. /\ stage'[j] = stage[j] /\ line'[j] = line[j] /\ tally'[j] = tally[j]
            /\ target'[j] = target[j] /\ price'[j] = price[j] /\ before'[j] = before[j]
        BY <2>1, <3>3 DEF Apart
      <4>2. Undisturbed(j) /\ j \notin crossed'  BY <2>3, <3>1, <4>1 DEF Undisturbed
      <4>3. shelf' = shelf /\ categories' = categories
        BY <2>1, <3>3, <4>2 DEF Apart, Undisturbed
      <4> QED BY <3>1, <4>1, <4>2, <4>3, ImportLoopStays, PriceLoopStays DEF LoopInv
    <3> QED BY <3>2, <3>3
  <2> QED BY <2>2, <2>3 DEF LoopInv
<1> QED BY <1>1, <1>2 DEF ImportNext, Steps

LEMMA InitLoop == ImportInit => LoopInv
<1> SUFFICES ASSUME ImportInit PROVE LoopInv  OBVIOUS
<1>1. shelf = [i \in DOMAIN shelf |-> shelf[i]]
  BY ImportConstants DEF ImportInit
<1> QED BY <1>1 DEF ImportInit, LoopInv, JobsStand, Undisturbed

BulkStep ==
  \A j \in Jobs \ (crossed \cup marred)' :
    stage[j] # "ended" /\ stage'[j] = "ended" =>
      LET m == Len(order[j].rows)
      IN  /\ order[j].kind = "import" => Imported(j, m, before[j]) /\ Tallied(j, m, before[j])
          /\ order[j].kind \in {"raise", "fix"} =>
                  Priced(j, m, before[j]) /\ Recounted(j, m, before[j])

LEMMA StepBulk ==
  ImportTypes /\ RowsFit /\ LoopInv /\ [ImportNext]_importVars => BulkStep
<1> SUFFICES ASSUME ImportTypes, RowsFit, LoopInv, [ImportNext]_importVars,
                    NEW j \in Jobs, j \notin (crossed \cup marred)',
                    stage[j] # "ended", stage'[j] = "ended",
                    order[j].kind \in {"import", "raise", "fix"}
             PROVE  LET m == Len(order[j].rows)
                    IN  /\ order[j].kind = "import" =>
                             Imported(j, m, before[j]) /\ Tallied(j, m, before[j])
                        /\ order[j].kind \in {"raise", "fix"} =>
                             Priced(j, m, before[j]) /\ Recounted(j, m, before[j])
  BY DEF BulkStep
<1>1. PICK d \in Jobs : Steps(d)
  BY DEF ImportNext, Steps, importVars, loop
<1>2. Apart(d)  BY <1>1, StepsApart DEF LoopInv
<1>3. d = j  BY <1>2 DEF Apart
<1>4. NextRow(j)
  <2>1. Moved(j) /\ Steps(j)  BY <1>1, <1>3, StepsMove
  <2>2. ~CreateProduct(j) /\ ~EditProduct(j) /\ ~DeleteProduct(j) /\ ~StatementFails(j)
    BY DEF CreateProduct, EditProduct, DeleteProduct, StatementFails
  <2>3. ~Start(j)  BY DEF Start, Stage, RowsFit
  <2>4. ~ReadPrice(j) /\ ~WritePrice(j)
    BY DEF ReadPrice, WritePrice, Stage, Count, RowsFit
  <2>5. ~ImportRow(j)
    <3>1. Supplied(j) # "ended"  BY DEF Supplied
    <3>2. ~FindCategory(j) /\ ~NewCategory(j)
      BY <3>1 DEF FindCategory, NewCategory, Stage, Count, RowsFit
    <3>3. ~FindSupplier(j) /\ ~NewSupplier(j) /\ ~FindProduct(j)
      BY DEF FindSupplier, NewSupplier, FindProduct, Stage, RowsFit
    <3>4. ~UpdateProduct(j) /\ ~InsertProduct(j) /\ ~LinkSupplier(j)
      BY DEF UpdateProduct, InsertProduct, LinkSupplier, Stage, Count, RowsFit
    <3> QED BY <3>2, <3>3, <3>4 DEF ImportRow
  <2> QED BY <2>1, <2>2, <2>3, <2>4, <2>5 DEF Steps
<1>5. stage[j] = "row" /\ line[j] > Len(order[j].rows)
  BY <1>4 DEF NextRow, Stage, Count, RowsFit
<1>6. Undisturbed(j)  BY <1>2, <1>5 DEF Undisturbed, Apart
<1>7. line[j] \in Nat /\ Len(order[j].rows) \in Nat
  <2>1. line[j] \in Nat  BY DEF ImportTypes
  <2>2. order[j].rows \in Seq(Rows) \/ order[j].rows \in Seq(Ids)  BY Ordered
  <2>3. Len(order[j].rows) \in Nat  BY <2>2
  <2> QED BY <2>1, <2>3
<1>8. CASE order[j].kind = "import"
  <2>1. ImportLoop(j)  BY <1>6, <1>8 DEF LoopInv
  <2>2. line[j] - 1 = Len(order[j].rows)  BY <1>5, <1>7, <2>1 DEF ImportLoop
  <2>3. "row" \notin Linkings  BY DEF Linkings
  <2>4. Imported(j, line[j] - 1, before[j]) /\ Tallied(j, line[j] - 1, before[j])
    BY <1>5, <2>1, <2>3 DEF ImportLoop, CountsFit
  <2> QED BY <1>8, <2>2, <2>4
<1>9. CASE order[j].kind \in {"raise", "fix"}
  <2>1. PriceLoop(j)  BY <1>6, <1>9 DEF LoopInv
  <2>2. line[j] - 1 = Len(order[j].rows)  BY <1>5, <1>7, <2>1 DEF PriceLoop
  <2> QED BY <1>9, <2>1, <2>2 DEF PriceLoop
<1> QED BY <1>8, <1>9

(* A bulk job that nothing wrote beside, and of which nothing failed, does what one   *)
(* transaction would have done to the shelf it found, however many rows it has and    *)
(* whatever they name twice.                                                          *)
THEOREM BulkJobsAreAsOne == ImportSpec => BulkAsOne
<1>1. ImportTypes /\ RowsFit /\ LoopInv /\ [ImportNext]_importVars => [BulkStep]_importVars
  BY StepBulk
<1> QED BY <1>1, InitImport, InitLoop, NextImportTypes, NextLoop, PTL
        DEF ImportSpec, BulkAsOne, BulkStep

-----------------------------------------------------------------------------
(* All six, as they are checked together: a step is of one of them. *)
TypesInv ==
  /\ RateTypes /\ AccountTypes /\ StepsFit /\ TreeTypes
  /\ ImportTypes /\ RowsFit /\ ReminderTypes /\ CouponTypes /\ InputsAreChecked

LEMMA InitTyped == MCInit => TypesInv
BY InitRate, InitAccount, InitTree, InitImport, InitReminder, InitCoupons DEF MCInit, TypesInv

LEMMA NextTyped == TypesInv /\ [MCNext]_vars => TypesInv'
<1> SUFFICES ASSUME TypesInv, [MCNext]_vars PROVE TypesInv'  OBVIOUS
<1>1. /\ [RateNext]_rateVars /\ [AccountNext]_accountVars /\ [TreeNext]_treeVars
      /\ [ImportNext]_importVars /\ [ReminderNext]_reminderVars /\ [CouponNext]_couponVars
  BY DEF vars, MCNext, MCRateNext, MCAccountNext, MCTreeNext, MCImportNext, MCReminderNext,
         MCCouponNext
<1>2. RateTypes'  BY <1>1, NextRateTypes DEF TypesInv
<1>3. AccountTypes' /\ StepsFit'  BY <1>1, NextAccountTypes, NextStepsFit DEF TypesInv
<1>4. TreeTypes'  BY <1>1, NextTreeTypes DEF TypesInv
<1>5. ImportTypes' /\ RowsFit'  BY <1>1, NextImportTypes DEF TypesInv
<1>6. ReminderTypes'  BY <1>1, NextReminderTypes DEF TypesInv
<1>7. CouponTypes' /\ InputsAreChecked'  BY <1>1, NextCouponTypes DEF TypesInv
<1> QED BY <1>2, <1>3, <1>4, <1>5, <1>6, <1>7 DEF TypesInv

(* Every variable of the six services keeps its type, whichever of them runs. *)
THEOREM ServicesTyped == MCSpec => []TypeOK
<1>1. TypesInv => TypeOK  BY DEF TypesInv, TypeOK
<1> QED BY <1>1, InitTyped, NextTyped, PTL DEF MCSpec

(* Together, each part does what it does alone, but for the fairness of the walks. *)
LEMMA PartsBehave ==
  MCSpec => /\ RateSpec /\ AccountSpec /\ ImportSpec /\ ReminderSpec /\ CouponSpec
            /\ TreeInit /\ [][TreeNext]_treeVars
<1>1. MCInit => /\ RateInit /\ AccountInit /\ ImportInit /\ ReminderInit /\ CouponInit
                /\ TreeInit
  BY DEF MCInit
<1>2. [MCNext]_vars =>
        /\ [RateNext]_rateVars /\ [AccountNext]_accountVars /\ [ImportNext]_importVars
        /\ [ReminderNext]_reminderVars /\ [CouponNext]_couponVars /\ [TreeNext]_treeVars
  BY DEF vars, MCNext, MCRateNext, MCAccountNext, MCTreeNext, MCImportNext, MCReminderNext,
         MCCouponNext
<1> QED
  BY <1>1, <1>2, PTL DEF MCSpec, RateSpec, AccountSpec, ImportSpec, ReminderSpec, CouponSpec

(* What is shown of each service alone holds of the six together: no window admits    *)
(* more than its bound, points add up with the ledger, one address is the default,    *)
(* a cart is reminded once, coupons make sense, a walk through the categories judges  *)
(* right and a bulk job does what one transaction would, each but for the races and   *)
(* the failures it names.                                                             *)
THEOREM ServicesSafe ==
  MCSpec => /\ []RateBounded /\ []PointsAddUp /\ []OneDefaultAddress
            /\ []RemindedOnce /\ []CouponsSound /\ MovesJudged /\ BulkAsOne
BY PartsBehave, RatesAreBounded, PointsAlwaysAddUp, DefaultIsUnique, CartsAreRemindedOnce,
   CouponsStaySound, TreesJudge, BulkJobsAreAsOne, PTL

=============================================================================
