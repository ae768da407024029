------------------------ MODULE CircuitBreakerProofs ------------------------
(***************************************************************************)
(* Proofs about CircuitBreaker, for any number of workers and callers, any *)
(* threshold and any probe limit, with and without Redis.                  *)
(***************************************************************************)
EXTENDS CircuitBreaker, FiniteSetTheorems, TLAPS

(* A caller that is refused, or done, leaves no mark behind. *)
LEMMA ReturnType ==
  ASSUME TypeOK, NEW c \in Callers, Return(c)
  PROVE  pc' \in [Callers -> Places] /\ fresh' \in [Callers -> BOOLEAN]
<1>1. pc' \in [Callers -> Places]
  BY DEF TypeOK, Return, Places
<1>2. fresh' \in [Callers -> BOOLEAN]
  BY DEF TypeOK, Return
<1> QED
  BY <1>1, <1>2

(* Every variable keeps its type; in particular no step takes more of the  *)
(* probes of a HALF_OPEN period than there are.                            *)
THEOREM TypeCorrect == Spec => []TypeOK
<1>1. Init => TypeOK
  BY Limits DEF Init, TypeOK, CBState, Places
<1>2. TypeOK /\ [Next]_vars => TypeOK'
  <2> SUFFICES ASSUME TypeOK, [Next]_vars PROVE TypeOK'
    OBVIOUS
  <2> USE OwnerType, Limits DEF TypeOK, CBState, Places, breaker
  <2>1. ASSUME NEW c \in Callers, GlobalCheck(c) PROVE TypeOK'
    BY <2>1 DEF GlobalCheck
  <2>2. ASSUME NEW c \in Callers, GlobalHalfOpen(c) PROVE TypeOK'
    BY <2>2 DEF GlobalHalfOpen, Return
  <2>3. ASSUME NEW c \in Callers, ReadState(c) PROVE TypeOK'
    <3>1. CASE Recovering(Owner[c]) /\ HalfOpen(Owner[c])
               /\ pc' = [pc EXCEPT ![c] = "probe"] /\ UNCHANGED up
      BY <3>1 DEF HalfOpen, RedisSet
    <3>2. CASE pc' = [pc EXCEPT ![c] = "probe"] /\ UNCHANGED <<breaker, redis, fresh, up>>
      BY <3>2
    <3>3. CASE pc' = [pc EXCEPT ![c] = "calling"] /\ UNCHANGED <<breaker, redis, fresh, up>>
      BY <3>3
    <3>4. CASE Return(c) /\ UNCHANGED <<breaker, redis, up>>
      BY <3>4 DEF Return
    <3> QED
      BY <2>3, <3>1, <3>2, <3>3, <3>4 DEF ReadState
  <2>4. ASSUME NEW c \in Callers, Probe(c) PROVE TypeOK'
    <3>1. CASE halfCalls[Owner[c]] >= HalfOpenMax
      BY <2>4, <3>1 DEF Probe, Return
    <3>2. CASE ~(halfCalls[Owner[c]] >= HalfOpenMax)
      <4>1. halfCalls' \in [Procs -> 0 .. HalfOpenMax]
        BY <2>4, <3>2 DEF Probe
      <4> QED
        BY <2>4, <3>2, <4>1 DEF Probe
    <3> QED
      BY <3>1, <3>2
  <2>5. ASSUME NEW c \in Callers, Reply(c) PROVE TypeOK'
    BY <2>5 DEF Reply
  <2>6. ASSUME NEW c \in Callers, OnSuccess(c) PROVE TypeOK'
    <3>1. state' \in [Procs -> CBState] /\ failures' \in [Procs -> 0 .. Threshold]
      BY <2>6 DEF OnSuccess
    <3>2. CASE UseRedis
      BY <2>6, <3>1, <3>2 DEF OnSuccess
    <3>3. CASE ~UseRedis
      BY <2>6, <3>1, <3>3, ReturnType DEF OnSuccess
    <3> QED
      BY <3>2, <3>3
  <2>7. ASSUME NEW c \in Callers, Clear(c) PROVE TypeOK'
    BY <2>7 DEF Clear, Return, RedisSet
  <2>8. ASSUME NEW c \in Callers, OnFailure(c) PROVE TypeOK'
    BY <2>8 DEF OnFailure
  <2>9. ASSUME NEW c \in Callers, CheckOpen(c) PROVE TypeOK'
    BY <2>9 DEF CheckOpen, Return
  <2>10. ASSUME NEW c \in Callers, Publish(c) PROVE TypeOK'
    BY <2>10 DEF Publish, Return, RedisSet
  <2>11. ASSUME NEW c \in Callers, Interrupt(c) PROVE TypeOK'
    BY <2>11 DEF Interrupt, Return
  <2>12. ASSUME NEW p \in Procs, Elapse(p) PROVE TypeOK'
    BY <2>12 DEF Elapse
  <2>13. ASSUME NEW p \in Procs, GetMetrics(p) PROVE TypeOK'
    BY <2>13 DEF GetMetrics, HalfOpen, RedisSet
  <2>14. CASE Expire
    BY <2>14 DEF Expire
  <2>15. CASE Outage
    BY <2>15 DEF Outage
  <2>16. CASE UNCHANGED vars
    BY <2>16 DEF vars
  <2> QED
    BY <2>1, <2>2, <2>3, <2>4, <2>5, <2>6, <2>7, <2>8, <2>9, <2>10, <2>11, <2>12, <2>13,
       <2>14, <2>15, <2>16 DEF Next, Step
<1> QED
  BY <1>1, <1>2, PTL DEF Spec

----------------------------------------------------------------------------

(* The threshold holds whatever the order in which late successes and late *)
(* failures of earlier states arrive: ClosedBelowThreshold is inductive on *)
(* its own, because the count is cleared only by what closes the breaker,  *)
(* and HALF_OPEN keeps it.                                                 *)
THEOREM ThresholdSafe == Spec => []ClosedBelowThreshold
<1>1. Init => ClosedBelowThreshold
  BY Limits DEF Init, ClosedBelowThreshold
<1>2. TypeOK /\ ClosedBelowThreshold /\ [Next]_vars => ClosedBelowThreshold'
  <2> SUFFICES ASSUME TypeOK, ClosedBelowThreshold, [Next]_vars
               PROVE  ClosedBelowThreshold'
    OBVIOUS
  <2> USE OwnerType, Limits DEF TypeOK, CBState, ClosedBelowThreshold, breaker
  <2>1. CASE UNCHANGED <<state, failures>>
    BY <2>1
  <2>2. ASSUME NEW p \in Procs, HalfOpen(p), Recovering(p) PROVE ClosedBelowThreshold'
    BY <2>2 DEF HalfOpen, Recovering
  <2>3. ASSUME NEW c \in Callers, OnSuccess(c) PROVE ClosedBelowThreshold'
    BY <2>3 DEF OnSuccess
  <2>4. ASSUME NEW c \in Callers, OnFailure(c) PROVE ClosedBelowThreshold'
    BY <2>4 DEF OnFailure
  <2>5. ASSUME NEW c \in Callers, ReadState(c) PROVE ClosedBelowThreshold'
    BY <2>1, <2>2, <2>5 DEF ReadState
  <2>6. ASSUME NEW c \in Callers, Step(c), ~OnSuccess(c), ~OnFailure(c), ~ReadState(c)
        PROVE  UNCHANGED <<state, failures>>
    BY <2>6 DEF Step, GlobalHalfOpen, Probe, Reply, Clear, CheckOpen, Publish
  <2>7. ASSUME NEW c \in Callers, GlobalCheck(c) \/ Interrupt(c)
        PROVE  UNCHANGED <<state, failures>>
    BY <2>7 DEF GlobalCheck, Interrupt
  <2>8. ASSUME NEW p \in Procs, Elapse(p) PROVE UNCHANGED <<state, failures>>
    BY <2>8 DEF Elapse
  <2>9. ASSUME NEW p \in Procs, GetMetrics(p) PROVE ClosedBelowThreshold'
    BY <2>2, <2>9 DEF GetMetrics
  <2>10. CASE Expire \/ Outage \/ UNCHANGED vars
    BY <2>1, <2>10 DEF Expire, Outage, vars
  <2> QED
    BY <2>1, <2>3, <2>4, <2>5, <2>6, <2>7, <2>8, <2>9, <2>10 DEF Next
<1> QED
  BY <1>1, <1>2, TypeCorrect, PTL DEF Spec

----------------------------------------------------------------------------

(* Every probe on the wire is one that _half_open_calls has counted since  *)
(* the period began; the count never goes down within a period.            *)
ProbesCounted == \A p \in Procs : Cardinality(Probes(p)) <= halfCalls[p]

(* Only a caller that was admitted carries the mark of a probe. *)
InCall == {"calling", "ok", "fail", "clear", "check", "publish"}
FreshInCall == \A c \in Callers : fresh[c] => pc[c] \in InCall

(* The probes are a finite set. *)
LEMMA ProbesFinite ==
  ASSUME NEW p \in Procs
  PROVE  IsFiniteSet(Probes(p)) /\ Cardinality(Probes(p)) \in Nat
<1>1. Probes(p) \subseteq Callers
  BY DEF Probes
<1> QED
  BY <1>1, CallersFinite, FS_Subset, FS_CardinalityType

(* A step that adds no probe and leaves _half_open_calls alone keeps the   *)
(* count right.                                                            *)
LEMMA NoNewProbe ==
  ASSUME ProbesCounted, TypeOK, NEW p \in Procs,
         Probes(p)' \subseteq Probes(p), halfCalls'[p] = halfCalls[p]
  PROVE  Cardinality(Probes(p)') <= halfCalls'[p]
<1>1. Cardinality(Probes(p)') <= Cardinality(Probes(p)) /\ Cardinality(Probes(p)') \in Nat
  BY ProbesFinite, FS_Subset, FS_CardinalityType
<1> QED
  BY <1>1, ProbesFinite, Limits DEF ProbesCounted, TypeOK

(* When a period begins nothing on the wire belongs to it. *)
LEMMA NewWindow ==
  ASSUME ProbesCounted, TypeOK, TypeOK', NEW q \in Procs, HalfOpen(q),
         \/ UNCHANGED pc
         \/ \E c \in Callers : pc' = [pc EXCEPT ![c] = "probe"]
  PROVE  ProbesCounted'
<1> SUFFICES ASSUME NEW p \in Procs PROVE Cardinality(Probes(p)') <= halfCalls'[p]
  BY DEF ProbesCounted
<1>1. CASE p = q
  <2>1. Probes(p)' = {}
    BY <1>1 DEF Probes, HalfOpen
  <2> QED
    BY <2>1, <1>1, FS_EmptySet DEF HalfOpen, TypeOK
<1>2. CASE p # q
  <2>1. Probes(p)' \subseteq Probes(p)
    BY <1>2 DEF Probes, HalfOpen, TypeOK
  <2>2. halfCalls'[p] = halfCalls[p]
    BY <1>2 DEF HalfOpen, TypeOK
  <2> QED
    BY <2>1, <2>2, NoNewProbe
<1> QED
  BY <1>1, <1>2

(* Taking a probe counts it, under the same lock. *)
LEMMA ProbeCounted ==
  ASSUME ProbesCounted, TypeOK, TypeOK', NEW c \in Callers, Probe(c)
  PROVE  ProbesCounted'
<1> DEFINE q == Owner[c]
<1> SUFFICES ASSUME NEW p \in Procs PROVE Cardinality(Probes(p)') <= halfCalls'[p]
  BY DEF ProbesCounted
<1>1. q \in Procs
  BY OwnerType
<1>2. CASE halfCalls[q] >= HalfOpenMax
  <2>1. Probes(p)' \subseteq Probes(p)
    BY <1>2 DEF Probe, Return, Probes, TypeOK
  <2>2. halfCalls'[p] = halfCalls[p]
    BY <1>2 DEF Probe
  <2> QED
    BY <2>1, <2>2, NoNewProbe
<1>3. CASE ~(halfCalls[q] >= HalfOpenMax) /\ p = q
  <2>1. Probes(p)' \subseteq Probes(p) \cup {c}
    BY <1>3 DEF Probe, Probes, TypeOK
  <2>2. /\ IsFiniteSet(Probes(p) \cup {c})
        /\ Cardinality(Probes(p) \cup {c}) \in Nat
        /\ Cardinality(Probes(p) \cup {c}) <= Cardinality(Probes(p)) + 1
    <3>1. Cardinality(Probes(p) \cup {c}) = IF c \in Probes(p) THEN Cardinality(Probes(p))
                                            ELSE Cardinality(Probes(p)) + 1
      BY ProbesFinite, FS_AddElement
    <3> QED
      BY <3>1, ProbesFinite, FS_AddElement
  <2>3. /\ Cardinality(Probes(p)') <= Cardinality(Probes(p) \cup {c})
        /\ Cardinality(Probes(p)') \in Nat
    BY <2>1, <2>2, FS_Subset, FS_CardinalityType
  <2>4. halfCalls'[p] = halfCalls[p] + 1 /\ halfCalls[p] \in Nat
    BY <1>3, Limits DEF Probe, TypeOK
  <2> QED
    BY <2>2, <2>3, <2>4, ProbesFinite DEF ProbesCounted
<1>4. CASE ~(halfCalls[q] >= HalfOpenMax) /\ p # q
  <2>1. Probes(p)' \subseteq Probes(p)
    BY <1>4 DEF Probe, Probes, TypeOK
  <2>2. halfCalls'[p] = halfCalls[p]
    BY <1>4 DEF Probe, TypeOK
  <2> QED
    BY <2>1, <2>2, NoNewProbe
<1> QED
  BY <1>2, <1>3, <1>4

(* However the threads race between reading HALF_OPEN and taking a probe,  *)
(* no HALF_OPEN period has more than half_open_max_calls probes on the     *)
(* wire.  The bound alone is not inductive: the invariant is that the      *)
(* probes are among those _half_open_calls counts.                         *)
THEOREM WindowSafe == Spec => []WindowBounded
<1> DEFINE Inv == ProbesCounted /\ FreshInCall
<1>1. Init => Inv
  <2> SUFFICES ASSUME Init PROVE Inv
    OBVIOUS
  <2>1. ASSUME NEW p \in Procs PROVE Cardinality(Probes(p)) <= halfCalls[p]
    <3>1. Probes(p) = {}
      BY DEF Init, Probes
    <3> QED
      BY <3>1, FS_EmptySet DEF Init
  <2>2. FreshInCall
    BY DEF Init, FreshInCall
  <2> QED
    BY <2>1, <2>2 DEF ProbesCounted
<1>2. TypeOK /\ TypeOK' /\ Inv /\ [Next]_vars => ProbesCounted'
  <2> SUFFICES ASSUME TypeOK, TypeOK', Inv, [Next]_vars PROVE ProbesCounted'
    OBVIOUS
  <2>1. CASE /\ UNCHANGED halfCalls
             /\ \A p \in Procs : Probes(p)' \subseteq Probes(p)
    BY <2>1, NoNewProbe DEF ProbesCounted
  <2>2. ASSUME NEW c \in Callers, Probe(c) PROVE ProbesCounted'
    BY <2>2, ProbeCounted
  <2>3. ASSUME NEW c \in Callers, ReadState(c) PROVE ProbesCounted'
    <3>1. CASE HalfOpen(Owner[c]) /\ pc' = [pc EXCEPT ![c] = "probe"]
      BY <3>1, NewWindow, OwnerType
    <3>2. CASE UNCHANGED <<breaker, fresh>> /\ pc' = [pc EXCEPT ![c] = "probe"]
      BY <3>2, <2>1 DEF Probes, TypeOK, breaker
    <3>3. CASE UNCHANGED <<breaker, fresh>> /\ pc' = [pc EXCEPT ![c] = "calling"]
      <4>1. ~fresh[c]
        BY <2>3 DEF ReadState, FreshInCall, InCall
      <4>2. \A p \in Procs : Probes(p)' \subseteq Probes(p)
        BY <3>3, <4>1 DEF Probes, TypeOK
      <4> QED
        BY <3>3, <4>2, <2>1 DEF breaker
    <3>4. CASE UNCHANGED breaker /\ Return(c)
      BY <3>4, <2>1 DEF Probes, TypeOK, breaker, Return
    <3> QED
      BY <2>3, <3>1, <3>2, <3>3, <3>4 DEF ReadState
  <2>4. ASSUME NEW p \in Procs, GetMetrics(p) PROVE ProbesCounted'
    BY <2>4, NewWindow DEF GetMetrics
  <2>5. ASSUME NEW c \in Callers, GlobalCheck(c) \/ GlobalHalfOpen(c) \/ Reply(c)
        PROVE  ProbesCounted'
    BY <2>5, <2>1 DEF GlobalCheck, GlobalHalfOpen, Reply, Probes, TypeOK, breaker, Return
  <2>6. ASSUME NEW c \in Callers, OnSuccess(c) \/ Clear(c) \/ CheckOpen(c) \/ Publish(c)
        PROVE  ProbesCounted'
    BY <2>6, <2>1 DEF OnSuccess, Clear, CheckOpen, Publish, Probes, TypeOK, breaker, Return
  <2>7. ASSUME NEW c \in Callers, OnFailure(c) PROVE ProbesCounted'
    BY <2>7, <2>1 DEF OnFailure, Probes, TypeOK
  <2>8. ASSUME NEW c \in Callers, Interrupt(c) PROVE ProbesCounted'
    BY <2>8, <2>1 DEF Interrupt, Return, Probes, TypeOK, breaker
  <2>9. ASSUME NEW p \in Procs, Elapse(p) PROVE ProbesCounted'
    BY <2>9, <2>1 DEF Elapse, Probes
  <2>10. CASE Expire \/ Outage \/ UNCHANGED vars
    BY <2>10, <2>1 DEF Expire, Outage, vars, Probes, breaker
  <2> QED
    BY <2>2, <2>3, <2>4, <2>5, <2>6, <2>7, <2>8, <2>9, <2>10 DEF Next, Step
<1>3. TypeOK /\ Inv /\ [Next]_vars => FreshInCall'
  <2> SUFFICES ASSUME TypeOK, FreshInCall, [Next]_vars PROVE FreshInCall'
    OBVIOUS
  <2> USE DEF FreshInCall, InCall, TypeOK, breaker
  <2>1. ASSUME NEW c \in Callers, GlobalCheck(c) \/ Interrupt(c) PROVE FreshInCall'
    BY <2>1 DEF GlobalCheck, Interrupt, Return
  <2>2. ASSUME NEW c \in Callers, GlobalHalfOpen(c) PROVE FreshInCall'
    BY <2>2 DEF GlobalHalfOpen, Return
  <2>3. ASSUME NEW c \in Callers, ReadState(c) PROVE FreshInCall'
    BY <2>3 DEF ReadState, HalfOpen, Return
  <2>4. ASSUME NEW c \in Callers, Probe(c) PROVE FreshInCall'
    BY <2>4 DEF Probe, Return
  <2>5. ASSUME NEW c \in Callers, Reply(c) PROVE FreshInCall'
    BY <2>5 DEF Reply
  <2>6. ASSUME NEW c \in Callers, OnSuccess(c) PROVE FreshInCall'
    BY <2>6 DEF OnSuccess, Return
  <2>7. ASSUME NEW c \in Callers, OnFailure(c) PROVE FreshInCall'
    BY <2>7 DEF OnFailure
  <2>8. ASSUME NEW c \in Callers, Clear(c) \/ CheckOpen(c) \/ Publish(c) PROVE FreshInCall'
    BY <2>8 DEF Clear, CheckOpen, Publish, Return
  <2>9. ASSUME NEW p \in Procs, Elapse(p) \/ GetMetrics(p) PROVE FreshInCall'
    BY <2>9 DEF Elapse, GetMetrics, HalfOpen
  <2>10. CASE Expire \/ Outage \/ UNCHANGED vars
    BY <2>10 DEF Expire, Outage, vars
  <2> QED
    BY <2>1, <2>2, <2>3, <2>4, <2>5, <2>6, <2>7, <2>8, <2>9, <2>10 DEF Next, Step
<1>4. TypeOK /\ Inv => WindowBounded
  BY ProbesFinite, Limits DEF TypeOK, ProbesCounted, WindowBounded
<1> QED
  BY <1>1, <1>2, <1>3, <1>4, TypeCorrect, PTL DEF Spec

=============================================================================
