--------------------------- MODULE CircuitBreaker ---------------------------
(***************************************************************************)
(* The three-state breaker around every POST /track/batch                  *)
(* (src/src/nullrun/breaker/circuit_breaker.py), with the state that       *)
(* workers share through one Redis key.                                    *)
(*                                                                         *)
(* Each worker process has one breaker, and any number of its threads or   *)
(* coroutines call it; the sync and the async path differ only in how they *)
(* sleep.  One action is one critical section of CircuitBreaker._lock, one *)
(* Redis command, or the wrapped call.  The open jitter only delays a      *)
(* call, and counters and log lines are left out.                          *)
(***************************************************************************)
EXTENDS Integers, FiniteSets

CONSTANTS
  Procs,         \* worker processes, each with its own breaker
  Callers,       \* their threads and coroutines
  Owner,         \* the process of each caller
  Threshold,     \* failure_threshold
  HalfOpenMax,   \* half_open_max_calls
  UseRedis,      \* a redis_client was given
  Env            \* which of EnvKinds the environment does

EnvKinds ==
  { "redis",       \* a Redis command raises, which the breaker logs and ignores
    "interrupt" }  \* the wrapped call ends in a BaseException, e.g. CancelledError

ASSUME CallersFinite == IsFiniteSet(Callers)
ASSUME OwnerType == Owner \in [Callers -> Procs]
ASSUME Limits == Threshold \in Nat \ {0} /\ HalfOpenMax \in Nat \ {0}
ASSUME Switches == UseRedis \in BOOLEAN /\ Env \subseteq EnvKinds

VARIABLES
  state,      \* _state of each breaker
  failures,   \* _failure_count, not counted beyond the threshold
  elapsed,    \* recovery_timeout has passed since _last_failure_time
  halfCalls,  \* _half_open_calls
  redis,      \* the shared key cb:<name>:state, or "none"
  pc,         \* where each caller is in call()
  up,         \* the backend answers
  fresh       \* history: admitted since its breaker last went HALF_OPEN

vars == <<state, failures, elapsed, halfCalls, redis, pc, up, fresh>>

breaker == <<state, failures, elapsed, halfCalls>>

CBState == {"CLOSED", "OPEN", "HALF_OPEN"}
Places  == {"idle", "share", "state", "probe", "calling", "ok", "fail", "clear",
            "check", "publish"}

(* Caller c is refused or has returned. *)
Return(c) ==
  /\ pc' = [pc EXCEPT ![c] = "idle"]
  /\ fresh' = [fresh EXCEPT ![c] = FALSE]

(* A Redis command that sets the key to v, or raises. *)
RedisSet(v) ==
  \/ redis' = v
  \/ "redis" \in Env /\ UNCHANGED redis

----------------------------------------------------------------------------
(* call(): _global_state_allows_call.  OPEN in the key refuses the call    *)
(* and changes nothing.  No code ever writes "CLOSED" to the key, so the   *)
(* last branch is not reachable.                                           *)
GlobalCheck(c) ==
  /\ pc[c] = "idle"
  /\ \E key \in {redis} \cup (IF "redis" \in Env THEN {"none"} ELSE {}) :
       \/ /\ ~UseRedis \/ key = "none"
          /\ pc' = [pc EXCEPT ![c] = "state"]
       \/ /\ UseRedis /\ key = "HALF_OPEN"
          /\ pc' = [pc EXCEPT ![c] = "share"]
  /\ UNCHANGED <<breaker, redis, up, fresh>>

(* ... HALF_OPEN in Redis: compare the local _half_open_calls *)
GlobalHalfOpen(c) ==
  /\ pc[c] = "share"
  /\ IF halfCalls[Owner[c]] >= HalfOpenMax
     THEN Return(c)
     ELSE pc' = [pc EXCEPT ![c] = "state"] /\ UNCHANGED fresh
  /\ UNCHANGED <<breaker, redis, up>>

(* Mutant of HalfOpen: the failure count starts again. *)
MutHalfOpen(p) ==
  /\ state' = [state EXCEPT ![p] = "HALF_OPEN"]
  /\ halfCalls' = [halfCalls EXCEPT ![p] = 0]
  /\ failures' = [failures EXCEPT ![p] = 0]
  /\ fresh' = [c \in Callers |-> fresh[c] /\ Owner[c] # p]
  /\ IF UseRedis THEN RedisSet("HALF_OPEN") ELSE UNCHANGED redis
  /\ UNCHANGED elapsed

(* OPEN for recovery_timeout: the state property itself goes to HALF_OPEN  *)
(* and tells the other workers, all under _lock.                           *)
HalfOpen(p) ==
  /\ state' = [state EXCEPT ![p] = "HALF_OPEN"]
  /\ halfCalls' = [halfCalls EXCEPT ![p] = 0]
  /\ fresh' = [c \in Callers |-> fresh[c] /\ Owner[c] # p]
  /\ IF UseRedis THEN RedisSet("HALF_OPEN") ELSE UNCHANGED redis
  /\ UNCHANGED <<failures, elapsed>>

Recovering(p) == state[p] = "OPEN" /\ elapsed[p]

(* Mutant of ReadState: OPEN refuses the call before the timeout is looked *)
(* at.                                                                     *)
MutReadState(c) ==
  LET p == Owner[c] IN
  /\ pc[c] = "state"
  /\ \/ /\ state[p] = "HALF_OPEN"
        /\ pc' = [pc EXCEPT ![c] = "probe"]
        /\ UNCHANGED fresh
     \/ /\ state[p] = "CLOSED"
        /\ pc' = [pc EXCEPT ![c] = "calling"]
        /\ UNCHANGED fresh
     \/ state[p] = "OPEN" /\ Return(c)
  /\ UNCHANGED <<breaker, redis, up>>

(* _call_sync / _call_async read the state property. *)
ReadState(c) ==
  LET p == Owner[c] IN
  /\ pc[c] = "state"
  /\ \/ /\ Recovering(p)
        /\ HalfOpen(p)
        /\ pc' = [pc EXCEPT ![c] = "probe"]
     \/ /\ state[p] = "HALF_OPEN"
        /\ pc' = [pc EXCEPT ![c] = "probe"]
        /\ UNCHANGED <<breaker, redis, fresh>>
     \/ /\ state[p] = "CLOSED"
        /\ pc' = [pc EXCEPT ![c] = "calling"]
        /\ UNCHANGED <<breaker, redis, fresh>>
     \/ /\ state[p] = "OPEN" /\ ~elapsed[p]
        /\ Return(c)
        /\ UNCHANGED <<breaker, redis>>
  /\ UNCHANGED up

(* get_metrics() reads the property too, with the same effect. *)
GetMetrics(p) ==
  /\ Recovering(p)
  /\ HalfOpen(p)
  /\ UNCHANGED <<pc, up>>

(* Mutant of Probe: the limit is off by one. *)
MutProbe(c) ==
  LET p == Owner[c] IN
  /\ pc[c] = "probe"
  /\ IF halfCalls[p] > HalfOpenMax
     THEN Return(c) /\ UNCHANGED halfCalls
     ELSE /\ halfCalls' = [halfCalls EXCEPT ![p] = @ + 1]
          /\ pc' = [pc EXCEPT ![c] = "calling"]
          /\ fresh' = [fresh EXCEPT ![c] = TRUE]
  /\ UNCHANGED <<state, failures, elapsed, redis, up>>

(* The state was HALF_OPEN when it was read: take one of the probes.  The  *)
(* lock was released in between and the state is not read again.           *)
Probe(c) ==
  LET p == Owner[c] IN
  /\ pc[c] = "probe"
  /\ IF halfCalls[p] >= HalfOpenMax
     THEN Return(c) /\ UNCHANGED halfCalls
     ELSE /\ halfCalls' = [halfCalls EXCEPT ![p] = @ + 1]
          /\ pc' = [pc EXCEPT ![c] = "calling"]
          /\ fresh' = [fresh EXCEPT ![c] = TRUE]
  /\ UNCHANGED <<state, failures, elapsed, redis, up>>

----------------------------------------------------------------------------
(* The wrapped call ends; its outcome reaches the breaker a moment later.  *)
Reply(c) ==
  /\ pc[c] = "calling"
  /\ pc' = [pc EXCEPT ![c] = IF up THEN "ok" ELSE "fail"]
  /\ UNCHANGED <<breaker, redis, up, fresh>>

(* `except Exception` does not catch a BaseException: neither handler runs. *)
Interrupt(c) ==
  /\ "interrupt" \in Env
  /\ pc[c] = "calling"
  /\ Return(c)
  /\ UNCHANGED <<breaker, redis, up>>

(* _on_success / _on_success_async, which closes the breaker whatever its  *)
(* state is by now                                                         *)
OnSuccess(c) ==
  /\ pc[c] = "ok"
  /\ state' = [state EXCEPT ![Owner[c]] = "CLOSED"]
  /\ failures' = [failures EXCEPT ![Owner[c]] = 0]
  /\ IF UseRedis THEN pc' = [pc EXCEPT ![c] = "clear"] /\ UNCHANGED fresh ELSE Return(c)
  /\ UNCHANGED <<elapsed, halfCalls, redis, up>>

(* _clear_global_state *)
Clear(c) ==
  /\ pc[c] = "clear"
  /\ RedisSet("none")
  /\ Return(c)
  /\ UNCHANGED <<breaker, up>>

(* _on_failure / _on_failure_async *)
OnFailure(c) ==
  LET p == Owner[c]
      count == IF failures[p] < Threshold THEN failures[p] + 1 ELSE failures[p]
      next == IF UseRedis THEN "check" ELSE "idle"
  IN
  /\ pc[c] = "fail"
  /\ failures' = [failures EXCEPT ![p] = count]
  /\ elapsed' = [elapsed EXCEPT ![p] = FALSE]
  /\ state' = [state EXCEPT ![p] = IF count >= Threshold THEN "OPEN" ELSE @]
  /\ pc' = [pc EXCEPT ![c] = next]
  /\ fresh' = [fresh EXCEPT ![c] = @ /\ next # "idle"]
  /\ UNCHANGED <<halfCalls, redis, up>>

(* ... reads _state once more, without the lock, ... *)
CheckOpen(c) ==
  /\ pc[c] = "check"
  /\ IF state[Owner[c]] = "OPEN"
     THEN pc' = [pc EXCEPT ![c] = "publish"] /\ UNCHANGED fresh
     ELSE Return(c)
  /\ UNCHANGED <<breaker, redis, up>>

(* ... and publishes OPEN. *)
Publish(c) ==
  /\ pc[c] = "publish"
  /\ RedisSet("OPEN")
  /\ Return(c)
  /\ UNCHANGED <<breaker, up>>

----------------------------------------------------------------------------
(* Time and the environment *)

Elapse(p) ==
  /\ state[p] = "OPEN" /\ ~elapsed[p]
  /\ elapsed' = [elapsed EXCEPT ![p] = TRUE]
  /\ UNCHANGED <<state, failures, halfCalls, redis, pc, up, fresh>>

(* The key lives for _state_ttl seconds. *)
Expire ==
  /\ redis # "none"
  /\ redis' = "none"
  /\ UNCHANGED <<breaker, pc, up, fresh>>

Outage ==
  /\ up' = ~up
  /\ UNCHANGED <<breaker, redis, pc, fresh>>

----------------------------------------------------------------------------

Init ==
  /\ state = [p \in Procs |-> "CLOSED"]
  /\ failures = [p \in Procs |-> 0]
  /\ elapsed = [p \in Procs |-> FALSE]
  /\ halfCalls = [p \in Procs |-> 0]
  /\ redis = "none"
  /\ pc = [c \in Callers |-> "idle"]
  /\ up \in BOOLEAN
  /\ fresh = [c \in Callers |-> FALSE]

(* The rest of a call() that has begun *)
Step(c) ==
  \/ GlobalHalfOpen(c) \/ ReadState(c) \/ Probe(c)
  \/ Reply(c) \/ OnSuccess(c) \/ Clear(c) \/ OnFailure(c) \/ CheckOpen(c) \/ Publish(c)

Next ==
  \/ \E c \in Callers : GlobalCheck(c) \/ Step(c) \/ Interrupt(c)
  \/ \E p \in Procs : Elapse(p) \/ GetMetrics(p)
  \/ Expire
  \/ Outage

Spec == Init /\ [][Next]_vars

(* The flush loop calls the breaker again and again, the wrapped call has  *)
(* a timeout, and the clock runs.                                          *)
Fairness ==
  /\ \A c \in Callers : WF_vars(GlobalCheck(c)) /\ WF_vars(Step(c))
  /\ \A p \in Procs : WF_vars(Elapse(p))
  /\ WF_vars(Expire)

FairSpec == Spec /\ Fairness

----------------------------------------------------------------------------

TypeOK ==
  /\ state \in [Procs -> CBState]
  /\ failures \in [Procs -> 0 .. Threshold]
  /\ elapsed \in [Procs -> BOOLEAN]
  /\ halfCalls \in [Procs -> 0 .. HalfOpenMax]
  /\ redis \in {"none", "OPEN", "HALF_OPEN"}
  /\ pc \in [Callers -> Places]
  /\ up \in BOOLEAN
  /\ fresh \in [Callers -> BOOLEAN]

(* However calls that started in different states end, a breaker is CLOSED *)
(* exactly while fewer than failure_threshold calls have failed since the  *)
(* last success.  So one failing probe is enough to open it again.         *)
ClosedBelowThreshold ==
  \A p \in Procs : state[p] = "CLOSED" <=> failures[p] < Threshold

(* The probes on the wire that a breaker has admitted since it went        *)
(* HALF_OPEN *)
Probes(p) == {c \in Callers : Owner[c] = p /\ pc[c] = "calling" /\ fresh[c]}

(* One HALF_OPEN period never has more than half_open_max_calls probes on  *)
(* the wire, whichever threads raced for them.                             *)
WindowBounded == \A p \in Procs : Cardinality(Probes(p)) <= HalfOpenMax

(* Every probe of the HALF_OPEN period was handed out and none is on its   *)
(* way any more: an interrupted call never reaches _on_success or          *)
(* _on_failure, and nothing gives its slot back.                           *)
Starved(p) ==
  /\ "interrupt" \in Env
  /\ state[p] = "HALF_OPEN" /\ halfCalls[p] = HalfOpenMax
  /\ \A c \in Callers : Owner[c] = p => pc[c] \notin {"calling", "ok", "fail"}

(* If the backend answers from some moment on, every breaker is CLOSED     *)
(* from some moment on: no worker is kept out by a state that it, or       *)
(* another worker, has left behind locally or in Redis.  Only the loss of  *)
(* its probes to interrupted calls can keep a worker out.                  *)
Recovers ==
  <>[]up => \A p \in Procs : <>[](state[p] = "CLOSED") \/ []<>Starved(p)

=============================================================================
