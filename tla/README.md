# TLA+ models of the NullRun Python SDK

This directory holds TLA+ specifications of the SDK in `src/src/nullrun`, the
TLC configurations that check them on small instances, and TLAPS proofs.
`PROJECT.json` maps every definition to the source lines it models and lists
runs, mutants, findings, hazards and theorems.

## 1. Inventory

The SDK sits between an agent program and the NullRun backend. An application
thread calls a function under `@protect`; the SDK asks the backend whether it may
run, runs it, and reports its cost. Several application threads, a flush thread, a
WebSocket thread, the backend and other worker processes act at the same time.

| Component | State | Operations | Interaction |
|---|---|---|---|
| Event delivery (`transport.py`) | in-memory buffer, attempt table, DLQ overflow index; files `<wal>`, `.wal.1`, `.inflight`, `.dlq`, `.holdover` | `track`, flush loop, settle, bisect, quarantine, replay at `start`, persist at `stop` | sends through the circuit breaker; files are shared with `wal_admin` and later processes |
| Circuit breaker (`breaker/circuit_breaker.py`) | CLOSED/OPEN/HALF_OPEN, failure and probe counters, one Redis key | `call`, `_on_success`, `_on_failure`, `state`, `get_metrics` | threads of one worker share the object, workers share the key |
| Protected call (`decorators.py`, `runtime.py`, `context.py`) | captured reservation id per context, gate cache, pending approvals, reverse index | control-plane check, budget gate, tool gate, approval wait, body, cancel and orphan cleanup | calling threads block on events that the WebSocket thread sets |
| Control plane (`runtime.py`) | `_remote_states` per workflow | WebSocket updates, `GET /status` | read by every protected call |
| WebSocket client (`transport_websocket.py`) | connection, `_last_version` per workflow | handshake, dispatch, ACK, resync, key rotation, reconnect | calls back into the runtime |
| Gate requests (`transport.py`, `edge.py`, `breaker/exceptions.py`) | operation id, attempts, configuration | `check`, `execute`, retries, parsing of refusals, fallback modes, fail-open, edge box | decide between body and exception |
| WAL lock and administration (`transport.py`, `wal_admin.py`) | the DLQ of a path, its lock file, temporary copies | append under the lock; resend rows, rewrite the file | threads, processes and the operator's CLI on one file |
| Provider calls (`instrumentation/*`, `runtime.py`) | reservation of the context, fingerprints of recent events, runs of the callback, deferred refusals | pre-flight, settle, release, `track`, `_route_track` | patched clients and a LangChain callback see the same call |
| Webhooks (`actions.py`) | bounded queue | enqueue, deliver with retries | own thread |
| Instrumentation, toolbox, audit, impact, observability, FastAPI, messages | patches, encodings, counters | – | feed the parts above |

What is hard: a crash between two file operations; partial answers to a batch;
stop racing track; the shared breaker state; an approval that is answered before,
during or after its wait; context that outlives a call; commands that are pushed,
polled and fetched at the same time over a connection that may be lost; an answer that
may be a decision, a fault or somebody else's; money that is reserved before a request
and must be settled after it, by one of two observers; a file that many write and an
operator rewrites. What makes the parts
correct: no accepted event is lost without being counted; what is parked is not
sent again; recoverable failures do not quarantine; retries end; the breaker opens
and closes exactly at its threshold and limits its probes; no body runs without
its grants; the reservation of a completed call survives; every call ends; a kill that
was applied is only lifted by a later command, and every command arrives; a refusal is
final and an outage fails closed; usage is booked once and reservations are closed; a
parked row stays until it is delivered.
`PROJECT.json` lists the hazards line by line with the properties for them.

## 2. Modules

### EventDelivery (`EventDelivery.tla`, `MCEventDelivery.tla`, `EventDeliveryProofs.tla`)

State: the files and the backend (durable), and the transport object of the
running process (lost in a crash). Batches and files are sets of event ids: the
backend deduplicates by id and no property is about order; which half or which
events are newest is a nondeterministic choice. Every action makes at most one
durable change, so a crash between two actions is one between two system calls.

| Actions | Code |
|---|---|
| `Track`, `Tick`, `BeginFlush`, `DrainDlqOverflow`, `ReleaseHoldover`, `TakeBatch`, `PersistInflight`, `FlushReturn`, `DropNewest` | `track`, `_flush_loop`, `_do_flush_locked`, holdover handling, overflow |
| `SendAnswered`, `SendUnreachable`, `SendForbidden`, `SendUnauthorized`, `SendTimeout`, `SendRejected`, `SendRefused`, `SendOverrun`, `SendUnconfirmed` | one answer each of `POST /track/batch`, and its handler |
| `SettleTerminal`, `SettleUnknown`, `SettleEnd` | `_settle_batch_outcome` |
| `SendSubbatches`, `HalfAnswered`, `NextHalf` | `_send_subbatches`, `_attempt_half`; the recursion is an explicit stack |
| `RetryOrDlq`, `Park`, `Quarantine`, `QuarantineClear`, `HoldForDlq` | attempt budget, dead-lettering, DLQ cap |
| `Start`, `ReplayPersist`, `ReplayWrite`, `ReplayRemove`, `RecoverHoldover` | `_replay_from_wal`, `_recover_holdover` |
| `StopCall` … `StopClear` | `stop`, `_persist_to_wal` |

`Env` says which answers and faults happen and `MaxFaults` bounds how often;
`Lasting` kinds are unbounded. One process uses a WAL path.

### EventFate (`EventFate.tla`, `EventFateProofs.tla`)

What event delivery promises, without files, batches and answers: an event is new, in
memory, on disk or settled (with the backend, parked, or counted as lost); `Take`,
`Journal` and `Settle` move it forwards, and only `Forget`, the death of the process,
takes back what was in memory alone. `EventDelivery` maps its state to it with `Fate`,
and `KeepsPromise` says that it implements it.

### DeadLetters (`DeadLetters.tla`, `MCDeadLetters.tla`, `DeadLettersProofs.tla`)

`EventDelivery` takes an append to the DLQ as one step. Here it is the steps other
processes can see: several threads of several processes append under the WAL lock while
an operator replays the file. Lines are events, a row without its event (`Bare`), a whole line
that is no JSON (`Broken`) and a last line that was cut off (`Torn`).

| Actions | Code |
|---|---|
| `Refuse`, `Retry` | `_write_dlq_rows`, `_drain_dlq_overflow` |
| `Acquire`, `GiveUp`, `Release` | `_wal_file_lock` |
| `Copy`, `Replace`, `WriteFails` | `_write_events_atomic` in mode "a" |
| `Select`, `Send`, `ReadAgain`, `Rewrite`, `ReplayFails` | `_cmd_replay`, `_unconfirmed_event_ids`, `_drop_confirmed` |
| `Crash` | the death of a process: the kernel releases its lock (external) |

`overrun` is history: the rows a replay loses in one of the two ways listed in section 3.

### CircuitBreaker (`CircuitBreaker.tla`, `MCCircuitBreaker.tla`, `CircuitBreakerProofs.tla`)

One action is one critical section of `_lock`, one Redis command, or the wrapped
call. `fresh` is history: whether a caller was admitted as a probe of its breaker's
present HALF_OPEN period. The failure count is kept up to the threshold, beyond which the code only
compares it. The Redis client returns `str`, as the tests' does. A client that
returns bytes would match none of the compared strings.

### ProtectedCall (`ProtectedCall.tla`, `MCProtectedCall.tla`, `ProtectedCallProofs.tla`)

| Actions | Code |
|---|---|
| `Call`, `CallUnscoped` | `_protect_body`, `check_control_plane`; outside a workflow neither it nor the budget gate runs |
| `LookUp`, `BudgetAnswer`, `BudgetUnreachable`, `BudgetError`, `Decide`, `Capture` | `check_workflow_budget`, gate cache, `_capture_server_minted_execution_id` |
| `ToolAllow`, `ToolBlock`, `ToolApproval`, `ToolError`, `ToolUnreachable` | `_run_tool_policy_gate`, `execute` |
| `Register`, `Wake`, `TimeOut`, `Unregister` | `_wait_for_approval_resolution` |
| `Refused`, `BudgetApproved`, `Unindex`, `ReCheck` | what each gate does with the outcome |
| `BodyReturns`, `BodyRaises`, `Cancel`, `CloseOrphan` | the wrappers, `_enrich_event`, `_safe_cancel_active_execution` |
| `Deliver`, `Mark`, `SetEvent`, `Stash` | `_handle_approval_resolved`, step by step |
| `Mint`, `MintApproval`, `Resolve`, `SweepGrant`, `LosePush`, `Settle` | the backend and the network (external) |

The backend mints reservations and approval rows, knows only executions it
minted and that were not cancelled, and consumes only a row that is APPROVED and
bound to the execution. This is how the SDK's comments and tests use it. A gate
answer is `allow` (with `soft_pass`), `block` (with `deny`) or `require_approval`.

### Refusals and GateRequest (`Refusals.tla`, `GateRequest.tla`, `MCGateRequest.tla`, `GateRequestProofs.tla`)

`ProtectedCall` takes the outcome of a gate as given; `GateRequest` is how it comes
about, for one thread that makes one call after the other. `Refusals` holds the exception
hierarchy as sets of classes an `except` clause catches, the whole catalogue of wire
codes, and the two parsers that turn a code into an exception; where a parser cannot
build its class, the outcome is the `TypeError` Python raises.

| Actions | Code |
|---|---|
| `Call`, `CallExecute`, `SkipBudget`, `Unscoped`, `AskGate`, `AskExecute` | `_protect_body`, `check_workflow_budget`, `runtime.execute`, operation ids |
| `Attempt`, `AttemptFails`, `Wait`, `GateGivesUp`, `ExecuteGivesUp` | `_retry_with_backoff` and what each endpoint does when it is out of attempts |
| `EdgeAnswers`, `EdgeRetry`, `EdgeUnreachable` | `EdgeTransport` |
| `GateAnswered`, `BudgetDecision` | `Transport.check`, `check_workflow_budget` |
| `ExecuteAnswered`, `ExecuteDecision`, `ToolGateFailed`, `ToolGatePassed` | `Transport.execute`, `runtime.execute`, `_run_tool_policy_gate` |
| `Stop`, `Return` | `stop`, the end of a call |

An answer is a record of the fields the code reads, and the environment sends any of
`GateSent` or `ExecuteSent`. `said` is history: what the last attempt was told, read as
the backend wrote it (`GateMeaning`, `ExecuteMeaning`); a refusal of `/execute` is marked
"unread" when the SDK takes it for an outage.

### LlmCall (`LlmCall.tla`, `LlmCallProofs.tla`, `MCLlmCall.tla`)

A call to a model provider that the SDK observes through patched HTTP clients and, under
LangChain, a callback. A task is one context of contextvars; tasks may share a thread.

| Actions | Code |
|---|---|
| `Protect`, `Boundary` | the gate of a protected scope, `_raise_deferred_enforcement` |
| `Begin`, `Over` | the application's call |
| `OnLlmStart`, `OnLlmEnd` | `NullRunCallback` |
| `Killed`, `SendUnreserved`, `Preflight`, `Provider` | `handle_request`, `handle_async_request`, `_wrapped_send`, with release and streaming |
| `Duplicate`, `Track`, `TrackFails` | `NullRunRuntime.track`, `_enrich_event`, `_route_track`, `track_single` |
| `GrowOld`, `Kill` | time and the operator (external) |

What a parser of provider responses does is reduced to whether it finds usage.

### ControlPlane (`ControlPlane.tla`, `MCControlPlane.tla`, `ControlPlaneProofs.tla`)

The state of a message is named by its version; `hist` holds what the server's workflow
had at each. `mode` is how the process was started: the runtime's listener, a
`WebSocketConnection` used on its own (as its tests and `Transport.connect_websocket`
allow), or the poller.

| Actions | Code |
|---|---|
| `Connect`, `Drop`, `Reconnect`, `ServeEnds` | `connect`, `_receive_loop`, `_reconnect_loop`, `_ws_connect_and_serve` with `close` |
| `HandleState`, `HandleKeyRotated`, `HandleResync`, `RejectSignature` | `_handle_message`, `_dispatch_state`, `on_state_change` |
| `CheckEmpty`, `PollRound`, `PollNext` | `check_control_plane`, `_poll_commands` |
| `FetchGet`, `FetchRead`, `FetchWrite` | `_fetch_remote_state`: request, read of the cached entry, write of the merged one |
| `Shutdown` | `shutdown` |
| `Operate`, `Redeliver`, `Overflow`, `Rotate` | the server (external): it pushes each change to an open connection and its whole view to a new one |

A lost connection loses what is on the wire. In the listener, `Reconnect` may be tried
before `ServeEnds`. The ACK of a push is informational and left out, and so is the
rejection of messages older than five minutes.

## 3. Runs

Passing runs. Each property has a mutant of a mapped definition under which TLC
finds it violated.

| Run | Properties | Bounds |
|---|---|---|
| `crash_recovery` | `NoSilentLoss`, `JournaledStaysDurable`, `HeldIsDurable`, `OnlyRefusedParked`, `KeepsPromise` | 3 events, one critical, batches and buffer of 2, attempt budget of 1, DLQ of 2 rows, holdover index of 1, 4 faults, any of which may be answers, crashes or failing disk writes, also during replay |
| `outage` | `BufferBounded` | 4 events, one critical, buffer of 2, attempt budget of 1, a lasting outage, any number of stops and 2 more faults |
| `settles` | `TypeOK`, `NoSilentLoss`, `ParkedNeverResent`, `EventuallySettled` | 3 events in one batch, so two levels of halving; attempt budget of 1; request budget of 4, so it runs out; DLQ of 2 rows; rejected and unconfirmed batches and stops without end, and one answer of any of the other eight kinds |
| `dead_letters` | `TypeOK`, `RowsSurvive`, `UnreadableKept`, `AppendEnds` | 2 threads of one process and 1 of another, 3 events, 2 replays, a file that begins with any unreadable lines |
| `circuit_breaker` | `TypeOK`, `ClosedBelowThreshold`, `WindowBounded`, `Recovers` | 3 threads in 2 workers, one Redis key, threshold 2, 1 probe, failing Redis commands and interrupted calls |
| `pc_ends` | `TypeOK`, `RunsOnlyApproved`, `CallEnds` | 2 threads that may share a cached approval, 2 calls, fail-open |
| `pc_cleanup` | `GrantClosed`, `RunsOnOpenReservation`, `CompletedNeverCancelled` | 3 calls, 4 executions, 2 approvals |
| `gates` | `TypeOK`, `RefusalIsFinal`, `FailClosed`, `OnlyDenialsReachModel`, `OneOperationPerCall`, `CallEnds` | 2 calls, 1 retry at each place, a wire code for every way the SDK treats one, configurations that set few variables |
| `llm_call` | `TypeOK`, `UsageBookedOnce`, `UsageAccounted`, `ReservationClosed` | 2 tasks on one thread, 2 calls of 6 kinds, 3 reservations, a fingerprint list of 2, a run table of 1, 2 faults |
| `cp_channel` | `TypeOK`, `QuietMeansCurrent`, `NeverStepsBack`, `CatchesUp` | 1 workflow in each mode, changed twice (so a kill can be lifted), 1 calling thread and the poller, whose fetches a push may overtake at any step, 1 attempt to reconnect, 3 faults |

The bounds let every interesting case happen: a batch that fills, a buffer, DLQ and
table at their limit, two faults in one flush and one in the recovery from it; two
threads on one approval, one approval per gate, and a call after the one that left
something behind; a connection lost twice, or lost and then refused. Workflows do not
read each other's state in `ControlPlane`, so one is enough (the proofs have any number).
One retry is enough in `gates`, since attempts only differ in being the last or not, and
two calls are what it takes to reuse an operation id. In `llm_call` two tasks make the
list of fingerprints overflow between two reports of one call. All runs but those of event
delivery and the breaker switch off deadlock checking, since an application may make no
more calls, an operator give no more commands, and every event be parked.

Violation runs, each a disagreement between the code and its own documentation,
quoted in `PROJECT.json` "findings":

* `v_half_refusal`: a half of a bisected batch that is answered with a 2xx is taken
  for delivered whole, so an event the body refuses is lost;
* `v_cp_lost`: the listener closes its connection when the first receive task ends, which
  cancels the reconnect loop, and nothing starts the poller: after one lost connection no
  command of the operator arrives (`CommandsArrive`).

### Where the properties do not hold

A passing run says what holds beside these cases: its `Env` leaves out the kinds (in
brackets) under which the code breaks the property. Adding them to the run's
configuration shows the counterexample.

* `NoSilentLoss`: `stop()` writes `<wal>` anew over what an earlier replay put back
  there (`settles` with "outage"; `transport.py:1698`); `track()` between the write of
  `<wal>` and the clearing of the buffer (`settles` with "late"; `transport.py:1700`);
  a restart that finds the WAL lock taken skips its replay and later overwrites
  `.inflight` (`crash_recovery` with "lock"; `transport.py:1753`).
* `JournaledStaysDurable`: parking one half, or an unexplained event, clears the
  `.inflight` that still covers the rest of the batch (`crash_recovery` with "rejected" or
  "unknown"; `transport.py:2854`, `transport.py:2104`), against the rule of
  `docs/wal-and-dlq.md:35`.
* `ParkedNeverResent`: a held refusal that `.inflight` still covers is replayed after a
  crash (`settles` with "crash"; `transport.py:2046`); a rotation during replay leaves a
  second copy in `<wal>.1` (`settles` with "outage" and `WalMax = 1`; `transport.py:1811`). A
  failing disk and a `track()` during `stop` leave such a copy too (`settles` with "disk" or
  "late").
* `GrantClosed`: the request that consumes a grant may be lost, and nothing repeats it
  (`pc_cleanup` with "unreachable").
* `OnlyRefusedParked`: a 401 is retried with the bounded budget and then quarantined
  (`crash_recovery` with "unauthorized"; `transport.py:2418`), although `transport.py:2118-2128`
  counts 401 and 403 among the "4xx classes that MUST NOT be quarantined".
* `BufferBounded`: the paths through `_requeue_at_head` and `_retry_or_dlq` do not check
  the bound (`outage` with "forbidden" or "timeout"; `transport.py:2420`).
* `EventuallySettled`: when more failing signatures alternate than the attempt table
  holds, each reset takes the other counts and no batch runs out of attempts (`settles`
  with "unknown" lasting too and `MaxTracked = 2`; `transport.py:2460`). After a crash, what
  a failed replay puts back into `<wal>` waits for the next start (`settles` with "crash"
  and "outage" and 2 faults; `transport.py:1796`). An event refused with
  `retry_after_ms` goes back through `_requeue_at_head`, which counts no attempt
  (`transport.py:2113`), although the comment says "Bounded by the per-event attempt counter
  anyway, so a hint that never materialises cannot pin the buffer" (`transport.py:2096`): a
  backend that repeats the hint is sent the event for ever (`settles` with "partial" lasting
  too). An outage, a 403 or a 408 that lasts for ever keeps its events in the buffer for ever,
  as their comments intend.
* `Recovers` names its exception: a cancelled probe runs neither handler and keeps its
  slot, so the breaker may stay in HALF_OPEN and refuse every call (`Starved`;
  `circuit_breaker.py:364`).
* `RunsOnOpenReservation`: a call outside every workflow runs under the id an earlier call
  captured (`pc_cleanup` with "unscoped"; `runtime.py:3892`), and so does one whose budget gate
  fails open on an exception that `Transport.check` lets out, before anything is captured
  (`pc_cleanup` with "uncaptured"; `runtime.py:2664`, `runtime.py:2713`).
* `CompletedNeverCancelled`: a call refused by a kill, or failing before its own answer,
  cancels the reservation the previous call completed on (`pc_cleanup` with "kill",
  "error" or "uncaptured"; `decorators.py:513`); two calls of a chain share a cached reservation, and the
  one that raises cancels it (`pc_cleanup` with "chain"; `runtime.py:2632`).
* `CommandsArrive` also fails when the first connect is refused, after `resync_required`
  (its handler sets `_closed`, also in a connection used on its own;
  `transport_websocket.py:563`) and after a rotation of the secret (`on_key_rotated` is
  never awaited; `transport_websocket.py:488`): `v_cp_lost` with "refuse", "resync" or
  "rotate" in place of "drop". It holds for the poller, and for a connection used on its
  own that loses its connection and can reconnect. `CatchesUp` is the same property for as
  long as the process listens.

Some models name their exceptions in the property or in a history variable:

* `RowsSurvive` (`overrun`): the CLI rewrites the DLQ without the lock, so rows appended
  between its second read and its replace are lost (`wal_admin.py:410`, against
  `docs/wal-and-dlq.md:123`, "the DLQ ends with every writer's rows"); a replay of more rows
  than `max_buffer_size` in an outage, or whose batch is bisected and a half of it refused,
  counts what its transport has dropped as confirmed and removes it. A selected row without an event raises
  `AttributeError` after the rows were sent and before any is removed (`wal_admin.py:345`).
* `QuietMeansCurrent`, `NeverStepsBack` and `CatchesUp` (`crossed`): the workflows whose last
  push was applied between the server's answer to `GET /status` and the write of that answer.
  The write undoes the push (`runtime.py:1733`): the server answers Normal, a kill is pushed and
  applied, and Normal is written over it. In the listener nothing fetches again once the entry
  has a state, so the kill stays undone until the next push that crosses no answer.
  `_states_lock` covers each access and not the exchange, although
  `tests/test_remote_states_race.py:15` calls "all five call sites" thread-safe and names
  clobbering "a "Killed" state set by a concurrent WS push" as the danger (line 173). All three
  properties fail in `cp_channel` without their `crossed`.
* `RefusalIsFinal` ("unread"): under the operator's opt-out the body runs after a refusal of
  `/execute` that reaches the tool gate as an outage, although "Real `decision=block` from the
  gateway is still honored" (`decorators.py:956`), "A gate refusal is a refusal whatever the
  status" (`transport.py:3786`, which `/gate` follows) and "the gate's own answer is always
  honoured" (`tests/test_adr063_infra_refusal_is_not_fail_closed.py:54`). There are three kinds
  (`Overlooked`): a 5xx with `decision="block"`, raised as `NullRunBackendError` before its body
  is read (`transport.py:769-783`, `decorators.py:1034-1042`); a 4xx whose code or status stands
  for an exception of the transport; and a 200 block whose code has a class with another
  constructor (chain codes, `WORKFLOW_INACTIVE`, `CONSUME_OVERBUDGET`,
  `BUDGET_RECHECK_FAILED`), which raises a `TypeError` (`runtime.py:4358`), or stands for the
  infrastructure. Without the opt-out these refusals are final too. The stronger
  "no body after `refuse` or `unread`" fails in `gates`. The property speaks of the last
  attempt: a 503 refusal of `/gate` followed by a lost connection fails open.
* `FailClosed` is about the backend's gates: with an edge box that cannot be reached the
  budget gate fails open and `execute` then allows without asking (`edge.py:283`).
* `OneOperationPerCall`: direct calls of `execute`, and calls that skip the budget gate, reuse
  the id an earlier call left in its context variable (`runtime.py:3845`).
* `UsageBookedOnce`: usage is booked twice when the callback reads another model name than
  the transport, under `requests` (whose fingerprint is of the body), and when the first
  fingerprint was pushed out of the list.
* `UsageAccounted`: a `/track` that fails is not repeated and the other observer's report
  is dropped as a duplicate (`runtime.py:3465`); a kill during a provider call loses its usage;
  responses without an id share a fingerprint.
* `ReservationClosed` is about reservations the transport made itself, and excepts two
  ways out of the hooks that no handler covers: a send, or a read of the body, that is
  cancelled or interrupted (`auto.py:1165`, `auto.py:1203`, `auto.py:1311`,
  `auto.py:1337`, `auto_requests.py:262`), since `except Exception` does not catch
  `CancelledError`, although "A call that never billed does not hold your budget" (the
  repository's `README.md:302`); and an extractor that raises (`auto.py:1216`,
  `auto.py:1350`, `auto_requests.py:290`). That each provider call has one of its own
  (`auto.py:956`) does not hold: the reservation in the context is not cleared when it is
  settled, so for 295 s a second call uses it without a pre-flight (`auto.py:941`). The
  gate of `on_llm_start` replaces the reservation of the protected scope, which nobody
  settles, and there is no `on_llm_error`, so a call that fails leaves the callback's
  reservation and run open. A refusal deferred by one chain may be raised in another task
  of the same thread (`langgraph.py:78`).

Beyond the stated properties, the models show that a call which read HALF_OPEN may go on
the wire after the breaker has opened again (`circuit_breaker.py:326`), that a worker
whose own breaker is CLOSED is not limited in a shared HALF_OPEN (`circuit_breaker.py:193`),
that a late success deletes another worker's OPEN (`circuit_breaker.py:380`), that a waiter
may be woken before its outcome is stored and then refuses an approved call
(`runtime.py:1790`), that a push handled before the waiter registers is dropped
(`runtime.py:1769`), and that the tool gate's success path leaves its entry in the reverse
index (`runtime.py:4068`).

Fairness. Event delivery: the flush loop wakes up (a timer thread), a flush that
began goes on (each send has a timeout and bounded retries), a process that is down
is started again, a `stop` that was called returns. Circuit breaker: the loop calls
again, the wrapped call has a timeout, the clock runs and keys expire. Protected
call: a thread inside a call runs on, since requests and waits have timeouts;
bodies are assumed to end. Control plane: the event loop and the poller run, requests
have timeouts, the reconnect loop sleeps at most a minute. Gate requests: the calling
thread runs on, and every request has a timeout. Dead letters: a thread that waits for the
lock goes on or gives up, and one that has it goes on; nothing is assumed of the operator's
replay. Nothing is assumed of the
operator, of the network, of `track`, of crashes, or in the protected call of pushes and
of the WebSocket thread.

## 4. Proofs

All theorems hold for every value of the constants that meets the named
assumptions: finite sets of events and callers, natural bounds, an environment
among the known kinds, a `None` that is no caller, execution or approval.

* `EventDeliveryProofs!TypeCorrect`. Its content beyond types is the stack
  discipline of the bisection.
* `EventDeliveryProofs!HeldSafe`: `HeldIsDurable` in every environment. Inductive
  with `ReleasedAreDead` (what a release removes from the holdover has its DLQ row).
* `EventDeliveryProofs!CrashSafe`: `NoSilentLoss /\ JournaledStaysDurable`, assuming
  `WholeBatchEnv` (no bisection, no unexplained events, no foreign lock holder, no
  stop: section 3 says how each of them can lose an event). `CrashInv` adds that the batch in hand is
  covered by `.inflight` once written, that files remembered for removal are the ones
  replayed, and that a rotated file is redundant.
* `EventFateProofs!PromiseKept`: `KeepsPromise` under the same `WholeBatchEnv`, for every
  set of events and all bounds. A step that unsettles nothing, takes nothing off the disk
  that it does not settle, and does not journal and settle different events at once is a
  step of `EventFate` (`FateStep`); each group of actions is shown to be of that form, from `CrashInv`, `HeldInv`
  and that what is in a recovery file was counted as journaled.
* `DeadLettersProofs!TypeCorrect` and `RowsSafe`: exactly the holder of the WAL lock works
  on the file, and `RowsSurvive`, for any number of threads, processes, events and replays
  and in every environment. The invariant adds that the copy about to replace the file has all its
  rows and the new one (`CopyComplete`), that the rows a replay has read are still there
  (`OriginalThere`), and that what it takes for confirmed was accepted or is in `overrun`
  (`ConfirmedAccounted`).
* `EventDeliveryProofs!RecoverableSafe`: the action property `OnlyRefusedParked`, assuming
  only that no 401 comes. `blamed` is history: the events which the answer
  being handled refuses for good. The invariant `OnItsWay` says that every row on its way to
  the DLQ or the holdover is blamed, through halving, attempt budgets used up by other answers,
  crashes and stops.
* `EventDeliveryProofs!BufferSafe`: `BufferBounded`, assuming `OutageEnv` (the only failing
  answer is an outage, and a batch is not larger than the buffer; the other answers re-queue
  without looking at the bound). `BufferInv` adds that the flush leaves the buffer empty until
  it knows how much of its batch goes back, and `DropBound` is what
  `_drop_newest_with_priority` computes.
* `EventDeliveryProofs!ResendSafe`: `ParkedNeverResent` for every answer, bisection, retry
  budget and cap, assuming `CleanEndEnv` (processes end through `stop`, the disk can be written,
  nobody calls `track` during `stop`, the backend is in order during a replay; section 3 has
  the counterexamples without each). `ResendInv`: no event is in two hands of the flush
  (buffer, wire, halves on the stack, refusals being settled, rows on their way to the DLQ:
  `Apart`), none of them and no file to be replayed has a parked event (`ParkedApart`), a
  replay sends one batch which is accepted (`CleanReplay`), and `stop` leaves no `.inflight`
  (`CleanLife`). `PushHalf` and `PopHalf` are about the stack of halves. TLC checked
  `ResendInv` first, on the instance of `settles` with the lock, partial answers, refused halves and outages added.
* `DeadLettersProofs!UnreadableSafe`: the action property `UnreadableKept`. Nobody appends a
  line that cannot be replayed, so what a replay read has all of those that its rewrite finds
  (`LinesSeen`), although copies made before it may replace the file in between.
* `CircuitBreakerProofs!TypeCorrect`, `ThresholdSafe`, `WindowSafe`. The last needs
  `ProbesCounted`: the callers admitted in this HALF_OPEN period are at most
  `_half_open_calls`, although results of earlier periods arrive in between.
* `ProtectedCallProofs!TypeCorrect`, and `ApprovalSafe`: `RunsOnlyApproved` for any
  number of threads, calls and approvals, in every environment, with or without
  fail-open. The invariant follows a grant: a verdict never changes (`Unresolved`); an
  entry, registered or in the handler's hands, belongs to a caller that waits for that
  approval (`Owned`); what is read from it is the operator's answer (`Truthful`); what
  the gates asked for is granted except what the caller still waits for (`NeedsMet`).
  TLC checked it as an invariant of `pc_ends`' instance first.
* `ProtectedCallProofs!ReservationSafe`: `RunsOnOpenReservation`, assuming `ScopedEnv` (no
  chains, no calls outside a workflow, and no budget gate that fails open before it captures), and `CompletedSafe`: `CompletedNeverCancelled`,
  assuming `CalmEnv` (besides, no kill and no failure before a call has its own answer).
  Section 3 shows what each excluded kind breaks. Both follow the execution id from the answer
  of the gate through the context variable to the cleanup that cancels it.
* `ProtectedCallProofs!GrantSafe`: `GrantClosed`, assuming that no request is lost
  ("unreachable" not in the environment). The invariant says that a waiter's entry and the reverse
  index agree (`Bindings`), that the exception path finds the approval of a call that is
  being closed (`Findable`), and that a grant which woke its waiter is consumed by the steps
  the caller has left (`WokenClosing`).
* `GateRequestProofs!RefusalSafe` and `FailClosedSafe`: `RefusalIsFinal` and `FailClosed` for
  every configuration, every set of codes and answers, and any number of retries and calls. `GateInv` follows
  what was said through the places of a call: a refusal of `/gate` never gets as far as
  `/execute` (`Unasked`), since it stays in the answer that `check_workflow_budget` reads
  (`GateRead`); what `/execute` said is the answer, or the SDK made up a block, or an allow
  that is marked as a fallback and that nobody had refused (`ExecuteRead`); and the tool gate
  takes no refusal for an outage but those in `Overlooked`, and passes those over only under the
  opt-out (`ToolGate`). That rests on the catalogue: none of its classes is untyped
  (`ClassTyped`), and a block without a code is raised as one (`BareBlock`).
* `GateRequestProofs!TypeCorrect`, with the bound on the attempts of a request;
  `DenialSafe`: `OnlyDenialsReachModel`; `OperationSafe`: `OneOperationPerCall`. No assumption
  on the environment or the configuration. The second needs that an exception handed on is the one made
  from the answer in hand, the third that ids only grow and that every request so far carries
  the id of its own call.
* `LlmCallProofs!TypeCorrect`, `ReservationSafe` (`ReservationClosed`), `UsageSafe`
  (`UsageAccounted`) and `BookedSafe` (`UsageBookedOnce`), for any number of tasks, threads,
  calls and reservations, any size of the two tables and every environment. Their exceptions
  are in the properties themselves. `LlmInv` follows each call on its own, as a predicate of
  its record, its place, its queue of reports and the set of fingerprints in the list
  (`Followed`): what of it may still be queued at each place (`Placed`, `Queued`), that its
  reservation is still to be settled, settled or lost (`Reserved`), that its usage is still
  queued, booked or lost (`Accounted`), and that while its fingerprint is in the list a second report is dropped, and
  once booked it was in the list (`Booked`). The fingerprints of different calls differ
  (`Distinct`), so that a step of one call leaves what is said of the others.
* `ControlPlaneProofs!TypeCorrect`, with `Foreseen`: no push names a version the server
  does not have. `CurrentSafe`: `QuietMeansCurrent`, and `ForwardSafe`:
  the action property `NeverStepsBack`, both without an assumption on the environment. What
  could go wrong is that a reconnect clears `_last_version`, after which an old push would be
  applied, and that an answer to `GET /status` is written late. `Abreast` says why no old push
  is applied: `_last_version` has caught up with the cache, or the next message is the server's
  whole view or `resync_required`, or no message verifies any more, since the server never goes
  back to an earlier secret (`SignedAfter`). `Faithful` says that, where nothing
  crossed, an answer in hand and the cached entry are of the last version pushed or a later
  one, and `Pending` that the server's view was pushed last or is still on the wire.

Every invariant and action property of the passing runs is stated by a theorem. Only
model-checked: the liveness properties (`EventuallySettled`, `Recovers`, `CallEnds`,
`CatchesUp`, `AppendEnds`), which need fairness and `ENABLED`; and `NoSilentLoss` across `stop`
and bisection (`settles`), which `CrashSafe` excludes.

## 5. Plan

Done: EventDelivery with its contract EventFate, DeadLetters, CircuitBreaker,
ProtectedCall, GateRequest, LlmCall, ControlPlane. What is left, in this order:

1. Proofs: `NoSilentLoss` with bisection and `stop` but without crashes, for which the hands of
   the flush in `ResendInv` are the place to start; what holds of the half-open window when
   several workers share it.
2. A second process on the recovery files of one WAL path (`transport.py:1739`).
3. The webhook queue, and `shutdown` with its order of components.

## 6. Not modelled

Several processes that replay and overwrite the same `<wal>` and `.inflight`:
`docs/wal-and-dlq.md` recommends a path for each process, and the models show one process
there, besides a lock held by another. Webhooks, capability probing and process-wide
initialisation, which no decision about a call or an event reads. The parsers of provider
responses beyond whether they find usage, span events, audit and impact encodings, observability counters,
the FastAPI adapter and wording have no protocol state. The iteration over the gate cache
without a lock (`runtime.py:203`) depends on the interpreter. Jitter and backoff lengths, logging and
metrics are left out except where a counter is the SDK's admission of a loss (`conceded`).
How signatures are computed and TLS are outside the models. A platform without `fcntl`, and a lock file
that cannot be opened (`transport.py:1438-1449`, where `_wal_file_lock` goes on unlocked), are
outside `DeadLetters`: there the WAL lock excludes nobody.
