--------------------------- MODULE EventDelivery ---------------------------
(***************************************************************************)
(* How an event handed to Transport.track() reaches the backend, the       *)
(* dead-letter queue, or a file that the next start() replays              *)
(* (src/src/nullrun/transport.py).                                         *)
(*                                                                         *)
(* Everything a flush does runs under Transport._lock, so what interleaves *)
(* with it is the death of the process and the steps of stop(), which      *)
(* persist the buffer without taking the lock.  Every action below makes   *)
(* at most one durable change (one file, or the backend), so a Crash       *)
(* between two actions is a crash between two system calls of the code.    *)
(*                                                                         *)
(* Batches, files and the in-memory lists are sets of event ids: the       *)
(* backend deduplicates on event_id, and no property is about order.  A    *)
(* positional choice of the code (which half of a batch, which events are  *)
(* newest) is a nondeterministic one here.                                 *)
(***************************************************************************)
EXTENDS Integers, FiniteSets, Sequences

CONSTANTS
  Events,        \* ids of the events the application tracks
  Critical,      \* those whose type is in _CRITICAL_EVENT_TYPES
  Env,           \* which of EnvKinds the environment does
  Lasting,       \* those that may happen any number of times
  MaxFaults,     \* bound: how many other faults one behaviour has
  BatchSize,     \* FlushConfig.batch_size
  MaxBuffer,     \* FlushConfig.max_buffer_size
  MaxAttempts,   \* _max_batch_attempts
  MaxTracked,    \* _MAX_TRACKED_BATCHES
  MaxDepth,      \* _MAX_BISECT_DEPTH
  BisectBudget,  \* NULLRUN_MAX_BISECT_REQUESTS
  DlqCap,        \* _dlq_max_bytes, in rows
  HoldCap,       \* _holdover_index_max
  WalMax         \* _wal_max_bytes, in events

(***************************************************************************)
(* The answers of POST /track/batch other than "everything accepted", and  *)
(* what may go wrong locally.                                              *)
(***************************************************************************)
Answers ==
  { "unreachable",   \* breaker open, network error, 5xx or 429 until retries ran out
    "unauthorized",  \* 401: NullRunAuthError from _retry_with_backoff
    "forbidden",     \* 403
    "timeout",       \* 408
    "rejected",      \* any other 4xx: 400, 404, 413, 422
    "refused",       \* a code of _DETERMINISTIC_ERROR_CODES
    "overrun",       \* CONSUME_OVERBUDGET with reservation_recorded = true
    "unconfirmed",   \* a 2xx whose body does not name accepted_event_ids
    "partial",       \* a 2xx that gives a known reason for every event it refuses
    "unknown" }      \* a 2xx that leaves an event out, or gives an unknown reason

EnvKinds ==
  Answers \cup
  { "disk",          \* _write_events_atomic returns False, os.remove fails
    "lock",          \* replay does not get the WAL lock
    "outage",        \* faults also strike while start() replays
    "halves",        \* a 2xx for a half of a bisected batch may refuse events
    "crash",         \* the process dies
    "stop",          \* the application calls stop()
    "late" }         \* an application thread calls track() during stop()

ASSUME EventsFinite == IsFiniteSet(Events)
ASSUME CriticalEvents == Critical \subseteq Events
ASSUME KnownEnv == Env \subseteq EnvKinds /\ Lasting \subseteq Env
ASSUME Bounds ==
  /\ {MaxFaults, MaxAttempts, MaxDepth, BisectBudget, DlqCap} \subseteq Nat
  /\ {BatchSize, MaxBuffer, MaxTracked, HoldCap, WalMax} \subseteq Nat \ {0}

VARIABLES
  (* durable: what a crash leaves *)
  wal,        \* events in <wal>
  wal1,       \* events in <wal>.1
  inflight,   \* events in <wal>.inflight
  dlq,        \* events with a row in <wal>.dlq
  dlqRows,    \* number of rows in <wal>.dlq, what the size cap counts
  holdover,   \* events with a row in <wal>.holdover
  accepted,   \* events the backend has recorded
  (* memory of the process *)
  buffer,     \* _buffer
  overflow,   \* _dlq_overflow
  attempts,   \* _batch_attempts, by failure signature (the set of ids)
  ctl,        \* where start() or stop() is
  found,      \* files start() read and will remove
  pc,         \* where the flush that holds _lock is
  cur,        \* the batch or half being sent
  depth,      \* _bisect_depth
  budget,     \* _bisect_budget
  stack,      \* halves still to be attempted, innermost first
  settle,     \* what a 2xx left to do, see _settle_batch_outcome
  rows,       \* events on their way to the DLQ
  after,      \* where the flush goes on when rows are parked
  (* history, for the properties and the bounds *)
  owed,       \* events the SDK has promised to deliver or to park
  journaled,  \* events that have been in a file
  conceded,   \* losses the SDK counts in a metric
  blamed,     \* events that the answer being handled refuses for good
  faults      \* faults so far

disk    == <<wal, wal1, inflight, dlq, dlqRows, holdover>>
life    == <<ctl, found>>
flush   == <<pc, cur, depth, budget, stack, settle, rows, after>>
history == <<owed, journaled, conceded>>
vars    == <<disk, accepted, buffer, overflow, attempts, life, flush, history, blamed, faults>>

(* What _settle_batch_outcome has collected: the refusals still to be      *)
(* written, by what becomes of them, and still_live                        *)
Settlement == [terminal : SUBSET Events, retry : SUBSET Events,
               unknown : SUBSET Events, live : BOOLEAN]

NoSettle == [terminal |-> {}, retry |-> {}, unknown |-> {}, live |-> FALSE]

Half == [evs : SUBSET Events, depth : Nat]

StackEvents == UNION {stack[i].evs : i \in DOMAIN stack}

(* Within the bound, a fault of kind k happens in this step / none does.   *)
Fault(k) ==
  /\ k \in Env
  /\ ctl = "replayFlush" => "outage" \in Env
  /\ depth > 0 /\ k \in {"unconfirmed", "partial", "unknown"} => "halves" \in Env
  /\ IF k \in Lasting THEN UNCHANGED faults
     ELSE faults < MaxFaults /\ faults' = faults + 1
NoFault  == UNCHANGED faults

----------------------------------------------------------------------------
(* Parking: _write_dlq_rows, _hold_for_dlq, _trim_holdover_index           *)

(* _dlq_over_cap is false for the rows of s *)
DlqFits(s) == dlqRows < DlqCap /\ dlqRows + Cardinality(s) <= DlqCap

(* _write_events_atomic(dlq, rows, mode="a") succeeds *)
WriteDlq(s) ==
  /\ DlqFits(s)
  /\ dlq' = dlq \cup s
  /\ dlqRows' = dlqRows + Cardinality(s)
  /\ journaled' = journaled \cup s
  /\ NoFault
  /\ UNCHANGED <<holdover, overflow, conceded>>

(* the in-memory index keeps at most HoldCap of s *)
Trimmed(s) ==
  IF Cardinality(s) <= HoldCap THEN {s}
  ELSE {t \in SUBSET s : Cardinality(t) = HoldCap}

(* Mutant of HoldForDlq: _persist_holdover is not called. *)
MutHoldForDlq(s) ==
  /\ overflow' \in Trimmed(overflow \cup s)
  /\ \/ ~DlqFits(s) /\ NoFault
     \/ DlqFits(s) /\ Fault("disk")
  /\ UNCHANGED <<dlq, dlqRows, holdover, journaled, conceded>>

(* The DLQ did not take s, because of its cap (why = "full") or because    *)
(* the write failed: append s to the holdover file and index it.  When     *)
(* that append fails too, dlq_holdover_persist_failures counts s.          *)
HoldForDlq(s) ==
  /\ UNCHANGED <<dlq, dlqRows>>
  /\ overflow' \in Trimmed(overflow \cup s)
  /\ \/ /\ \/ ~DlqFits(s) /\ NoFault
           \/ DlqFits(s) /\ Fault("disk")
        /\ holdover' = holdover \cup s
        /\ journaled' = journaled \cup s
        /\ UNCHANGED conceded
     \/ /\ Fault("disk")
        /\ conceded' = conceded \cup s
        /\ UNCHANGED <<holdover, journaled>>

----------------------------------------------------------------------------
(* The bounded retry: _retry_or_dlq                                        *)

(* _batch_attempts with one more attempt of b, forgotten when too many     *)
(* signatures are tracked                                                  *)
Bumped(b) ==
  LET tracked == {s \in SUBSET Events : attempts[s] > 0}
      base == IF Cardinality(tracked) >= MaxTracked
              THEN [s \in SUBSET Events |-> 0] ELSE attempts
  IN  [base EXCEPT ![b] = attempts[b] + 1]

Exhausted(b) == attempts[b] + 1 > MaxAttempts

Forget(b) == attempts' = [attempts EXCEPT ![b] = 0]

(* Re-queue b and go on at `requeued`, or quarantine it once its budget is *)
(* spent and go on at `parked`                                             *)
RetryOrDlq(b, deadLetter, requeued, parked) ==
  /\ attempts' = Bumped(b)
  /\ IF deadLetter /\ Exhausted(b)
     THEN /\ rows' = b /\ after' = parked /\ pc' = "quarantine"
          /\ UNCHANGED buffer
     ELSE /\ buffer' = buffer \cup b /\ pc' = requeued
          /\ UNCHANGED <<rows, after>>

----------------------------------------------------------------------------
(* _do_flush_locked, up to the send                                        *)

(* Take the lock and start a flush: the flush loop's tick, flush_now(), or *)
(* the inline flush of a track() that filled the batch.                    *)
BeginFlush == pc = "idle" /\ pc' = "drain"

(* _drain_dlq_overflow: one write for everything that is held *)
DrainDlqOverflow ==
  /\ pc = "drain"
  /\ \/ /\ overflow # {}
        /\ DlqFits(overflow)
        /\ dlq' = dlq \cup overflow
        /\ dlqRows' = dlqRows + Cardinality(overflow)
        /\ rows' = overflow
        /\ overflow' = {}
        /\ pc' = "release"
        /\ NoFault
     \/ /\ \/ (overflow = {} \/ ~DlqFits(overflow)) /\ NoFault
           \/ overflow # {} /\ DlqFits(overflow) /\ Fault("disk")
        /\ pc' = "take"
        /\ UNCHANGED <<dlq, dlqRows, rows, overflow>>
  /\ UNCHANGED <<wal, wal1, inflight, holdover, accepted, buffer, attempts, life,
                 cur, depth, budget, stack, settle, after, history, blamed>>

(* Mutant of ReleaseHoldover: what .inflight covers is not held either. *)
MutReleaseHoldover ==
  /\ pc = "release"
  /\ holdover' = holdover \ (rows \cup inflight)
  /\ NoFault
  /\ rows' = {}
  /\ pc' = "take"
  /\ UNCHANGED <<wal, wal1, inflight, dlq, dlqRows, accepted, buffer, overflow,
                 attempts, life, cur, depth, budget, stack, settle, after, history, blamed>>

(* _release_holdover: the file without the rows that reached the DLQ *)
ReleaseHoldover ==
  /\ pc = "release"
  /\ \/ holdover' = holdover \ rows /\ NoFault
     \/ UNCHANGED holdover /\ Fault("disk")
  /\ rows' = {}
  /\ pc' = "take"
  /\ UNCHANGED <<wal, wal1, inflight, dlq, dlqRows, accepted, buffer, overflow,
                 attempts, life, cur, depth, budget, stack, settle, after, history, blamed>>

(* The lock is released; whoever asked for the flush goes on. *)
FlushReturn ==
  /\ pc' = "idle"
  /\ cur' = {}
  /\ ctl' = CASE ctl = "replayFlush" -> "replayPersist"
              [] ctl = "stopFlush"   -> "stopPersist"
              [] OTHER -> ctl

TakeBatch ==
  /\ pc = "take"
  /\ IF buffer = {}
     THEN FlushReturn /\ UNCHANGED <<buffer, budget, depth>>
     ELSE /\ cur' = buffer
          /\ buffer' = {}
          /\ budget' = BisectBudget
          /\ depth' = 0
          /\ pc' = "journal"
          /\ UNCHANGED ctl
  /\ NoFault
  /\ UNCHANGED <<disk, accepted, overflow, attempts, found, stack, settle, rows,
                 after, history, blamed>>

(* _persist_inflight: the durability barrier before the send *)
PersistInflight ==
  /\ pc = "journal"
  /\ \/ inflight' = cur /\ journaled' = journaled \cup cur /\ NoFault
     \/ UNCHANGED <<inflight, journaled>> /\ Fault("disk")
  /\ pc' = "send"
  /\ UNCHANGED <<wal, wal1, dlq, dlqRows, holdover, accepted, buffer, overflow,
                 attempts, life, cur, depth, budget, stack, settle, rows, after,
                 owed, conceded, blamed>>

----------------------------------------------------------------------------
(* The send and what each answer leads to.  cur is the whole batch at      *)
(* depth 0 (_do_flush_locked) and a half below it (_attempt_half).         *)

sendUnchanged == <<disk, overflow, life, history>>

(* Mutant of DropNewest: the buffer grows instead. *)
MutDropNewest(b, space) == {b}

(* _drop_newest_with_priority: what is left of a batch that does not fit   *)
(* back into the buffer; critical events are never dropped                 *)
DropNewest(b, space) ==
  LET over == Cardinality(b) - space
      loose == b \ Critical
  IN  IF space >= Cardinality(b) THEN {b}
      ELSE {b \ d : d \in {x \in SUBSET loose :
               Cardinality(x) = IF over < Cardinality(loose)
                                THEN over ELSE Cardinality(loose)}}

(* BreakerTransportError: the breaker refused the call, or no usable       *)
(* answer came back after the retries; the backend may have recorded any   *)
(* of the events.                                                          *)
SendUnreachable ==
  /\ pc = "send" /\ Fault("unreachable") /\ blamed' = {}
  /\ \E s \in SUBSET cur : accepted' = accepted \cup s
  /\ \E kept \in IF depth = 0 THEN DropNewest(cur, MaxBuffer - Cardinality(buffer))
                 ELSE {cur} :
       /\ buffer' = buffer \cup kept
       /\ conceded' = conceded \cup (cur \ kept)
  /\ pc' = "next"
  /\ UNCHANGED <<disk, overflow, attempts, life, cur, depth, budget, stack, settle,
                 rows, after, owed, journaled>>

(* 403: _requeue_at_head, without an attempt being counted *)
SendForbidden ==
  /\ pc = "send" /\ Fault("forbidden") /\ blamed' = {}
  /\ buffer' = buffer \cup cur
  /\ pc' = "next"
  /\ UNCHANGED <<sendUnchanged, accepted, attempts, cur, depth, budget, stack,
                 settle, rows, after>>

(* 401: _retry_with_backoff turns the status into NullRunAuthError, which  *)
(* is not an HTTPStatusError, so _route_deferred retries it with a budget. *)
SendUnauthorized ==
  /\ pc = "send" /\ Fault("unauthorized") /\ blamed' = {}
  /\ RetryOrDlq(cur, TRUE, "next", "next")
  /\ UNCHANGED <<sendUnchanged, accepted, cur, depth, budget, stack, settle>>

(* Mutant of SendTimeout: dead_letter is not set to False. *)
MutSendTimeout ==
  /\ pc = "send" /\ Fault("timeout") /\ blamed' = {}
  /\ RetryOrDlq(cur, TRUE, "next", "next")
  /\ UNCHANGED <<sendUnchanged, accepted, cur, depth, budget, stack, settle>>

(* 408: re-queued whatever the number of attempts *)
SendTimeout ==
  /\ pc = "send" /\ Fault("timeout") /\ blamed' = {}
  /\ RetryOrDlq(cur, FALSE, "next", "next")
  /\ UNCHANGED <<sendUnchanged, accepted, cur, depth, budget, stack, settle>>

(* _quarantine_to_dlq(cur) *)
Park ==
  /\ rows' = cur /\ after' = "next" /\ pc' = "quarantine"
  /\ UNCHANGED <<cur, depth, stack>>

(* Mutant of SendSubbatches: _bisect_request_available is not asked. *)
MutSendSubbatches(d, b) ==
  IF d >= MaxDepth
  THEN Park /\ budget' = b
  ELSE \E left \in SUBSET cur :
         /\ Cardinality(left) = Cardinality(cur) \div 2
         /\ cur' = left
         /\ stack' = <<[evs |-> cur \ left, depth |-> d + 1]>> \o stack
         /\ depth' = d + 1
         /\ budget' = b - 2
         /\ UNCHANGED <<pc, rows, after>>

(* _send_subbatches at bisect depth d with b requests left: attempt the    *)
(* left half now and keep the right one for later.                         *)
SendSubbatches(d, b) ==
  IF d >= MaxDepth \/ b < 2
  THEN Park /\ budget' = b
  ELSE \E left \in SUBSET cur :
         /\ Cardinality(left) = Cardinality(cur) \div 2
         /\ cur' = left
         /\ stack' = <<[evs |-> cur \ left, depth |-> d + 1]>> \o stack
         /\ depth' = d + 1
         /\ budget' = b - 2
         /\ UNCHANGED <<pc, rows, after>>

(* 400, 404, 413, 422: _handle_http_rejection *)
SendRejected ==
  /\ pc = "send" /\ Fault("rejected") /\ blamed' = cur
  /\ IF Cardinality(cur) > 1 THEN SendSubbatches(depth, budget)
     ELSE Park /\ UNCHANGED budget
  /\ UNCHANGED <<sendUnchanged, accepted, buffer, attempts, settle>>

(* DeterministicBackendRefusal: _route_deferred bisects too, and counts    *)
(* the level and the two requests a second time in _send_subbatches.       *)
SendRefused ==
  /\ pc = "send" /\ Fault("refused") /\ blamed' = cur
  /\ IF Cardinality(cur) > 1 /\ depth < MaxDepth /\ budget >= 2
     THEN SendSubbatches(depth + 1, budget - 2)
     ELSE Park /\ UNCHANGED budget
  /\ UNCHANGED <<sendUnchanged, accepted, buffer, attempts, settle>>

(* _deliver_recorded_overbudget: the offender e is already recorded, the   *)
(* rest of the aborted batch is owed again.                                *)
SendOverrun ==
  /\ pc = "send" /\ Fault("overrun") /\ blamed' = {}
  /\ \E e \in cur : /\ accepted' = accepted \cup {e}
                    /\ buffer' = buffer \cup (cur \ {e})
  /\ pc' = "next"
  /\ UNCHANGED <<sendUnchanged, attempts, cur, depth, budget, stack, settle, rows, after>>

(* Mutant of SendUnconfirmed: the attempt counter is popped on every cycle. *)
MutSendUnconfirmed ==
  /\ pc = "send" /\ Fault("unconfirmed") /\ blamed' = cur
  /\ \E s \in SUBSET cur : accepted' = accepted \cup s
  /\ Forget(cur) /\ buffer' = buffer \cup cur /\ pc' = "next"
  /\ UNCHANGED <<sendUnchanged, rows, after, cur, depth, budget, stack, settle>>

(* A 2xx without a readable confirmation: a bounded retry for a whole      *)
(* batch, while _attempt_half takes any 2xx for success.                   *)
SendUnconfirmed ==
  /\ pc = "send" /\ Fault("unconfirmed") /\ blamed' = cur
  /\ \E s \in SUBSET cur : accepted' = accepted \cup s
  /\ IF depth = 0
     THEN RetryOrDlq(cur, TRUE, "next", "settle")
     ELSE Forget(cur) /\ pc' = "next" /\ UNCHANGED <<buffer, rows, after>>
  /\ UNCHANGED <<sendUnchanged, cur, depth, budget, stack, settle>>

(* What _attempt_half does with a 2xx: nothing but forget the attempts. *)
HalfAnswered(t, r, u) ==
  /\ Forget(cur)
  /\ pc' = "next"
  /\ UNCHANGED <<buffer, settle>>

(* A readable 2xx.  The events that are not accepted are split by their    *)
(* rejection_details: a terminal reason (t), a retry_after_ms (r), or any  *)
(* other or no detail (u).                                                 *)
SendAnswered ==
  /\ pc = "send"
  /\ \E acc \in SUBSET cur : \E t \in SUBSET (cur \ acc) :
     \E r \in SUBSET (cur \ (acc \cup t)) :
       LET u == cur \ (acc \cup t \cup r) IN
       /\ \/ acc = cur /\ NoFault
          \/ acc # cur /\ u = {} /\ Fault("partial")
          \/ u # {} /\ (t \cup r = {} \/ "partial" \in Env) /\ Fault("unknown")
       /\ accepted' = accepted \cup acc
       /\ blamed' = t \cup u
       /\ IF depth = 0
          THEN /\ settle' = [terminal |-> t, retry |-> r, unknown |-> u, live |-> FALSE]
               /\ pc' = "settle"
               /\ UNCHANGED <<buffer, attempts>>
          ELSE HalfAnswered(t, r, u)
  /\ UNCHANGED <<sendUnchanged, cur, depth, budget, stack, rows, after>>

----------------------------------------------------------------------------
(* _settle_batch_outcome, one event at a time                              *)

(* A terminal reason: _dead_letter_row.  Held rows leave the batch live.   *)
SettleTerminal ==
  /\ pc = "settle"
  /\ \E e \in settle.terminal :
       \/ /\ WriteDlq({e})
          /\ settle' = [settle EXCEPT !.terminal = @ \ {e}]
       \/ /\ HoldForDlq({e})
          /\ settle' = [settle EXCEPT !.terminal = @ \ {e}, !.live = TRUE]
  /\ UNCHANGED <<wal, wal1, inflight, accepted, buffer, attempts, life, pc, cur,
                 depth, budget, stack, rows, after, owed, blamed>>

(* An unknown reason, or no detail: the event alone gets a bounded retry. *)
SettleUnknown ==
  /\ pc = "settle" /\ settle.terminal = {}
  /\ \E e \in settle.unknown :
       /\ RetryOrDlq({e}, TRUE, "settle", "settle")
       /\ settle' = [settle EXCEPT !.unknown = @ \ {e},
                                   !.live = @ \/ ~Exhausted({e})]
  /\ NoFault
  /\ UNCHANGED <<disk, accepted, overflow, life, cur, depth, budget, stack, history, blamed>>

(* Mutant of SettleEnd: what has a retry hint is not re-queued. *)
MutSettleEnd ==
  /\ pc = "settle" /\ settle.terminal = {} /\ settle.unknown = {}
  /\ Forget(cur) /\ inflight' = {} /\ NoFault
  /\ settle' = NoSettle
  /\ pc' = "next"
  /\ UNCHANGED <<wal, wal1, dlq, dlqRows, holdover, accepted, buffer, overflow, life,
                 cur, depth, budget, stack, rows, after, history, blamed>>

(* Re-queue what has a retry hint; .inflight goes only when nothing of the *)
(* batch is still live.                                                    *)
SettleEnd ==
  /\ pc = "settle" /\ settle.terminal = {} /\ settle.unknown = {}
  /\ buffer' = buffer \cup settle.retry
  /\ IF settle.live \/ settle.retry # {}
     THEN UNCHANGED <<inflight, attempts>> /\ NoFault
     ELSE /\ Forget(cur)
          /\ \/ inflight' = {} /\ NoFault
             \/ UNCHANGED inflight /\ Fault("disk")
  /\ settle' = NoSettle
  /\ pc' = "next"
  /\ UNCHANGED <<wal, wal1, dlq, dlqRows, holdover, accepted, overflow, life, cur,
                 depth, budget, stack, rows, after, history, blamed>>

(* _quarantine_to_dlq *)
Quarantine ==
  /\ pc = "quarantine"
  /\ \/ WriteDlq(rows) /\ pc' = "unjournal" /\ UNCHANGED rows
     \/ HoldForDlq(rows) /\ pc' = after /\ rows' = {}
  /\ UNCHANGED <<wal, wal1, inflight, accepted, buffer, attempts, life, cur, depth,
                 budget, stack, settle, after, owed, blamed>>

(* ... whose _clear_inflight follows the DLQ write *)
QuarantineClear ==
  /\ pc = "unjournal"
  /\ \/ inflight' = {} /\ NoFault
     \/ UNCHANGED inflight /\ Fault("disk")
  /\ rows' = {}
  /\ pc' = after
  /\ UNCHANGED <<wal, wal1, dlq, dlqRows, holdover, accepted, buffer, overflow,
                 attempts, life, cur, depth, budget, stack, settle, after, history, blamed>>

(* Mutant of NextHalf: the second half is never attempted. *)
MutNextHalf ==
  /\ pc = "next"
  /\ FlushReturn /\ stack' = <<>>
  /\ blamed' = {}
  /\ NoFault
  /\ UNCHANGED <<disk, accepted, buffer, overflow, attempts, found, depth, budget, settle,
                 rows, after, history>>

(* The loop over the halves, and the end of the flush *)
NextHalf ==
  /\ pc = "next"
  /\ IF stack = <<>>
     THEN FlushReturn /\ UNCHANGED <<depth, stack>>
     ELSE /\ cur' = Head(stack).evs
          /\ depth' = Head(stack).depth
          /\ stack' = Tail(stack)
          /\ pc' = "send"
          /\ UNCHANGED ctl
  /\ blamed' = {}
  /\ NoFault
  /\ UNCHANGED <<disk, accepted, buffer, overflow, attempts, found, budget, settle,
                 rows, after, history>>

----------------------------------------------------------------------------
(* The application's calls                                                 *)

(* Where stop() is, once called *)
Stopping == {"stopJoin", "stopPersist", "stopWrite", "stopTrunc", "stopClear"}

(* track(): append, and flush inline when the batch is full.  Nothing      *)
(* stops an application thread from calling it while stop() runs.          *)
Track(e) ==
  /\ ctl = "running" \/ (ctl \in Stopping /\ "late" \in Env)
  /\ pc = "idle"
  /\ e \notin owed \cup journaled \cup accepted
  /\ owed' = owed \cup {e}
  /\ buffer' = buffer \cup {e}
  /\ pc' = IF Cardinality(buffer') >= BatchSize THEN "drain" ELSE "idle"
  /\ NoFault
  /\ UNCHANGED <<disk, accepted, overflow, attempts, life, cur, depth, budget, stack,
                 settle, rows, after, journaled, conceded, blamed>>

(* The flush loop wakes up, or the application calls flush_now(). *)
Tick ==
  /\ ctl = "running"
  /\ BeginFlush
  /\ NoFault
  /\ UNCHANGED <<disk, accepted, buffer, overflow, attempts, life, cur, depth, budget,
                 stack, settle, rows, after, history, blamed>>

----------------------------------------------------------------------------
(* start(): _replay_from_wal, then _recover_holdover                       *)

memory == <<buffer, overflow, attempts, flush>>

(* Read the recovery files under the WAL lock and flush what they hold.    *)
Start ==
  /\ ctl = "down"
  /\ \/ /\ found' = {f \in {"wal", "wal1", "inflight"} :
                       {} # CASE f = "wal" -> wal [] f = "wal1" -> wal1
                              [] f = "inflight" -> inflight}
        /\ buffer' = wal1 \cup wal \cup inflight
        /\ IF buffer' = {} THEN ctl' = "recover" /\ UNCHANGED pc
           ELSE ctl' = "replayFlush" /\ pc' = "drain"
        /\ NoFault
     \/ /\ Fault("lock")
        /\ ctl' = "recover"
        /\ UNCHANGED <<found, buffer, pc>>
  /\ UNCHANGED <<disk, accepted, overflow, attempts, cur, depth, budget, stack, settle,
                 rows, after, history, blamed>>

(* _rotate_wal_if_needed *)
RotateWal ==
  /\ Cardinality(wal) >= WalMax
  /\ wal1' = wal
  /\ wal' = {}

(* _persist_to_wal, first half: nothing to write, or rotate first. *)
PersistBegin(write, done) ==
  /\ IF buffer = {} THEN ctl' = done /\ UNCHANGED <<wal, wal1>>
     ELSE /\ ctl' = write
          /\ RotateWal \/ (Cardinality(wal) < WalMax /\ UNCHANGED <<wal, wal1>>)
  /\ NoFault
  /\ UNCHANGED <<inflight, dlq, dlqRows, holdover, accepted, memory, found, history, blamed>>

(* ... second half: the buffer replaces the contents of <wal>. *)
WriteWal ==
  /\ wal' = buffer
  /\ journaled' = journaled \cup buffer
  /\ NoFault

ReplayPersist ==
  /\ ctl = "replayPersist"
  /\ PersistBegin("replayWrite", "replayRemove")

(* Mutant of ReplayWrite: the fresh <wal> is removed with the old sources. *)
MutReplayWrite ==
  /\ ctl = "replayWrite"
  /\ WriteWal
  /\ buffer' = {}
  /\ ctl' = "replayRemove"
  /\ UNCHANGED <<wal1, inflight, dlq, dlqRows, holdover, accepted, overflow, attempts,
                 found, flush, owed, conceded, blamed>>

(* What the replay could not deliver goes back to <wal>, which is then no  *)
(* longer one of the files to remove.  If the write fails every source     *)
(* file stays, and so does the buffer.                                     *)
ReplayWrite ==
  /\ ctl = "replayWrite"
  /\ \/ /\ WriteWal
        /\ buffer' = {}
        /\ found' = found \ {"wal"}
        /\ ctl' = "replayRemove"
     \/ /\ Fault("disk")
        /\ found' = {}
        /\ ctl' = "recover"
        /\ UNCHANGED <<wal, journaled, buffer>>
  /\ UNCHANGED <<wal1, inflight, dlq, dlqRows, holdover, accepted, overflow, attempts,
                 flush, owed, conceded, blamed>>

(* Remove the files that were read, in the order they were read. *)
ReplayRemove ==
  /\ ctl = "replayRemove"
  /\ IF found = {} THEN ctl' = "recover" /\ NoFault /\ UNCHANGED <<found, wal, wal1, inflight>>
     ELSE /\ \E f \in found :
               /\ f = "wal" => "wal1" \notin found
               /\ f = "inflight" => found = {"inflight"}
               /\ found' = found \ {f}
               /\ \/ /\ wal1' = IF f = "wal1" THEN {} ELSE wal1
                     /\ wal' = IF f = "wal" THEN {} ELSE wal
                     /\ inflight' = IF f = "inflight" THEN {} ELSE inflight
                     /\ NoFault
                  \/ Fault("disk") /\ UNCHANGED <<wal, wal1, inflight>>
          /\ UNCHANGED ctl
  /\ UNCHANGED <<dlq, dlqRows, holdover, accepted, memory, history, blamed>>

(* Mutant of RecoverHoldover: the held refusals are replayed. *)
MutRecoverHoldover ==
  /\ ctl = "recover"
  /\ buffer' = buffer \cup holdover
  /\ ctl' = "running"
  /\ NoFault
  /\ UNCHANGED <<disk, accepted, overflow, attempts, found, flush, history, blamed>>

(* _recover_holdover: the rows come back as a hold, not as a replay. *)
RecoverHoldover ==
  /\ ctl = "recover"
  /\ overflow' \in Trimmed(overflow \cup holdover)
  /\ ctl' = "running"
  /\ NoFault
  /\ UNCHANGED <<disk, accepted, buffer, attempts, found, flush, history, blamed>>

----------------------------------------------------------------------------
(* stop() and the end of the process                                       *)

StopCall ==
  /\ ctl = "running" /\ Fault("stop")
  /\ ctl' = "stopJoin"
  /\ UNCHANGED <<disk, accepted, memory, found, history, blamed>>

(* The flush thread has been joined: _do_flush once more. *)
StopFlush ==
  /\ ctl = "stopJoin"
  /\ BeginFlush
  /\ ctl' = "stopFlush"
  /\ NoFault
  /\ UNCHANGED <<disk, accepted, buffer, overflow, attempts, found, cur, depth, budget,
                 stack, settle, rows, after, history, blamed>>

(* _persist_to_wal again, this time without _lock *)
StopPersist ==
  /\ ctl = "stopPersist"
  /\ PersistBegin("stopWrite", "stopClear")

(* Without the write, <wal>.inflight stays. *)
StopWrite ==
  /\ ctl = "stopWrite"
  /\ \/ WriteWal /\ ctl' = "stopTrunc"
     \/ Fault("disk") /\ ctl' = "stopDone" /\ UNCHANGED <<wal, journaled>>
  /\ UNCHANGED <<wal1, inflight, dlq, dlqRows, holdover, accepted, memory, found,
                 owed, conceded, blamed>>

(* _buffer.clear() at the end of _persist_to_wal *)
StopTruncate ==
  /\ ctl = "stopTrunc"
  /\ buffer' = {}
  /\ ctl' = "stopClear"
  /\ NoFault
  /\ UNCHANGED <<disk, accepted, overflow, attempts, found, flush, history, blamed>>

(* _clear_inflight, because the buffer is durably in <wal> *)
StopClear ==
  /\ ctl = "stopClear"
  /\ \/ inflight' = {} /\ NoFault
     \/ UNCHANGED inflight /\ Fault("disk")
  /\ ctl' = "stopDone"
  /\ UNCHANGED <<wal, wal1, dlq, dlqRows, holdover, accepted, memory, found, history, blamed>>

(* Events in the hands of the flush that holds the lock *)
Working ==
  (IF pc \in {"journal", "send"} THEN cur ELSE {}) \cup rows \cup StackEvents
    \cup settle.terminal \cup settle.retry \cup settle.unknown

(* The process is gone.  No promise was made for an event that was only    *)
(* ever in its memory.                                                     *)
Die ==
  /\ ctl' = "down"
  /\ found' = {}
  /\ buffer' = {}
  /\ overflow' = {}
  /\ attempts' = [s \in SUBSET Events |-> 0]
  /\ pc' = "idle" /\ cur' = {} /\ depth' = 0 /\ budget' = 0 /\ stack' = <<>>
  /\ settle' = NoSettle /\ rows' = {} /\ after' = "next"
  /\ owed' = owed \ ((buffer \cup Working) \ journaled)
  /\ blamed' = {}
  /\ UNCHANGED <<disk, accepted, journaled, conceded>>

Exit  == ctl = "stopDone" /\ Die /\ NoFault

Crash == ctl # "down" /\ Fault("crash") /\ Die

----------------------------------------------------------------------------

Init ==
  /\ wal = {} /\ wal1 = {} /\ inflight = {} /\ dlq = {} /\ dlqRows = 0 /\ holdover = {}
  /\ accepted = {}
  /\ buffer = {} /\ overflow = {} /\ attempts = [s \in SUBSET Events |-> 0]
  /\ ctl = "down" /\ found = {}
  /\ pc = "idle" /\ cur = {} /\ depth = 0 /\ budget = 0 /\ stack = <<>>
  /\ settle = NoSettle /\ rows = {} /\ after = "next"
  /\ owed = {} /\ journaled = {} /\ conceded = {} /\ blamed = {} /\ faults = 0

(* What the thread that holds _lock does *)
FlushStep ==
  \/ DrainDlqOverflow \/ ReleaseHoldover \/ TakeBatch \/ PersistInflight
  \/ SendUnreachable \/ SendForbidden \/ SendUnauthorized \/ SendTimeout
  \/ SendRejected \/ SendRefused \/ SendOverrun \/ SendUnconfirmed \/ SendAnswered
  \/ SettleTerminal \/ SettleUnknown \/ SettleEnd
  \/ Quarantine \/ QuarantineClear \/ NextHalf

StartStep ==
  Start \/ ReplayPersist \/ ReplayWrite \/ ReplayRemove \/ RecoverHoldover

StopStep ==
  StopCall \/ StopFlush \/ StopPersist \/ StopWrite \/ StopTruncate \/ StopClear \/ Exit

Next ==
  \/ \E e \in Events : Track(e)
  \/ Tick
  \/ FlushStep
  \/ StartStep
  \/ StopStep
  \/ Crash

Spec == Init /\ [][Next]_vars

----------------------------------------------------------------------------
Phases == {"down", "replayFlush", "replayPersist", "replayWrite", "replayRemove",
           "recover", "running", "stopFlush", "stopDone"} \cup Stopping

Places == {"idle", "drain", "release", "take", "journal", "send", "settle",
           "quarantine", "unjournal", "next"}

TypeOK ==
  /\ wal \subseteq Events /\ wal1 \subseteq Events /\ inflight \subseteq Events
  /\ dlq \subseteq Events /\ holdover \subseteq Events /\ accepted \subseteq Events
  /\ dlqRows \in Nat
  /\ buffer \subseteq Events /\ overflow \subseteq Events
  /\ attempts \in [SUBSET Events -> Nat]
  /\ ctl \in Phases /\ found \subseteq {"wal", "wal1", "inflight"}
  /\ pc \in Places /\ cur \subseteq Events /\ depth \in Nat /\ budget \in Nat
  /\ stack \in Seq(Half)
  /\ settle \in Settlement
  /\ rows \subseteq Events /\ after \in {"next", "settle"}
  /\ owed \subseteq Events /\ journaled \subseteq Events /\ conceded \subseteq Events
  /\ blamed \subseteq Events /\ faults \in Nat

Parked  == dlq \cup holdover

Settled == accepted \cup Parked \cup conceded

Durable == wal \cup wal1 \cup inflight \cup Parked \cup accepted \cup conceded

(* No event that track() took is lost without a trace: it is in the        *)
(* backend, in the DLQ or its holdover, in a recovery file, in the buffer, *)
(* in the hands of the flush, or counted as a loss.                        *)
NoSilentLoss == owed \subseteq Durable \cup buffer \cup Working

(* An event that has once been in a file is in a file, or with the         *)
(* backend, at every later moment, so that no crash can take it: every     *)
(* removal and every overwriting of a file comes after the write, or the   *)
(* confirmation, that replaces it.                                         *)
JournaledStaysDurable == journaled \subseteq Durable

(* Where an event is, as EventFate sees it; NoSilentLoss says that none is *)
(* "lost".                                                                 *)
Fate ==
  [e \in Events |->
     IF e \in Settled THEN "settled"
     ELSE IF e \in wal \cup wal1 \cup inflight THEN "disk"
     ELSE IF e \in buffer \cup Working THEN "memory"
     ELSE IF e \in owed THEN "lost" ELSE "new"]

Promise == INSTANCE EventFate WITH fate <- Fate

(* Event delivery implements what EventFate promises: through flushes,     *)
(* replays, stops, crashes, failing disks and every answer to a whole      *)
(* batch, an event only goes from memory to a file and from there to where *)
(* it is settled, and a crash undoes nothing but what was in memory alone. *)
KeepsPromise == Promise!Spec

(* A refusal waiting for room in the DLQ is on disk and not only in the    *)
(* index _dlq_overflow, unless the failed write was counted.               *)
HeldIsDurable == overflow \subseteq Parked \cup conceded

(* A parked event, held or dead-lettered, is never on the wire again. *)
ParkedNeverResent == pc = "send" => cur \cap Parked = {}

(* The DLQ and its holdover only take events which the backend just        *)
(* refused for good: by a 4xx that is no 401, 403 or 408, by a terminal    *)
(* reason, or by a 2xx that confirms or explains nothing. "4xx classes     *)
(* that MUST NOT be quarantined" (the comment on _TRANSIENT_4XX and        *)
(* _AUTH_4XX), outages and recorded overruns park nothing, whatever        *)
(* attempts other answers have used up. An event counted as lost may still *)
(* reach the DLQ later.                                                    *)
OnlyRefusedParked == [][Parked' \ Parked \subseteq blamed \cup conceded]_vars

(* Between two flushes the buffer has at most max_buffer_size events that  *)
(* are not critical.                                                       *)
BufferBounded ==
  ctl = "running" /\ pc = "idle" => Cardinality(buffer \ Critical) <= MaxBuffer

(* The flush loop keeps waking up, a flush that has begun ends (each send  *)
(* has a timeout and a bounded number of retries), and a process that is   *)
(* down is started again.  When, and whether, track(), stop() and a crash  *)
(* happen is not ours to assume; a stop() that was called does return.     *)
Fairness ==
  /\ WF_vars(FlushStep)
  /\ WF_vars(Tick)
  /\ WF_vars(StartStep)
  /\ WF_vars(StopStep /\ ~StopCall)

FairSpec == Spec /\ Fairness

(* Every event track() accepted ends up with the backend, in the DLQ or    *)
(* its holdover, or among the counted losses, unless the process died      *)
(* before it had been written to any file: again and again nothing is left *)
(* to be settled, since there are finitely many events.  It takes a        *)
(* backend that does not for ever answer with an outage, 403, 408 or, as   *)
(* no attempt is counted there, retry_after_ms.                            *)
EventuallySettled == []<>(owed \subseteq accepted \cup Parked \cup conceded)

=============================================================================
