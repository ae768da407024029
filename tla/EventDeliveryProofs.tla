------------------------ MODULE EventDeliveryProofs ------------------------
(***************************************************************************)
(* Proofs about EventDelivery, for every set of events and every bound.    *)
(***************************************************************************)
EXTENDS EventDelivery, FiniteSetTheorems, SequenceTheorems, TLAPS

----------------------------------------------------------------------------
(* Types                                                                   *)

(* A set of events is finite, so the caps compare natural numbers.         *)
LEMMA SubsetCardinality ==
  ASSUME NEW S \in SUBSET Events
  PROVE  IsFiniteSet(S) /\ Cardinality(S) \in Nat
  BY EventsFinite, FS_Subset, FS_CardinalityType

(* _trim_holdover_index only ever takes rows away.                         *)
LEMMA TrimmedType ==
  ASSUME NEW S \in SUBSET Events, NEW t \in Trimmed(S)
  PROVE  t \subseteq S
  BY DEF Trimmed

(* _batch_attempts keeps counting in Nat when the table is reset.          *)
LEMMA BumpedType ==
  ASSUME TypeOK, NEW b \in SUBSET Events
  PROVE  Bumped(b) \in [SUBSET Events -> Nat]
  BY DEF TypeOK, Bumped

(* What the two ways of parking rows do to the variables they share *)
LEMMA ParkType ==
  ASSUME TypeOK, NEW S \in SUBSET Events, WriteDlq(S) \/ HoldForDlq(S)
  PROVE  /\ dlq' \subseteq Events /\ holdover' \subseteq Events /\ overflow' \subseteq Events
         /\ dlqRows' \in Nat /\ faults' \in Nat
         /\ journaled' \subseteq Events /\ conceded' \subseteq Events
<1>1. CASE WriteDlq(S)
  BY <1>1, SubsetCardinality DEF TypeOK, WriteDlq, NoFault
<1>2. CASE HoldForDlq(S)
  <2>1. overflow' \subseteq Events
    BY <1>2, TrimmedType DEF TypeOK, HoldForDlq
  <2> QED
    BY <1>2, <2>1 DEF TypeOK, HoldForDlq, NoFault, Fault
<1> QED
  BY <1>1, <1>2

(* _retry_or_dlq re-queues or quarantines events and nothing else.         *)
LEMMA RetryType ==
  ASSUME TypeOK, NEW b \in SUBSET Events, NEW dl, NEW requeued \in Places,
         NEW parked \in {"next", "settle"}, RetryOrDlq(b, dl, requeued, parked)
  PROVE  /\ attempts' \in [SUBSET Events -> Nat]
         /\ buffer' \subseteq Events /\ rows' \subseteq Events
         /\ pc' \in Places /\ after' \in {"next", "settle"}
<1>1. attempts' \in [SUBSET Events -> Nat]
  BY BumpedType DEF RetryOrDlq
<1> QED
  BY <1>1 DEF RetryOrDlq, TypeOK, Places

(* _send_subbatches leaves halves of the batch on the stack, and a         *)
(* bisection budget that is not negative.                                  *)
LEMMA SubbatchesType ==
  ASSUME TypeOK, NEW d \in Nat, NEW b \in Nat, SendSubbatches(d, b), pc = "send"
  PROVE  /\ cur' \subseteq Events /\ depth' \in Nat /\ budget' \in Nat
         /\ stack' \in Seq(Half) /\ pc' \in Places
         /\ rows' \subseteq Events /\ after' \in {"next", "settle"}
<1>1. CASE d >= MaxDepth \/ b < 2
  BY <1>1 DEF SendSubbatches, Park, TypeOK, Places
<1>2. CASE ~(d >= MaxDepth \/ b < 2)
  <2>1. PICK left \in SUBSET cur :
          /\ cur' = left
          /\ stack' = <<[evs |-> cur \ left, depth |-> d + 1]>> \o stack
          /\ depth' = d + 1
          /\ budget' = b - 2
          /\ UNCHANGED <<pc, rows, after>>
    BY <1>2 DEF SendSubbatches
  <2>2. [evs |-> cur \ left, depth |-> d + 1] \in Half
    BY DEF TypeOK, Half
  <2>3. stack' \in Seq(Half)
    BY <2>1, <2>2 DEF TypeOK
  <2>4. budget' \in Nat
    BY <1>2, <2>1, Bounds
  <2> QED
    BY <2>1, <2>3, <2>4 DEF TypeOK
<1> QED
  BY <1>1, <1>2

(* What a 2xx leaves to settle is a Settlement.                            *)
LEMMA SettlementType ==
  \A t, r, u \in SUBSET Events :
    [terminal |-> t, retry |-> r, unknown |-> u, live |-> FALSE] \in Settlement
  BY DEF Settlement

(* The end of a flush hands over to a phase of start() or stop().          *)
LEMMA FlushReturnType ==
  ASSUME TypeOK, FlushReturn
  PROVE  pc' \in Places /\ cur' \subseteq Events /\ ctl' \in Phases
  BY DEF TypeOK, FlushReturn, Places, Phases, Stopping

(* Every step under _lock preserves the types.                             *)
LEMMA FlushType ==
  ASSUME TypeOK, FlushStep
  PROVE  TypeOK'
<1> USE DEF disk, life, flush, history, sendUnchanged
<1>1. CASE DrainDlqOverflow
  BY <1>1, SubsetCardinality DEF TypeOK, DrainDlqOverflow, NoFault, Fault, Places
<1>2. CASE ReleaseHoldover
  BY <1>2 DEF TypeOK, ReleaseHoldover, NoFault, Fault, Places
<1>3. CASE TakeBatch
  <2>1. CASE buffer = {}
    BY <1>3, <2>1, FlushReturnType DEF TypeOK, TakeBatch, NoFault
  <2>2. CASE buffer # {}
    BY <1>3, <2>2, Bounds DEF TypeOK, TakeBatch, NoFault, Places
  <2> QED
    BY <2>1, <2>2
<1>4. CASE PersistInflight
  BY <1>4 DEF TypeOK, PersistInflight, NoFault, Fault, Places
<1>5. CASE SendUnreachable
  <2>1. accepted' \subseteq Events /\ faults' \in Nat
    BY <1>5 DEF TypeOK, SendUnreachable, Fault
  <2>2. buffer' \subseteq Events /\ conceded' \subseteq Events
    BY <1>5 DEF TypeOK, SendUnreachable, DropNewest
  <2> QED
    BY <1>5, <2>1, <2>2 DEF TypeOK, SendUnreachable, Places
<1>6. CASE SendForbidden
  BY <1>6 DEF TypeOK, SendForbidden, Fault, Places
<1>7. CASE SendUnauthorized
  <2>1. faults' \in Nat
    BY <1>7 DEF TypeOK, SendUnauthorized, Fault
  <2> QED
    BY <1>7, <2>1, RetryType DEF TypeOK, SendUnauthorized, Places
<1>8. CASE SendTimeout
  <2>1. faults' \in Nat
    BY <1>8 DEF TypeOK, SendTimeout, Fault
  <2> QED
    BY <1>8, <2>1, RetryType DEF TypeOK, SendTimeout, Places
<1>9. CASE SendRejected
  <2>1. CASE Cardinality(cur) > 1
    BY <1>9, <2>1, SubbatchesType DEF TypeOK, SendRejected, Fault
  <2>2. CASE ~(Cardinality(cur) > 1)
    BY <1>9, <2>2 DEF TypeOK, SendRejected, Park, Fault, Places
  <2> QED
    BY <2>1, <2>2
<1>10. CASE SendRefused
  <2>1. CASE Cardinality(cur) > 1 /\ depth < MaxDepth /\ budget >= 2
    <3>1. depth + 1 \in Nat /\ budget - 2 \in Nat
      BY <2>1 DEF TypeOK
    <3> QED
      BY <1>10, <2>1, <3>1, SubbatchesType DEF TypeOK, SendRefused, Fault
  <2>2. CASE ~(Cardinality(cur) > 1 /\ depth < MaxDepth /\ budget >= 2)
    BY <1>10, <2>2 DEF TypeOK, SendRefused, Park, Fault, Places
  <2> QED
    BY <2>1, <2>2
<1>11. CASE SendOverrun
  BY <1>11 DEF TypeOK, SendOverrun, Fault, Places
<1>12. CASE SendUnconfirmed
  <2>1. accepted' \subseteq Events /\ faults' \in Nat
    BY <1>12 DEF TypeOK, SendUnconfirmed, Fault
  <2>2. CASE depth = 0
    BY <1>12, <2>1, <2>2, RetryType DEF TypeOK, SendUnconfirmed, Places
  <2>3. CASE depth # 0
    BY <1>12, <2>1, <2>3 DEF TypeOK, SendUnconfirmed, Forget, Places
  <2> QED
    BY <2>2, <2>3
<1>13. CASE SendAnswered
  <2>1. faults' \in Nat
    BY <1>13 DEF SendAnswered, NoFault, Fault, TypeOK
  <2>2. PICK acc \in SUBSET cur, t \in SUBSET cur, r \in SUBSET cur, u \in SUBSET cur :
          /\ accepted' = accepted \cup acc
          /\ IF depth = 0
             THEN /\ settle' = [terminal |-> t, retry |-> r, unknown |-> u, live |-> FALSE]
                  /\ pc' = "settle"
                  /\ UNCHANGED <<buffer, attempts>>
             ELSE HalfAnswered(t, r, u)
    BY <1>13, ZenonT(60) DEF SendAnswered
  <2>3. CASE depth = 0
    <3>0. t \in SUBSET Events /\ r \in SUBSET Events /\ u \in SUBSET Events
      BY DEF TypeOK
    <3>1. settle' \in Settlement
      BY <2>2, <2>3, <3>0, SettlementType, Zenon
    <3> QED
      BY <1>13, <2>1, <2>2, <2>3, <3>1 DEF TypeOK, SendAnswered, Places
  <2>4. CASE depth # 0
    BY <1>13, <2>1, <2>2, <2>4 DEF TypeOK, SendAnswered, HalfAnswered, Forget, Places
  <2> QED
    BY <2>3, <2>4
<1>14. CASE SettleTerminal
  <2>1. PICK e \in settle.terminal :
          \/ WriteDlq({e}) /\ settle' = [settle EXCEPT !.terminal = @ \ {e}]
          \/ HoldForDlq({e}) /\ settle' = [settle EXCEPT !.terminal = @ \ {e}, !.live = TRUE]
    BY <1>14 DEF SettleTerminal
  <2>2. {e} \in SUBSET Events
    BY <2>1 DEF TypeOK, Settlement
  <2>3. settle' \in Settlement
    <3>1. settle \in Settlement
      BY DEF TypeOK
    <3>2. /\ [settle EXCEPT !.terminal = @ \ {e}] \in Settlement
          /\ [settle EXCEPT !.terminal = @ \ {e}, !.live = TRUE] \in Settlement
      BY <3>1 DEF Settlement
    <3> QED
      BY <2>1, <3>2
  <2> QED
    BY <1>14, <2>1, <2>2, <2>3, ParkType DEF TypeOK, SettleTerminal
<1>15. CASE SettleUnknown
  <2>1. PICK e \in settle.unknown :
          /\ RetryOrDlq({e}, TRUE, "settle", "settle")
          /\ settle' = [settle EXCEPT !.unknown = @ \ {e}, !.live = @ \/ ~Exhausted({e})]
    BY <1>15 DEF SettleUnknown
  <2>2. {e} \in SUBSET Events
    BY <2>1 DEF TypeOK, Settlement
  <2>3. settle' \in Settlement
    <3>1. settle \in Settlement
      BY DEF TypeOK
    <3>2. [settle EXCEPT !.unknown = @ \ {e}, !.live = @ \/ ~Exhausted({e})] \in Settlement
      BY <3>1 DEF Settlement
    <3> QED
      BY <2>1, <3>2
  <2> QED
    BY <1>15, <2>1, <2>2, <2>3, RetryType DEF TypeOK, SettleUnknown, NoFault, Places
<1>16. CASE SettleEnd
  BY <1>16 DEF TypeOK, SettleEnd, Forget, NoSettle, Settlement, NoFault, Fault, Places
<1>17. CASE Quarantine
  BY <1>17, ParkType DEF TypeOK, Quarantine, Places
<1>18. CASE QuarantineClear
  BY <1>18 DEF TypeOK, QuarantineClear, NoFault, Fault, Places
<1>19. CASE NextHalf
  <2>1. CASE stack = <<>>
    BY <1>19, <2>1, FlushReturnType DEF TypeOK, NextHalf, NoFault
  <2>2. CASE stack # <<>>
    <3>1. Head(stack) \in Half /\ Tail(stack) \in Seq(Half)
      BY <2>2 DEF TypeOK
    <3>2. Head(stack).evs \subseteq Events /\ Head(stack).depth \in Nat
      BY <3>1 DEF Half
    <3> QED
      BY <1>19, <2>2, <3>1, <3>2 DEF TypeOK, NextHalf, NoFault, Places
  <2> QED
    BY <2>1, <2>2
<1> QED
  BY <1>1, <1>2, <1>3, <1>4, <1>5, <1>6, <1>7, <1>8, <1>9, <1>10, <1>11, <1>12, <1>13,
     <1>14, <1>15, <1>16, <1>17, <1>18, <1>19 DEF FlushStep

(* So does every step of track(), start(), stop() and a crash.             *)
LEMMA LifeType ==
  ASSUME TypeOK, StartStep \/ StopStep \/ Crash
  PROVE  TypeOK'
<1> USE DEF disk, life, flush, history, memory
<1>1. CASE Start
  BY <1>1 DEF TypeOK, Start, NoFault, Fault, Phases, Places, Stopping
<1>2. CASE ReplayPersist
  BY <1>2 DEF TypeOK, ReplayPersist, PersistBegin, RotateWal, NoFault, Phases, Stopping
<1>3. CASE ReplayWrite
  <2>1. CASE WriteWal /\ buffer' = {} /\ found' = found \ {"wal"} /\ ctl' = "replayRemove"
    BY <1>3, <2>1 DEF TypeOK, ReplayWrite, WriteWal, NoFault, Phases, Stopping
  <2>2. CASE /\ Fault("disk") /\ found' = {} /\ ctl' = "recover"
             /\ UNCHANGED <<wal, journaled, buffer>>
    BY <1>3, <2>2 DEF TypeOK, ReplayWrite, Fault, Phases, Stopping
  <2> QED
    BY <1>3, <2>1, <2>2 DEF ReplayWrite
<1>4. CASE ReplayRemove
  <2>1. /\ found' \subseteq found /\ ctl' \in {ctl, "recover"} /\ faults' \in Nat
        /\ wal' \in {wal, {}} /\ wal1' \in {wal1, {}} /\ inflight' \in {inflight, {}}
    BY <1>4 DEF TypeOK, ReplayRemove, NoFault, Fault
  <2> QED
    BY <1>4, <2>1 DEF TypeOK, ReplayRemove, Phases, Stopping
<1>5. CASE RecoverHoldover
  <2>1. overflow' \subseteq Events
    BY <1>5, TrimmedType DEF TypeOK, RecoverHoldover
  <2> QED
    BY <1>5, <2>1 DEF TypeOK, RecoverHoldover, NoFault, Phases, Stopping
<1>6. CASE StopCall
  BY <1>6 DEF TypeOK, StopCall, Fault, Phases, Stopping
<1>7. CASE StopFlush
  BY <1>7 DEF TypeOK, StopFlush, BeginFlush, NoFault, Phases, Places, Stopping
<1>8. CASE StopPersist
  BY <1>8 DEF TypeOK, StopPersist, PersistBegin, RotateWal, NoFault, Phases, Stopping
<1>9. CASE StopWrite
  BY <1>9 DEF TypeOK, StopWrite, WriteWal, NoFault, Fault, Phases, Stopping
<1>10. CASE StopTruncate
  BY <1>10 DEF TypeOK, StopTruncate, NoFault, Phases, Stopping
<1>11. CASE StopClear
  BY <1>11 DEF TypeOK, StopClear, NoFault, Fault, Phases, Stopping
<1>12. ASSUME Die, faults' \in Nat PROVE TypeOK'
  BY <1>12 DEF TypeOK, Die, NoSettle, Settlement, Phases, Places, Stopping
<1>13. CASE Exit
  BY <1>12, <1>13 DEF Exit, NoFault, TypeOK
<1>14. CASE Crash
  BY <1>12, <1>14 DEF Crash, Fault, TypeOK
<1> QED
  BY <1>1, <1>2, <1>3, <1>4, <1>5, <1>6, <1>7, <1>8, <1>9, <1>10, <1>11, <1>13, <1>14
     DEF StartStep, StopStep

(* Every variable keeps its type, whatever the environment does: no step   *)
(* of the flush spends a request of the bisection budget that is not left, *)
(* and only events that were tracked reach a file.                         *)
THEOREM TypeCorrect == Spec => []TypeOK
<1>1. Init => TypeOK
  BY DEF Init, TypeOK, NoSettle, Phases, Places, Half, Settlement
<1>2. TypeOK /\ [Next]_vars => TypeOK'
  <2> SUFFICES ASSUME TypeOK, [Next]_vars PROVE TypeOK'
    OBVIOUS
  <2>1. ASSUME NEW e \in Events, Track(e) PROVE TypeOK'
    BY <2>1 DEF TypeOK, Track, NoFault, disk, life, Places
  <2>2. CASE Tick
    BY <2>2 DEF TypeOK, Tick, BeginFlush, NoFault, disk, life, history, Places
  <2>3. CASE UNCHANGED vars
    BY <2>3 DEF TypeOK, vars, disk, life, flush, history
  <2> QED
    BY <2>1, <2>2, <2>3, FlushType, LifeType DEF Next
<1> QED
  BY <1>1, <1>2, PTL DEF Spec

----------------------------------------------------------------------------
(* Held refusals                                                           *)

(* The DLQ write comes before the rewriting of the holdover file. *)
ReleasedAreDead == pc = "release" => rows \subseteq dlq

HeldInv == TypeOK /\ HeldIsDurable /\ ReleasedAreDead

(* A row that is parked, either way, is on disk or counted as lost.        *)
LEMMA ParkHeld ==
  ASSUME TypeOK, HeldIsDurable, NEW S \in SUBSET Events, WriteDlq(S) \/ HoldForDlq(S)
  PROVE  HeldIsDurable' /\ dlq \subseteq dlq'
<1>1. CASE WriteDlq(S)
  BY <1>1 DEF HeldIsDurable, Parked, WriteDlq
<1>2. CASE HoldForDlq(S)
  <2>1. overflow' \subseteq overflow \cup S
    BY <1>2, TrimmedType DEF HoldForDlq, TypeOK
  <2> QED
    BY <1>2, <2>1 DEF HeldIsDurable, Parked, HoldForDlq
<1> QED
  BY <1>1, <1>2

(* HeldInv is inductive.                                                  *)
LEMMA HeldInvariant == Spec => []HeldInv
<1>1. Init => HeldInv
  BY DEF Init, HeldInv, TypeOK, NoSettle, Settlement, Phases, Places, Half, HeldIsDurable,
         ReleasedAreDead
<1>2. HeldInv /\ TypeOK' /\ [Next]_vars => HeldInv'
  <2> SUFFICES ASSUME HeldInv, TypeOK', [Next]_vars
               PROVE  HeldIsDurable' /\ ReleasedAreDead'
    BY DEF HeldInv
  <2> USE DEF HeldInv, HeldIsDurable, ReleasedAreDead, Parked, disk, life, flush, history
  <2>1. ASSUME NEW e \in Events, Track(e) PROVE HeldIsDurable' /\ ReleasedAreDead'
    BY <2>1 DEF Track
  <2>2. CASE Tick
    BY <2>2 DEF Tick, BeginFlush
  <2>3. CASE DrainDlqOverflow
    BY <2>3 DEF DrainDlqOverflow
  <2>4. CASE ReleaseHoldover
    BY <2>4 DEF ReleaseHoldover
  <2>5. CASE SettleTerminal
    <3>1. PICK e \in settle.terminal : WriteDlq({e}) \/ HoldForDlq({e})
      BY <2>5 DEF SettleTerminal
    <3>2. {e} \in SUBSET Events
      BY <3>1 DEF TypeOK, Settlement
    <3>3. HeldIsDurable'
      BY <3>1, <3>2, ParkHeld
    <3> QED
      BY <2>5, <3>3 DEF SettleTerminal
  <2>6. CASE Quarantine
    <3>1. HeldIsDurable'
      BY <2>6, ParkHeld DEF Quarantine, TypeOK
    <3> QED
      BY <2>6, <3>1 DEF Quarantine, TypeOK
  <2>7. CASE RecoverHoldover
    <3>1. overflow' \subseteq overflow \cup holdover
      BY <2>7, TrimmedType DEF RecoverHoldover, TypeOK
    <3> QED
      BY <2>7, <3>1 DEF RecoverHoldover
  <2>8. CASE Exit \/ Crash
    BY <2>8 DEF Exit, Crash, Die
  <2>9. CASE TakeBatch \/ NextHalf
    BY <2>9 DEF TakeBatch, NextHalf, FlushReturn
  <2>10. CASE SendUnreachable
    BY <2>10 DEF SendUnreachable
  <2>11. CASE \/ PersistInflight \/ SendForbidden \/ SendUnauthorized \/ SendTimeout
              \/ SendRejected \/ SendRefused \/ SendOverrun \/ SendUnconfirmed
              \/ SendAnswered \/ SettleUnknown \/ SettleEnd \/ QuarantineClear
    <3>1. UNCHANGED <<dlq, holdover, overflow, conceded>>
      BY <2>11 DEF PersistInflight, SendForbidden, SendUnauthorized, SendTimeout,
           SendRejected, SendRefused, SendOverrun, SendUnconfirmed, SendAnswered,
           SettleUnknown, SettleEnd, QuarantineClear, sendUnchanged
    <3>2. pc' # "release"
      BY <2>11 DEF PersistInflight, SendForbidden, SendUnauthorized, SendTimeout,
           SendRejected, SendRefused, SendOverrun, SendUnconfirmed, SendAnswered,
           SettleUnknown, SettleEnd, QuarantineClear, RetryOrDlq, Park, SendSubbatches,
           HalfAnswered, TypeOK
    <3> QED
      BY <3>1, <3>2
  <2>12. CASE Start \/ ReplayPersist \/ ReplayWrite \/ ReplayRemove
    BY <2>12 DEF Start, ReplayPersist, ReplayWrite, ReplayRemove, PersistBegin, memory
  <2>13. CASE StopCall \/ StopFlush \/ StopPersist \/ StopWrite \/ StopTruncate \/ StopClear
    BY <2>13 DEF StopCall, StopFlush, BeginFlush, StopPersist, PersistBegin, StopWrite,
                 StopTruncate, StopClear, memory
  <2>14. CASE UNCHANGED vars
    BY <2>14 DEF vars
  <2> QED
    BY <2>1, <2>2, <2>3, <2>4, <2>5, <2>6, <2>7, <2>8, <2>9, <2>10, <2>11, <2>12, <2>13,
       <2>14 DEF Next, FlushStep, StartStep, StopStep
<1> QED
  BY <1>1, <1>2, TypeCorrect, PTL DEF Spec

(* A held refusal is on disk whatever happens: the drain writes the DLQ    *)
(* before it rewrites <wal>.holdover, a crash in between repeats the       *)
(* drain, and only a write that fails twice, which                         *)
(* dlq_holdover_persist_failures counts, leaves it in memory alone.        *)
THEOREM HeldSafe == Spec => []HeldIsDurable
<1>1. HeldInv => HeldIsDurable
  BY DEF HeldInv
<1> QED
  BY <1>1, HeldInvariant, PTL

----------------------------------------------------------------------------
(* Crash safety                                                            *)

(* No answer makes the flush split or settle its batch event by event      *)
(* through the DLQ, start() gets the WAL lock, and nobody calls stop().    *)
WholeBatchEnv == Env \cap {"rejected", "refused", "unknown", "lock", "stop"} = {}

(* What the process remembers *)
Memory  == buffer \cup Working

(* A flush never splits its batch, and the process only ever ends by dying *)
WholeBatch ==
  /\ depth = 0 /\ stack = <<>> /\ settle.unknown = {}
  /\ ctl \notin Stopping \cup {"stopFlush", "stopDone"}

(* Between taking a batch and settling it the batch is all there is. *)
BatchIsAll ==
  /\ pc \in {"journal", "send", "settle", "quarantine", "unjournal"} => buffer = {}
  /\ pc \notin {"release", "quarantine", "unjournal"} => rows = {}
  /\ pc \in {"release", "unjournal"} => rows \subseteq dlq
  /\ pc # "settle" => settle.terminal = {} /\ settle.retry = {}
  /\ ctl \notin {"running", "replayFlush"} => pc = "idle"
  /\ ctl = "down" => buffer = {}

(* While start() replays, it remembers all that the files hold; once it    *)
(* removes files, everything is settled or in the fresh <wal>; and from    *)
(* then on <wal>.inflight is remembered, settled or in <wal>.              *)
FilesRemembered ==
  /\ ctl \in {"replayFlush", "replayPersist", "replayWrite"} =>
       wal \cup wal1 \cup inflight \subseteq Memory \cup Settled
  /\ ctl = "replayRemove" =>
       /\ wal1 \cup inflight \subseteq wal \cup Settled
       /\ "wal" \in found => wal \subseteq Settled
  /\ ctl # "down" => inflight \subseteq Memory \cup Settled \cup wal

(* Rotating <wal> overwrites nothing that <wal> does not also hold. *)
RotationSafe == wal # {} => wal1 \subseteq wal \cup Settled

CrashInv ==
  /\ TypeOK
  /\ WholeBatch
  /\ BatchIsAll
  /\ FilesRemembered
  /\ RotationSafe
  /\ NoSilentLoss
  /\ JournaledStaysDurable

(* Without bisection the flush holds one batch and no halves.              *)
LEMMA WholeWorking ==
  ASSUME stack = <<>>
  PROVE  Working = (IF pc \in {"journal", "send"} THEN cur ELSE {}) \cup rows
                     \cup settle.terminal \cup settle.retry \cup settle.unknown
  BY DEF Working, StackEvents

(* The same in the next state.                                             *)
LEMMA WholeWorkingNext ==
  ASSUME stack' = <<>>
  PROVE  Working' = (IF pc' \in {"journal", "send"} THEN cur' ELSE {}) \cup rows'
                      \cup settle'.terminal \cup settle'.retry \cup settle'.unknown
  BY DEF Working, StackEvents

(* A step that changes none of the three recovery files and settles what   *)
(* it journals and what it stops remembering preserves the cover.          *)
LEMMA CoverKept ==
  ASSUME CrashInv, UNCHANGED <<wal, wal1, inflight, found>>,
         ctl' = ctl \/ (ctl = "replayFlush" /\ ctl' = "replayPersist"),
         Settled \subseteq Settled', Memory \subseteq Memory' \cup Settled',
         journaled' \subseteq journaled \cup Settled', owed' \subseteq owed \cup Memory'
  PROVE  FilesRemembered' /\ RotationSafe' /\ NoSilentLoss' /\ JournaledStaysDurable'
  BY DEF CrashInv, FilesRemembered, RotationSafe, NoSilentLoss, JournaledStaysDurable,
         Memory, Settled, Durable

(* <wal>.inflight may go once nothing that is remembered is unsettled. *)
LEMMA CoverCleared ==
  ASSUME CrashInv, UNCHANGED <<wal, wal1, ctl, found, journaled, owed>>, ctl # "down",
         inflight' \in {inflight, {}},
         Settled \subseteq Settled', Memory \subseteq Settled'
  PROVE  FilesRemembered' /\ RotationSafe' /\ NoSilentLoss' /\ JournaledStaysDurable'
  BY DEF CrashInv, FilesRemembered, RotationSafe, NoSilentLoss, JournaledStaysDurable,
         Memory, Settled, Durable

(* The rows of a parked set are settled. *)
LEMMA ParkSettles ==
  ASSUME NEW S \in SUBSET Events, WriteDlq(S) \/ HoldForDlq(S), UNCHANGED accepted
  PROVE  /\ Settled \cup S \subseteq Settled'
         /\ journaled' \subseteq journaled \cup Settled'
  BY DEF WriteDlq, HoldForDlq, Settled, Parked

(* A requeued batch is remembered, and so are the rows of a quarantined one. *)
LEMMA RetryRemembers ==
  ASSUME NEW b \in SUBSET Events, NEW dl \in BOOLEAN, NEW requeued, NEW parked,
         RetryOrDlq(b, dl, requeued, parked)
  PROVE  \/ /\ pc' = "quarantine" /\ rows' = b /\ after' = parked /\ buffer' = buffer
         \/ /\ pc' = requeued /\ buffer' = buffer \cup b /\ UNCHANGED rows
  BY DEF RetryOrDlq

(* A readable answer to a whole batch splits it into three.                *)
LEMMA AnsweredSplits ==
  ASSUME WholeBatchEnv, depth = 0, SendAnswered
  PROVE  \E acc \in SUBSET cur, t \in SUBSET cur, r \in SUBSET cur :
           /\ cur = acc \cup t \cup r
           /\ accepted' = accepted \cup acc
           /\ settle' = [terminal |-> t, retry |-> r, unknown |-> {}, live |-> FALSE]
           /\ pc' = "settle"
           /\ UNCHANGED <<buffer, attempts>>
<1>1. ~Fault("unknown")
  BY DEF Fault, WholeBatchEnv
<1>2. PICK acc \in SUBSET cur : \E t \in SUBSET (cur \ acc) :
        \E r \in SUBSET (cur \ (acc \cup t)) :
          /\ acc = cur \/ cur \ (acc \cup t \cup r) = {} \/ Fault("unknown")
          /\ accepted' = accepted \cup acc
          /\ settle' = [terminal |-> t, retry |-> r, unknown |-> cur \ (acc \cup t \cup r),
                        live |-> FALSE]
          /\ pc' = "settle"
          /\ UNCHANGED <<buffer, attempts>>
  BY ZenonT(60) DEF SendAnswered
<1>3. PICK t \in SUBSET (cur \ acc), r \in SUBSET cur :
          /\ acc = cur \/ cur \ (acc \cup t \cup r) = {} \/ Fault("unknown")
          /\ accepted' = accepted \cup acc
          /\ settle' = [terminal |-> t, retry |-> r, unknown |-> cur \ (acc \cup t \cup r),
                        live |-> FALSE]
          /\ pc' = "settle"
          /\ UNCHANGED <<buffer, attempts>>
  BY <1>2
<1>4. cur \ (acc \cup t \cup r) = {}
  BY <1>1, <1>3
<1>5. cur = acc \cup t \cup r /\ t \in SUBSET cur /\ r \in SUBSET cur
  BY <1>4
<1> QED
  BY <1>3, <1>4, <1>5

(* Every step under _lock preserves CrashInv.                              *)
LEMMA FlushCrashSafe ==
  ASSUME WholeBatchEnv, CrashInv, FlushStep
  PROVE  /\ WholeBatch' /\ BatchIsAll'
         /\ FilesRemembered' /\ RotationSafe' /\ NoSilentLoss' /\ JournaledStaysDurable'
<1> DEFINE Keeps == /\ WholeBatch' /\ BatchIsAll' /\ FilesRemembered'
                    /\ RotationSafe' /\ NoSilentLoss' /\ JournaledStaysDurable'
<1> SUFFICES Keeps
  OBVIOUS
<1> USE DEF disk, life, flush, history, sendUnchanged
<1>w. /\ depth = 0 /\ stack = <<>> /\ settle.unknown = {}
      /\ Working = (IF pc \in {"journal", "send"} THEN cur ELSE {}) \cup rows
                     \cup settle.terminal \cup settle.retry
  BY WholeWorking DEF CrashInv, WholeBatch
<1>1. CASE DrainDlqOverflow
  <2>1. WholeBatch' /\ BatchIsAll'
    BY <1>1 DEF CrashInv, WholeBatch, BatchIsAll, DrainDlqOverflow
  <2>2. Settled \subseteq Settled' /\ Memory \subseteq Memory' \cup Settled'
    BY <1>1, <1>w, WholeWorkingNext
       DEF CrashInv, BatchIsAll, DrainDlqOverflow, Memory, Settled, Parked
  <2> QED
    BY <1>1, <2>1, <2>2, CoverKept DEF DrainDlqOverflow
<1>2. CASE ReleaseHoldover
  <2>1. WholeBatch' /\ BatchIsAll'
    BY <1>2 DEF CrashInv, WholeBatch, BatchIsAll, ReleaseHoldover
  <2>2. Settled \subseteq Settled' /\ Memory \subseteq Memory' \cup Settled'
    BY <1>2, <1>w, WholeWorkingNext
       DEF CrashInv, BatchIsAll, ReleaseHoldover, Memory, Settled, Parked
  <2> QED
    BY <1>2, <2>1, <2>2, CoverKept DEF ReleaseHoldover
<1>3. CASE TakeBatch
  <2>1. WholeBatch' /\ BatchIsAll'
    BY <1>3 DEF CrashInv, WholeBatch, BatchIsAll, TakeBatch, FlushReturn, Stopping
  <2>2. Settled \subseteq Settled' /\ Memory \subseteq Memory' \cup Settled'
    BY <1>3, <1>w, WholeWorkingNext
       DEF CrashInv, BatchIsAll, TakeBatch, FlushReturn, Memory, Settled, Parked
  <2>3. ctl' = ctl \/ (ctl = "replayFlush" /\ ctl' = "replayPersist")
    BY <1>3 DEF CrashInv, WholeBatch, TakeBatch, FlushReturn
  <2> QED
    BY <1>3, <2>1, <2>2, <2>3, CoverKept DEF TakeBatch
<1>4. CASE PersistInflight
  <2>1. WholeBatch' /\ BatchIsAll'
    BY <1>4 DEF CrashInv, WholeBatch, BatchIsAll, PersistInflight
  <2>2. /\ Settled' = Settled /\ Memory = cur /\ Memory' = cur
    BY <1>4, <1>w, WholeWorkingNext
       DEF CrashInv, BatchIsAll, PersistInflight, Memory, Settled, Parked
  <2>3. CASE inflight' = cur /\ journaled' = journaled \cup cur
    <3>1. ctl \in {"running", "replayFlush"} /\ inflight \subseteq cur \cup Settled \cup wal
      BY <1>4, <2>2 DEF PersistInflight, CrashInv, BatchIsAll, FilesRemembered
    <3>2. FilesRemembered' /\ RotationSafe'
      BY <1>4, <2>2, <2>3, <3>1 DEF PersistInflight, CrashInv, FilesRemembered, RotationSafe
    <3>3. NoSilentLoss' /\ JournaledStaysDurable'
      BY <1>4, <2>2, <2>3, <3>1
         DEF PersistInflight, CrashInv, NoSilentLoss, JournaledStaysDurable, Memory, Settled,
             Durable
    <3> QED
      BY <2>1, <3>2, <3>3
  <2>4. CASE UNCHANGED <<inflight, journaled>>
    BY <1>4, <2>1, <2>2, <2>4, CoverKept DEF PersistInflight
  <2> QED
    BY <1>4, <2>1, <2>3, <2>4 DEF PersistInflight
<1>5. CASE SendUnreachable
  <2>1. WholeBatch' /\ BatchIsAll'
    BY <1>5 DEF CrashInv, WholeBatch, BatchIsAll, SendUnreachable, DropNewest
  <2>2. Settled \subseteq Settled' /\ Memory \subseteq Memory' \cup Settled'
    BY <1>5, <1>w, WholeWorkingNext
       DEF CrashInv, BatchIsAll, SendUnreachable, DropNewest, Memory, Settled, Parked
  <2> QED
    BY <1>5, <2>1, <2>2, CoverKept DEF SendUnreachable
<1>6. CASE SendForbidden
  <2>1. WholeBatch' /\ BatchIsAll'
    BY <1>6 DEF CrashInv, WholeBatch, BatchIsAll, SendForbidden
  <2>2. Settled \subseteq Settled' /\ Memory \subseteq Memory' \cup Settled'
    BY <1>6, <1>w, WholeWorkingNext
       DEF CrashInv, BatchIsAll, SendForbidden, Memory, Settled, Parked
  <2> QED
    BY <1>6, <2>1, <2>2, CoverKept DEF SendForbidden
<1>7. CASE SendUnauthorized
  <2>1. RetryOrDlq(cur, TRUE, "next", "next") /\ cur \in SUBSET Events
    BY <1>7, <1>w DEF SendUnauthorized, CrashInv, TypeOK
  <2>2. \/ pc' = "quarantine" /\ rows' = cur /\ buffer' = buffer
        \/ pc' = "next" /\ buffer' = buffer \cup cur /\ UNCHANGED rows
    BY <2>1, RetryRemembers
  <2>3. WholeBatch' /\ BatchIsAll'
    BY <1>7, <2>2 DEF CrashInv, WholeBatch, BatchIsAll, SendUnauthorized
  <2>4. Settled \subseteq Settled' /\ Memory \subseteq Memory' \cup Settled'
    BY <1>7, <1>w, <2>2, WholeWorkingNext
       DEF CrashInv, BatchIsAll, SendUnauthorized, Memory, Settled, Parked
  <2> QED
    BY <1>7, <2>3, <2>4, CoverKept DEF SendUnauthorized
<1>8. CASE SendTimeout
  <2>1. RetryOrDlq(cur, FALSE, "next", "next") /\ cur \in SUBSET Events
    BY <1>8, <1>w DEF SendTimeout, CrashInv, TypeOK
  <2>2. \/ pc' = "quarantine" /\ rows' = cur /\ buffer' = buffer
        \/ pc' = "next" /\ buffer' = buffer \cup cur /\ UNCHANGED rows
    BY <2>1, RetryRemembers
  <2>3. WholeBatch' /\ BatchIsAll'
    BY <1>8, <2>2 DEF CrashInv, WholeBatch, BatchIsAll, SendTimeout
  <2>4. Settled \subseteq Settled' /\ Memory \subseteq Memory' \cup Settled'
    BY <1>8, <1>w, <2>2, WholeWorkingNext
       DEF CrashInv, BatchIsAll, SendTimeout, Memory, Settled, Parked
  <2> QED
    BY <1>8, <2>3, <2>4, CoverKept DEF SendTimeout
<1>9. CASE SendOverrun
  <2>1. WholeBatch' /\ BatchIsAll'
    BY <1>9 DEF CrashInv, WholeBatch, BatchIsAll, SendOverrun
  <2>2. Settled \subseteq Settled' /\ Memory \subseteq Memory' \cup Settled'
    BY <1>9, <1>w, WholeWorkingNext
       DEF CrashInv, BatchIsAll, SendOverrun, Memory, Settled, Parked
  <2> QED
    BY <1>9, <2>1, <2>2, CoverKept DEF SendOverrun
<1>10. CASE SendUnconfirmed
  <2>1. RetryOrDlq(cur, TRUE, "next", "settle") /\ cur \in SUBSET Events
    BY <1>10, <1>w DEF SendUnconfirmed, CrashInv, TypeOK
  <2>2. \/ pc' = "quarantine" /\ rows' = cur /\ buffer' = buffer
        \/ pc' = "next" /\ buffer' = buffer \cup cur /\ UNCHANGED rows
    BY <2>1, RetryRemembers
  <2>3. WholeBatch' /\ BatchIsAll'
    BY <1>10, <2>2 DEF CrashInv, WholeBatch, BatchIsAll, SendUnconfirmed
  <2>4. Settled \subseteq Settled' /\ Memory \subseteq Memory' \cup Settled'
    BY <1>10, <1>w, <2>2, WholeWorkingNext
       DEF CrashInv, BatchIsAll, SendUnconfirmed, Memory, Settled, Parked
  <2> QED
    BY <1>10, <2>3, <2>4, CoverKept DEF SendUnconfirmed
<1>11. CASE SendAnswered
  <2>1. PICK acc \in SUBSET cur, t \in SUBSET cur, r \in SUBSET cur :
          /\ cur = acc \cup t \cup r
          /\ accepted' = accepted \cup acc
          /\ settle' = [terminal |-> t, retry |-> r, unknown |-> {}, live |-> FALSE]
          /\ pc' = "settle"
          /\ UNCHANGED <<buffer, attempts>>
    BY <1>11, <1>w, AnsweredSplits
  <2>2. WholeBatch' /\ BatchIsAll'
    BY <1>11, <2>1 DEF CrashInv, WholeBatch, BatchIsAll, SendAnswered
  <2>3. Settled \subseteq Settled' /\ Memory \subseteq Memory' \cup Settled'
    BY <1>11, <1>w, <2>1, WholeWorkingNext
       DEF CrashInv, BatchIsAll, SendAnswered, Memory, Settled, Parked
  <2> QED
    BY <1>11, <2>2, <2>3, CoverKept DEF SendAnswered
<1>12. CASE SendRejected \/ SendRefused \/ SettleUnknown
  <2>1. FALSE
    BY <1>12, <1>w DEF SendRejected, SendRefused, SettleUnknown, Fault, WholeBatchEnv
  <2> QED
    BY <2>1
<1>13. CASE SettleTerminal
  <2>1. PICK e \in settle.terminal :
          /\ WriteDlq({e}) \/ HoldForDlq({e})
          /\ settle'.terminal = settle.terminal \ {e}
          /\ settle'.retry = settle.retry /\ settle'.unknown = settle.unknown
    BY <1>13 DEF SettleTerminal, CrashInv, TypeOK, Settlement
  <2>2. Settled \cup {e} \subseteq Settled' /\ journaled' \subseteq journaled \cup Settled'
    <3>1. {e} \in SUBSET Events
      BY <2>1 DEF CrashInv, TypeOK, Settlement
    <3> QED
      BY <1>13, <2>1, <3>1, ParkSettles DEF SettleTerminal
  <2>3. WholeBatch' /\ BatchIsAll'
    BY <1>13, <1>w, <2>1 DEF CrashInv, WholeBatch, BatchIsAll, SettleTerminal
  <2>4. Memory \subseteq Memory' \cup Settled'
    BY <1>13, <1>w, <2>1, <2>2, WholeWorkingNext DEF SettleTerminal, Memory
  <2> QED
    BY <1>13, <2>2, <2>3, <2>4, CoverKept DEF SettleTerminal
<1>14. CASE SettleEnd
  <2>1. WholeBatch' /\ BatchIsAll'
    BY <1>14 DEF CrashInv, WholeBatch, BatchIsAll, SettleEnd, NoSettle
  <2>2. Settled' = Settled /\ Memory = settle.retry /\ Memory' = settle.retry
    BY <1>14, <1>w, WholeWorkingNext
       DEF CrashInv, BatchIsAll, SettleEnd, NoSettle, Memory, Settled, Parked
  <2>3. CASE settle.live \/ settle.retry # {}
    BY <1>14, <2>1, <2>2, <2>3, CoverKept DEF SettleEnd
  <2>4. CASE ~(settle.live \/ settle.retry # {})
    <3>1. ctl # "down"
      BY <1>14 DEF CrashInv, BatchIsAll, SettleEnd
    <3> QED
      BY <1>14, <2>1, <2>2, <2>4, <3>1, CoverCleared DEF SettleEnd
  <2> QED
    BY <2>3, <2>4
<1>15. CASE Quarantine
  <2>1. Settled \cup rows \subseteq Settled' /\ journaled' \subseteq journaled \cup Settled'
    BY <1>15, ParkSettles DEF Quarantine, CrashInv, TypeOK
  <2>2. WholeBatch' /\ BatchIsAll'
    BY <1>15 DEF CrashInv, TypeOK, WholeBatch, BatchIsAll, Quarantine, WriteDlq
  <2>3. Memory \subseteq Memory' \cup Settled'
    BY <1>15, <1>w, <2>1, WholeWorkingNext DEF Quarantine, Memory
  <2> QED
    BY <1>15, <2>1, <2>2, <2>3, CoverKept DEF Quarantine
<1>16. CASE QuarantineClear
  <2>1. WholeBatch' /\ BatchIsAll'
    BY <1>16 DEF CrashInv, TypeOK, WholeBatch, BatchIsAll, QuarantineClear
  <2>2. Settled' = Settled /\ Memory \subseteq Settled /\ ctl # "down"
    BY <1>16, <1>w DEF CrashInv, BatchIsAll, QuarantineClear, Memory, Settled, Parked
  <2> QED
    BY <1>16, <2>1, <2>2, CoverCleared DEF QuarantineClear
<1>17. CASE NextHalf
  <2>1. WholeBatch' /\ BatchIsAll'
    BY <1>17, <1>w DEF CrashInv, WholeBatch, BatchIsAll, NextHalf, FlushReturn, Stopping
  <2>2. Settled \subseteq Settled' /\ Memory \subseteq Memory' \cup Settled'
    BY <1>17, <1>w, WholeWorkingNext
       DEF CrashInv, BatchIsAll, NextHalf, FlushReturn, Memory, Settled, Parked
  <2>3. ctl' = ctl \/ (ctl = "replayFlush" /\ ctl' = "replayPersist")
    BY <1>17, <1>w DEF CrashInv, WholeBatch, NextHalf, FlushReturn
  <2> QED
    BY <1>17, <2>1, <2>2, <2>3, CoverKept DEF NextHalf
<1> QED
  BY <1>1, <1>2, <1>3, <1>4, <1>5, <1>6, <1>7, <1>8, <1>9, <1>10, <1>11, <1>12, <1>13, <1>14,
     <1>15, <1>16, <1>17 DEF FlushStep

(* So does every step of track(), start(), stop() and a crash.             *)
LEMMA LifeCrashSafe ==
  ASSUME WholeBatchEnv, CrashInv, StartStep \/ StopStep \/ Crash
  PROVE  /\ WholeBatch' /\ BatchIsAll'
         /\ FilesRemembered' /\ RotationSafe' /\ NoSilentLoss' /\ JournaledStaysDurable'
<1> USE DEF disk, life, flush, history, memory
<1>w. /\ stack = <<>> /\ settle.unknown = {}
      /\ Working = (IF pc \in {"journal", "send"} THEN cur ELSE {}) \cup rows
                     \cup settle.terminal \cup settle.retry
  BY WholeWorking DEF CrashInv, WholeBatch
<1>i. ASSUME pc = "idle" PROVE Memory = buffer
  BY <1>w, <1>i DEF CrashInv, BatchIsAll, Memory
<1>m. ASSUME UNCHANGED <<buffer, pc, cur, depth, stack, settle, rows>>
      PROVE  Memory' = Memory
  BY <1>m DEF Memory, Working, StackEvents
<1>1. CASE Start
  <2>1. WholeBatch' /\ BatchIsAll'
    BY <1>1 DEF CrashInv, WholeBatch, BatchIsAll, Start, Fault, WholeBatchEnv, Stopping
  <2>2. /\ buffer' = wal1 \cup wal \cup inflight /\ Settled' = Settled
        /\ Memory \subseteq buffer \cup Memory' /\ buffer' \subseteq Memory'
        /\ UNCHANGED <<wal, wal1, inflight, conceded, accepted, journaled, owed>>
        /\ ctl' \in {"recover", "replayFlush"}
    BY <1>1, <1>i DEF CrashInv, BatchIsAll, Start, Fault, WholeBatchEnv, Memory, Settled, Parked
  <2>3. FilesRemembered' /\ RotationSafe'
    BY <2>2 DEF CrashInv, FilesRemembered, RotationSafe
  <2>4. Memory = {}
    BY <1>1, <1>i DEF CrashInv, BatchIsAll, Start
  <2>5. NoSilentLoss' /\ JournaledStaysDurable'
    BY <2>2, <2>4 DEF CrashInv, NoSilentLoss, JournaledStaysDurable, Durable, Settled, Memory
  <2> QED
    BY <2>1, <2>3, <2>5
<1>2. CASE ReplayPersist
  <2>1. WholeBatch' /\ BatchIsAll'
    BY <1>2 DEF CrashInv, WholeBatch, BatchIsAll, ReplayPersist, PersistBegin, Stopping
  <2>2. /\ Memory = buffer /\ Memory' = buffer /\ Settled' = Settled
        /\ UNCHANGED <<inflight, found, journaled, owed>>
    BY <1>2, <1>i, <1>m DEF CrashInv, BatchIsAll, ReplayPersist, PersistBegin, Settled, Parked
  <2>3. CASE buffer = {}
    BY <1>2, <2>1, <2>2, <2>3
       DEF ReplayPersist, PersistBegin, CrashInv, FilesRemembered, RotationSafe, NoSilentLoss,
           JournaledStaysDurable, Durable, Settled, Memory
  <2>4. CASE buffer # {} /\ UNCHANGED <<wal, wal1>>
    BY <1>2, <2>1, <2>2, <2>4
       DEF ReplayPersist, PersistBegin, CrashInv, FilesRemembered, RotationSafe, NoSilentLoss,
           JournaledStaysDurable, Durable, Settled, Memory
  <2>5. CASE buffer # {} /\ RotateWal
    <3>1. wal # {}
      BY <2>5, Bounds, FS_EmptySet DEF RotateWal
    <3>2. wal1 \subseteq wal \cup Settled
      BY <3>1 DEF CrashInv, RotationSafe
    <3>3. FilesRemembered' /\ RotationSafe'
      BY <1>2, <2>2, <2>5
         DEF ReplayPersist, PersistBegin, RotateWal, CrashInv, FilesRemembered, RotationSafe
    <3>4. NoSilentLoss' /\ JournaledStaysDurable'
      BY <1>2, <2>2, <2>5, <3>2
         DEF RotateWal, CrashInv, NoSilentLoss, JournaledStaysDurable, Durable, Settled, Memory
    <3> QED
      BY <2>1, <3>3, <3>4
  <2> QED
    BY <1>2, <2>3, <2>4, <2>5 DEF ReplayPersist, PersistBegin
<1>3. CASE ReplayWrite
  <2>1. WholeBatch' /\ BatchIsAll'
    BY <1>3 DEF CrashInv, WholeBatch, BatchIsAll, ReplayWrite, Stopping
  <2>2. /\ Memory = buffer /\ Settled' = Settled
        /\ wal \cup wal1 \cup inflight \subseteq buffer \cup Settled
        /\ UNCHANGED <<wal1, inflight, owed>>
    BY <1>3, <1>i DEF CrashInv, BatchIsAll, FilesRemembered, ReplayWrite, Settled, Parked
  <2>3. CASE /\ wal' = buffer /\ journaled' = journaled \cup buffer /\ buffer' = {}
             /\ found' = found \ {"wal"} /\ ctl' = "replayRemove"
    BY <2>1, <2>2, <2>3
       DEF CrashInv, FilesRemembered, RotationSafe, NoSilentLoss, JournaledStaysDurable,
           Durable, Settled, Memory
  <2>4. CASE ctl' = "recover" /\ UNCHANGED <<wal, journaled, buffer>>
    <3>1. Memory' = buffer
      BY <1>3, <1>m, <2>2, <2>4 DEF ReplayWrite
    <3> QED
      BY <2>1, <2>2, <2>4, <3>1
         DEF CrashInv, FilesRemembered, RotationSafe, NoSilentLoss, JournaledStaysDurable,
             Durable, Settled, Memory
  <2> QED
    BY <1>3, <2>3, <2>4 DEF ReplayWrite, WriteWal
<1>4. CASE ReplayRemove
  <2>1. WholeBatch' /\ BatchIsAll'
    BY <1>4 DEF CrashInv, WholeBatch, BatchIsAll, ReplayRemove, Stopping
  <2>2. /\ Memory' = Memory /\ Settled' = Settled /\ UNCHANGED <<journaled, owed>>
        /\ wal1 \cup inflight \subseteq wal \cup Settled
        /\ "wal" \in found => wal \subseteq Settled
    BY <1>4, <1>m DEF CrashInv, FilesRemembered, ReplayRemove, Settled, Parked
  <2>3. /\ ctl' \in {"replayRemove", "recover"}
        /\ wal1' \in {wal1, {}} /\ inflight' \in {inflight, {}}
        /\ wal' = wal \/ ("wal" \in found /\ wal' = {})
        /\ found' \subseteq found
    <3>1. CASE found = {}
      BY <1>4, <3>1 DEF ReplayRemove
    <3>2. CASE found # {}
      <4>1. PICK f \in found :
              /\ found' = found \ {f}
              /\ \/ /\ wal1' = IF f = "wal1" THEN {} ELSE wal1
                    /\ wal' = IF f = "wal" THEN {} ELSE wal
                    /\ inflight' = IF f = "inflight" THEN {} ELSE inflight
                 \/ UNCHANGED <<wal, wal1, inflight>>
        BY <1>4, <3>2 DEF ReplayRemove
      <4> QED
        BY <1>4, <3>2, <4>1 DEF ReplayRemove
    <3> QED
      BY <3>1, <3>2
  <2> QED
    BY <2>1, <2>2, <2>3
       DEF CrashInv, FilesRemembered, RotationSafe, NoSilentLoss, JournaledStaysDurable,
           Durable, Settled, Memory
<1>5. CASE RecoverHoldover
  <2>1. WholeBatch' /\ BatchIsAll'
    BY <1>5 DEF CrashInv, WholeBatch, BatchIsAll, RecoverHoldover, Stopping
  <2>2. Memory' = Memory /\ Settled' = Settled
    BY <1>5, <1>m DEF RecoverHoldover, Settled, Parked
  <2> QED
    BY <1>5, <2>1, <2>2
       DEF RecoverHoldover, CrashInv, FilesRemembered, RotationSafe, NoSilentLoss,
           JournaledStaysDurable, Durable, Settled, Memory
<1>6. CASE StopStep
  BY <1>6 DEF StopStep, StopCall, StopFlush, StopPersist, StopWrite, StopTruncate, StopClear,
              Exit, Fault, WholeBatchEnv, CrashInv, WholeBatch, Stopping
<1>7. CASE Crash
  <2>1. WholeBatch' /\ BatchIsAll'
    BY <1>7 DEF Crash, Die, WholeBatch, BatchIsAll, NoSettle, Stopping
  <2>2. Settled' = Settled /\ Durable' = Durable
    BY <1>7 DEF Crash, Die, Settled, Parked, Durable
  <2>3. FilesRemembered' /\ RotationSafe' /\ JournaledStaysDurable'
    BY <1>7, <2>2
       DEF Crash, Die, CrashInv, FilesRemembered, RotationSafe, JournaledStaysDurable
  <2>4. NoSilentLoss'
    BY <1>7, <2>2
       DEF Crash, Die, CrashInv, NoSilentLoss, JournaledStaysDurable
  <2> QED
    BY <2>1, <2>3, <2>4
<1> QED
  BY <1>1, <1>2, <1>3, <1>4, <1>5, <1>6, <1>7 DEF StartStep

(* CrashInv is inductive.                                                 *)
LEMMA CrashInvariant ==
  ASSUME WholeBatchEnv
  PROVE  Spec => []CrashInv
<1>1. Init => CrashInv
  <2> SUFFICES ASSUME Init PROVE CrashInv
    OBVIOUS
  <2>1. TypeOK
    BY DEF Init, TypeOK, NoSettle, Settlement, Phases, Places, Half
  <2>2. WholeBatch /\ BatchIsAll
    BY DEF Init, WholeBatch, BatchIsAll, NoSettle, Stopping
  <2>3. FilesRemembered /\ RotationSafe /\ NoSilentLoss /\ JournaledStaysDurable
    BY DEF Init, FilesRemembered, RotationSafe, NoSilentLoss, JournaledStaysDurable
  <2> QED
    BY <2>1, <2>2, <2>3 DEF CrashInv
<1>2. CrashInv /\ TypeOK' /\ [Next]_vars => CrashInv'
  <2> SUFFICES ASSUME CrashInv, TypeOK', [Next]_vars
               PROVE  /\ WholeBatch' /\ BatchIsAll' /\ FilesRemembered'
                      /\ RotationSafe' /\ NoSilentLoss' /\ JournaledStaysDurable'
    BY DEF CrashInv
  <2> USE DEF disk, life, flush, history
  <2>1. ASSUME NEW e \in Events, Track(e)
        PROVE  /\ WholeBatch' /\ BatchIsAll' /\ FilesRemembered'
               /\ RotationSafe' /\ NoSilentLoss' /\ JournaledStaysDurable'
    <3>1. WholeBatch' /\ BatchIsAll'
      BY <2>1 DEF Track, CrashInv, WholeBatch, BatchIsAll, Stopping
    <3>2. Working' = Working
      BY <2>1 DEF Track, Working, StackEvents
    <3>3. /\ Settled' = Settled /\ Memory \subseteq Memory' /\ owed' \subseteq owed \cup Memory'
      BY <2>1, <3>2 DEF Track, Settled, Parked, Memory
    <3> QED
      BY <2>1, <3>1, <3>3, CoverKept DEF Track
  <2>2. CASE Tick
    <3>1. WholeBatch' /\ BatchIsAll'
      BY <2>2 DEF Tick, BeginFlush, CrashInv, WholeBatch, BatchIsAll
    <3>2. Memory' = Memory /\ Settled' = Settled
      BY <2>2 DEF Tick, BeginFlush, Memory, Working, StackEvents, Settled, Parked
    <3> QED
      BY <2>2, <3>1, <3>2, CoverKept DEF Tick
  <2>3. CASE UNCHANGED vars
    <3>1. WholeBatch' /\ BatchIsAll'
      BY <2>3 DEF vars, CrashInv, WholeBatch, BatchIsAll
    <3>2. Memory' = Memory /\ Settled' = Settled
      BY <2>3 DEF vars, Memory, Working, StackEvents, Settled, Parked
    <3> QED
      BY <2>3, <3>1, <3>2, CoverKept DEF vars
  <2> QED
    BY <2>1, <2>2, <2>3, FlushCrashSafe, LifeCrashSafe DEF Next
<1> QED
  BY <1>1, <1>2, TypeCorrect, PTL DEF Spec

(* Crashes, failing writes, outages that last into the next start, lost    *)
(* answers and refusals of single events for a known reason take nothing:  *)
(* every event that has been in a file stays in one until the backend or   *)
(* the DLQ has it, and every event that track() took is accounted for.     *)
(* The environment excludes what the violation runs show to break this.    *)
THEOREM CrashSafe ==
  ASSUME WholeBatchEnv
  PROVE  Spec => [](NoSilentLoss /\ JournaledStaysDurable)
<1>1. CrashInv => NoSilentLoss /\ JournaledStaysDurable
  BY DEF CrashInv
<1> QED
  BY <1>1, CrashInvariant, PTL

----------------------------------------------------------------------------
(* What may be parked                                                      *)

(* What is on its way to the DLQ was refused by the answer being handled,  *)
(* and nothing is when that answer has been dealt with.                    *)
OnItsWay ==
  /\ pc = "quarantine" => rows \subseteq blamed
  /\ settle.terminal \cup settle.unknown \subseteq blamed
  /\ pc = "settle" \/ (pc \in {"quarantine", "unjournal"} /\ after = "settle")
       \/ settle.terminal \cup settle.unknown = {}
  /\ ctl = "down" => pc = "idle"

(* A batch that is retried or quarantined for an answer that blames it     *)
LEMMA RetryBlamed ==
  ASSUME OnItsWay, pc = "send", NEW dead \in BOOLEAN, NEW to \in {"next", "settle"},
         RetryOrDlq(cur, dead, "next", to), UNCHANGED <<settle, ctl>>, dead => blamed' = cur
  PROVE  OnItsWay'
BY DEF OnItsWay, RetryOrDlq

LEMMA BlamedSend ==
  ASSUME "unauthorized" \notin Env, TypeOK, OnItsWay,
         \/ SendUnreachable \/ SendForbidden \/ SendUnauthorized \/ SendTimeout
         \/ SendRejected \/ SendRefused \/ SendOverrun \/ SendUnconfirmed \/ SendAnswered
  PROVE  OnItsWay' /\ Parked' \subseteq Parked
<1> USE DEF sendUnchanged, disk, life, Parked
<1>0. Parked' \subseteq Parked
  BY DEF SendUnreachable, SendForbidden, SendUnauthorized, SendTimeout, SendRejected, SendRefused,
         SendOverrun, SendUnconfirmed, SendAnswered
<1>1. CASE SendUnreachable \/ SendForbidden \/ SendOverrun
  BY <1>1 DEF SendUnreachable, SendForbidden, SendOverrun, OnItsWay
<1>2. CASE SendUnauthorized
  BY <1>2 DEF SendUnauthorized, Fault
<1>3. CASE SendTimeout
  BY <1>3, RetryBlamed DEF SendTimeout
<1>4. CASE SendRejected \/ SendRefused
  <2>1. /\ blamed' = cur /\ UNCHANGED settle /\ pc = "send"
        /\ Park \/ SendSubbatches(depth, budget) \/ SendSubbatches(depth + 1, budget - 2)
    BY <1>4 DEF SendRejected, SendRefused
  <2>2. (pc' = "quarantine" /\ rows' = cur) \/ pc' = pc
    BY <2>1 DEF Park, SendSubbatches
  <2>3. UNCHANGED ctl
    BY <1>4 DEF SendRejected, SendRefused, life
  <2>4. settle.terminal \cup settle.unknown = {}
    BY <2>1 DEF OnItsWay
  <2>5. settle'.terminal \cup settle'.unknown = {}
    BY <2>1, <2>4
  <2>6. ctl' # "down"
    BY <2>1, <2>3 DEF OnItsWay
  <2>7. pc' = "quarantine" => rows' = blamed'
    BY <2>1, <2>2
  <2> QED
    BY <1>0, <2>5, <2>6, <2>7 DEF OnItsWay
<1>5. CASE SendUnconfirmed
  <2>1. CASE depth = 0
    BY <1>5, <2>1, RetryBlamed DEF SendUnconfirmed
  <2>2. CASE depth # 0
    BY <1>5, <2>2 DEF SendUnconfirmed, OnItsWay
  <2> QED
    BY <2>1, <2>2
<1>6. CASE SendAnswered
  <2>1. PICK t \in SUBSET cur, r \in SUBSET cur, u \in SUBSET cur :
          /\ blamed' = t \cup u
          /\ IF depth = 0
             THEN /\ settle' = [terminal |-> t, retry |-> r, unknown |-> u, live |-> FALSE]
                  /\ pc' = "settle"
             ELSE HalfAnswered(t, r, u)
    BY <1>6 DEF SendAnswered
  <2> QED
    BY <1>6, <2>1 DEF SendAnswered, HalfAnswered, OnItsWay
<1> QED
  BY <1>0, <1>1, <1>2, <1>3, <1>4, <1>5, <1>6

(* The rest of the flush parks what the answer blamed, and moves what was  *)
(* held before.                                                            *)
LEMMA BlamedSettle ==
  ASSUME HeldInv, OnItsWay,
         \/ DrainDlqOverflow \/ ReleaseHoldover \/ TakeBatch \/ PersistInflight
         \/ SettleTerminal \/ SettleUnknown \/ SettleEnd
         \/ Quarantine \/ QuarantineClear \/ NextHalf
  PROVE  OnItsWay' /\ Parked' \ Parked \subseteq blamed \cup conceded
<1> USE DEF disk, life, history, Parked, OnItsWay
<1>1. CASE DrainDlqOverflow
  BY <1>1 DEF DrainDlqOverflow, HeldInv, HeldIsDurable
<1>2. CASE ReleaseHoldover
  BY <1>2 DEF ReleaseHoldover
<1>3. CASE TakeBatch \/ NextHalf
  BY <1>3 DEF TakeBatch, NextHalf, FlushReturn
<1>4. CASE PersistInflight
  BY <1>4 DEF PersistInflight
<1>5. CASE SettleTerminal
  <2>1. PICK e \in settle.terminal :
          /\ WriteDlq({e}) \/ HoldForDlq({e})
          /\ \/ settle' = [settle EXCEPT !.terminal = @ \ {e}]
             \/ settle' = [settle EXCEPT !.terminal = @ \ {e}, !.live = TRUE]
    BY <1>5 DEF SettleTerminal
  <2>2. dlq' \cup holdover' \subseteq dlq \cup holdover \cup {e}
    BY <2>1 DEF WriteDlq, HoldForDlq
  <2>3. settle'.terminal \subseteq settle.terminal /\ settle'.unknown = settle.unknown
    BY <2>1 DEF HeldInv, TypeOK, Settlement
  <2> QED
    BY <1>5, <2>1, <2>2, <2>3 DEF SettleTerminal
<1>6. CASE SettleUnknown
  <2>1. PICK e \in settle.unknown :
          /\ RetryOrDlq({e}, TRUE, "settle", "settle")
          /\ settle' = [settle EXCEPT !.unknown = @ \ {e}, !.live = @ \/ ~Exhausted({e})]
    BY <1>6 DEF SettleUnknown
  <2>2. settle'.unknown \subseteq settle.unknown /\ settle'.terminal = settle.terminal
    BY <2>1 DEF HeldInv, TypeOK, Settlement
  <2>3. pc' = "settle" \/ (pc' = "quarantine" /\ rows' = {e} /\ after' = "settle")
    BY <2>1 DEF RetryOrDlq
  <2> QED
    BY <1>6, <2>1, <2>2, <2>3 DEF SettleUnknown
<1>7. CASE SettleEnd
  BY <1>7 DEF SettleEnd, NoSettle
<1>8. CASE Quarantine
  <2>1. dlq' \cup holdover' \subseteq dlq \cup holdover \cup rows
    BY <1>8 DEF Quarantine, WriteDlq, HoldForDlq
  <2>2. /\ pc = "quarantine" /\ UNCHANGED <<blamed, settle, after, ctl>>
        /\ pc' = "unjournal" \/ (pc' = after /\ rows' = {})
    BY <1>8 DEF Quarantine
  <2>3. after \in {"next", "settle"}
    BY DEF HeldInv, TypeOK
  <2> QED
    BY <2>1, <2>2, <2>3
<1>9. CASE QuarantineClear
  <2>1. after \in {"next", "settle"}
    BY DEF HeldInv, TypeOK
  <2> QED
    BY <1>9, <2>1 DEF QuarantineClear
<1> QED
  BY <1>1, <1>2, <1>3, <1>4, <1>5, <1>6, <1>7, <1>8, <1>9

(* track(), the loop, start(), stop() and a crash park nothing.            *)
LEMMA BlamedLife ==
  ASSUME HeldInv, OnItsWay,
         (\E e \in Events : Track(e)) \/ Tick \/ StartStep \/ StopStep \/ Crash \/ UNCHANGED vars
  PROVE  OnItsWay' /\ Parked' \subseteq Parked
<1> USE DEF disk, life, history, flush, memory, Parked, OnItsWay
<1>1. ASSUME NEW e \in Events, Track(e) PROVE OnItsWay' /\ Parked' \subseteq Parked
  BY <1>1 DEF Track, Stopping
<1>2. CASE Tick \/ StopFlush
  BY <1>2 DEF Tick, StopFlush, BeginFlush
<1>3. CASE Start
  BY <1>3 DEF Start
<1>4. CASE ReplayPersist \/ ReplayWrite \/ ReplayRemove \/ RecoverHoldover
  BY <1>4 DEF ReplayPersist, ReplayWrite, ReplayRemove, PersistBegin, RecoverHoldover
<1>5. CASE StopCall \/ StopPersist \/ StopWrite \/ StopTruncate \/ StopClear
  BY <1>5 DEF StopCall, StopPersist, PersistBegin, StopWrite, StopTruncate, StopClear
<1>6. CASE Exit \/ Crash
  BY <1>6 DEF Exit, Crash, Die, NoSettle
<1>7. CASE UNCHANGED vars
  BY <1>7 DEF vars
<1> QED
  BY <1>1, <1>2, <1>3, <1>4, <1>5, <1>6, <1>7 DEF StartStep, StopStep

(* The DLQ and its holdover only take what the backend refused for good:   *)
(* outages, 403s, 408s and recorded overruns never get an event            *)
(* quarantined, however they mix with rejections, bisections, unconfirmed  *)
(* batches, crashes, restarts and failing disks and whatever attempts were *)
(* used up before.  401 is excluded: the code spends the retry budget on   *)
(* it, against its own comment.                                            *)
THEOREM RecoverableSafe ==
  ASSUME "unauthorized" \notin Env
  PROVE  Spec => OnlyRefusedParked
<1>1. Init => OnItsWay
  BY DEF Init, OnItsWay, NoSettle
<1>2. HeldInv /\ OnItsWay /\ [Next]_vars =>
        OnItsWay' /\ [Parked' \ Parked \subseteq blamed \cup conceded]_vars
  <2> SUFFICES ASSUME HeldInv, OnItsWay, [Next]_vars
               PROVE  OnItsWay' /\ Parked' \ Parked \subseteq blamed \cup conceded
    OBVIOUS
  <2>1. TypeOK
    BY DEF HeldInv
  <2> QED
    BY <2>1, BlamedSend, BlamedSettle, BlamedLife DEF Next, FlushStep
<1> QED
  BY <1>1, <1>2, HeldInvariant, PTL DEF Spec, OnlyRefusedParked

----------------------------------------------------------------------------
(* The buffer                                                              *)

(* The backend accepts a batch or cannot be reached, and a batch is not    *)
(* larger than the buffer.                                                 *)
OutageEnv == Env \cap Answers \subseteq {"unreachable"} /\ BatchSize <= MaxBuffer

(* The flush holds one batch, which leaves the buffer empty until it is    *)
(* known how much of it goes back.                                         *)
BufferInv ==
  /\ depth = 0 /\ stack = <<>>
  /\ settle.terminal = {} /\ settle.retry = {} /\ settle.unknown = {}
  /\ pc \notin {"quarantine", "unjournal"}
  /\ pc \in {"journal", "send", "settle"} => buffer = {}
  /\ pc \in {"idle", "next"} => Cardinality(buffer \ Critical) <= MaxBuffer
  /\ ctl = "down" => pc = "idle"

(* _drop_newest_with_priority makes room: what is left fits, the critical  *)
(* events aside.                                                           *)
LEMMA DropBound ==
  ASSUME NEW b \in SUBSET Events, NEW kept \in DropNewest(b, MaxBuffer)
  PROVE  Cardinality(kept \ Critical) <= MaxBuffer
<1> DEFINE loose == b \ Critical
           over == Cardinality(b) - MaxBuffer
<1>0. /\ IsFiniteSet(b) /\ Cardinality(b) \in Nat /\ IsFiniteSet(loose) /\ Cardinality(loose) \in Nat
      /\ MaxBuffer \in Nat
  BY SubsetCardinality, Bounds
<1>1. Cardinality(loose) <= Cardinality(b)
  BY <1>0, FS_Subset
<1>2. CASE MaxBuffer >= Cardinality(b)
  <2>1. kept = b
    BY <1>2 DEF DropNewest
  <2> HIDE DEF loose
  <2>2. Cardinality(loose) <= MaxBuffer
    BY <1>0, <1>1, <1>2
  <2> QED
    BY <2>1, <2>2 DEF loose
<1>3. CASE ~(MaxBuffer >= Cardinality(b))
  <2>1. PICK d \in SUBSET loose :
          /\ kept = b \ d
          /\ Cardinality(d) = IF over < Cardinality(loose) THEN over ELSE Cardinality(loose)
    BY <1>3 DEF DropNewest
  <2>2. kept \ Critical = loose \ d /\ loose \cap d = d
    BY <2>1
  <2>3. Cardinality(loose \ d) = Cardinality(loose) - Cardinality(d)
    BY <1>0, <2>2, FS_Difference
  <2> DEFINE n == Cardinality(loose)
             m == Cardinality(loose \ d)
  <2>4. m = n - (IF over < n THEN over ELSE n) /\ n \in Nat /\ n <= Cardinality(b)
    BY <1>0, <1>1, <2>1, <2>3
  <2> HIDE DEF n, m
  <2>5. m <= MaxBuffer
    BY <1>0, <1>3, <2>4
  <2> QED
    BY <2>2, <2>5 DEF m
<1> QED
  BY <1>2, <1>3

(* Nothing is taken from an answer other than that all is accepted.        *)
LEMMA AllAccepted ==
  ASSUME OutageEnv, depth = 0, SendAnswered
  PROVE  /\ settle' = [terminal |-> {}, retry |-> {}, unknown |-> {}, live |-> FALSE]
         /\ pc' = "settle" /\ UNCHANGED <<buffer, ctl, depth, stack>>
<1>1. ~Fault("partial") /\ ~Fault("unknown")
  BY DEF Fault, OutageEnv, Answers
<1>2. PICK acc \in SUBSET cur : \E t \in SUBSET (cur \ acc) :
        \E r \in SUBSET (cur \ (acc \cup t)) :
          /\ acc = cur \/ Fault("partial") \/ Fault("unknown")
          /\ settle' = [terminal |-> t, retry |-> r, unknown |-> cur \ (acc \cup t \cup r),
                        live |-> FALSE]
          /\ pc' = "settle"
          /\ UNCHANGED <<buffer, attempts>>
  BY ZenonT(60) DEF SendAnswered
<1>3. acc = cur
  BY <1>1, <1>2
<1>4. PICK t \in SUBSET (cur \ acc) : \E r \in SUBSET (cur \ (acc \cup t)) :
          /\ settle' = [terminal |-> t, retry |-> r, unknown |-> cur \ (acc \cup t \cup r),
                        live |-> FALSE]
          /\ pc' = "settle"
          /\ UNCHANGED buffer
  BY <1>2, Zenon
<1>5. PICK r \in SUBSET (cur \ (acc \cup t)) :
          /\ settle' = [terminal |-> t, retry |-> r, unknown |-> cur \ (acc \cup t \cup r),
                        live |-> FALSE]
          /\ pc' = "settle"
          /\ UNCHANGED buffer
  BY <1>4, Zenon
<1>6. t = {} /\ r = {} /\ cur \ (acc \cup t \cup r) = {}
  BY <1>3
<1>7. UNCHANGED <<ctl, depth, stack>>
  BY DEF SendAnswered, sendUnchanged, life
<1> QED
  BY <1>5, <1>6, <1>7

(* Between two flushes the buffer has at most max_buffer_size events that  *)
(* are not critical, through outages of any length, crashes, restarts,     *)
(* failing disks and track() calls that race with stop().                  *)
THEOREM BufferSafe ==
  ASSUME OutageEnv
  PROVE  Spec => []BufferBounded
<1> USE DEF disk, life, flush, history
<1>0. MaxBuffer \in Nat /\ BatchSize \in Nat /\ BatchSize <= MaxBuffer /\ Cardinality({}) = 0
  BY Bounds, FS_EmptySet DEF OutageEnv
<1>e. \A k \in Answers \ {"unreachable"} : ~Fault(k)
  BY DEF OutageEnv, Fault
<1>b. {} \ Critical = {}
  OBVIOUS
<1>1. Init => BufferInv
  BY <1>0, <1>b DEF Init, BufferInv, NoSettle
<1>2. TypeOK /\ BufferInv /\ [Next]_vars => BufferInv'
  <2> SUFFICES ASSUME TypeOK, BufferInv, [Next]_vars PROVE BufferInv'
    OBVIOUS
  <2>z. buffer' = {} => Cardinality(buffer' \ Critical) <= MaxBuffer
    <3> SUFFICES ASSUME buffer' = {} PROVE Cardinality(buffer' \ Critical) <= MaxBuffer
      OBVIOUS
    <3>1. buffer' \ Critical = {}
      OBVIOUS
    <3>2. Cardinality(buffer' \ Critical) = 0
      BY <1>0, <3>1
    <3> QED
      BY <1>0, <3>2
  <2>1. ASSUME NEW e \in Events, Track(e) PROVE BufferInv'
    <3>1. buffer' \subseteq Events /\ buffer' = buffer \cup {e}
      BY <2>1 DEF Track, TypeOK
    <3>2. /\ IsFiniteSet(buffer') /\ Cardinality(buffer') \in Nat
          /\ Cardinality(buffer' \ Critical) \in Nat
          /\ Cardinality(buffer' \ Critical) <= Cardinality(buffer')
      <4>1. IsFiniteSet(buffer') /\ Cardinality(buffer') \in Nat
            /\ Cardinality(buffer' \ Critical) \in Nat
        BY <3>1, SubsetCardinality
      <4> QED
        BY <4>1, FS_Subset
    <3>3. pc' = IF Cardinality(buffer') >= BatchSize THEN "drain" ELSE "idle"
      BY <2>1 DEF Track
    <3>4. pc' = "idle" => Cardinality(buffer' \ Critical) <= MaxBuffer
      BY <1>0, <3>2, <3>3
    <3>5. UNCHANGED <<ctl, depth, stack, settle>> /\ ctl # "down"
      BY <2>1 DEF Track, Stopping
    <3> QED
      BY <3>3, <3>4, <3>5 DEF BufferInv
  <2>2. CASE Tick \/ StopFlush
    BY <2>2 DEF Tick, StopFlush, BeginFlush, BufferInv
  <2>3. CASE DrainDlqOverflow
    BY <2>3 DEF DrainDlqOverflow, BufferInv
  <2>4. CASE ReleaseHoldover \/ PersistInflight
    BY <2>4 DEF ReleaseHoldover, PersistInflight, BufferInv
  <2>5. CASE TakeBatch
    BY <2>5, <2>z DEF TakeBatch, FlushReturn, BufferInv
  <2>6. CASE NextHalf
    BY <2>6 DEF NextHalf, FlushReturn, BufferInv
  <2>7. CASE SendUnreachable
    <3>0. buffer = {} /\ depth = 0 /\ MaxBuffer - Cardinality(buffer) = MaxBuffer
      <4>1. buffer = {} /\ depth = 0
        BY <2>7 DEF SendUnreachable, BufferInv
      <4>2. Cardinality(buffer) = 0
        BY <1>0, <4>1
      <4> QED
        BY <1>0, <4>1, <4>2
    <3>1. PICK kept \in DropNewest(cur, MaxBuffer) : buffer' = kept
      BY <2>7, <3>0 DEF SendUnreachable
    <3>2. Cardinality(buffer' \ Critical) <= MaxBuffer
      BY <3>1, DropBound DEF TypeOK
    <3>3. pc' = "next" /\ UNCHANGED <<ctl, depth, stack, settle>> /\ pc = "send"
      BY <2>7 DEF SendUnreachable
    <3> QED
      BY <3>2, <3>3 DEF BufferInv
  <2>8. CASE \/ SendForbidden \/ SendUnauthorized \/ SendTimeout \/ SendRejected
             \/ SendRefused \/ SendOverrun \/ SendUnconfirmed
    BY <1>e, <2>8 DEF SendForbidden, SendUnauthorized, SendTimeout, SendRejected,
         SendRefused, SendOverrun, SendUnconfirmed, Answers
  <2>9. CASE SendAnswered
    <3>1. /\ settle' = [terminal |-> {}, retry |-> {}, unknown |-> {}, live |-> FALSE]
          /\ pc' = "settle" /\ UNCHANGED <<buffer, ctl, depth, stack>>
      BY <2>9, AllAccepted DEF BufferInv
    <3>2. pc = "send"
      BY <2>9 DEF SendAnswered
    <3> QED
      BY <3>1, <3>2 DEF BufferInv
  <2>10. CASE SettleTerminal \/ SettleUnknown \/ Quarantine \/ QuarantineClear
    BY <2>10 DEF SettleTerminal, SettleUnknown, Quarantine, QuarantineClear, BufferInv
  <2>11. CASE SettleEnd
    <3>1. buffer' = {} /\ settle' = NoSettle /\ pc' = "next" /\ UNCHANGED <<ctl, depth, stack>> /\ pc = "settle"
      BY <2>11 DEF SettleEnd, BufferInv
    <3> QED
      BY <2>z, <3>1 DEF BufferInv, NoSettle
  <2>12. CASE Start
    <3>1. \/ buffer' = {} /\ pc' = "idle"
          \/ pc' = "drain"
          \/ UNCHANGED <<buffer, pc>>
      BY <2>12 DEF Start, BufferInv
    <3>2. pc = "idle" /\ ctl' # "down" /\ UNCHANGED <<depth, stack, settle>>
      BY <2>12 DEF Start, BufferInv
    <3> QED
      BY <2>z, <3>1, <3>2 DEF BufferInv
  <2>13. CASE ReplayWrite \/ StopTruncate
    BY <2>13, <2>z DEF ReplayWrite, StopTruncate, BufferInv
  <2>14. CASE \/ ReplayPersist \/ ReplayRemove \/ RecoverHoldover \/ StopCall \/ StopPersist
              \/ StopWrite \/ StopClear
    <3>1. UNCHANGED <<buffer, pc, depth, stack, settle>> /\ ctl' # "down"
      BY <2>14 DEF ReplayPersist, ReplayRemove, RecoverHoldover, StopCall, StopPersist,
           PersistBegin, StopWrite, StopClear, memory
    <3> QED
      BY <3>1 DEF BufferInv
  <2>15. CASE Exit \/ Crash
    BY <2>15, <2>z DEF Exit, Crash, Die, BufferInv, NoSettle
  <2>16. CASE UNCHANGED vars
    BY <2>16 DEF vars, BufferInv
  <2> QED
    BY <2>1, <2>2, <2>3, <2>4, <2>5, <2>6, <2>7, <2>8, <2>9, <2>10, <2>11, <2>12, <2>13, <2>14,
       <2>15, <2>16 DEF Next, FlushStep, StartStep, StopStep
<1>3. BufferInv => BufferBounded
  BY DEF BufferInv, BufferBounded
<1> QED
  BY <1>1, <1>2, <1>3, TypeCorrect, PTL DEF Spec

----------------------------------------------------------------------------
(* Parked events                                                           *)

(* The process ends through stop() alone, which finds its disk writable    *)
(* and nobody in track(), and start() finds the backend in order.          *)
CleanEndEnv == Env \cap {"crash", "outage", "disk", "late"} = {}

EventsOf(q) == UNION {q[i].evs : i \in DOMAIN q}

(* The halves that are still to be sent have no event in common.           *)
HalvesApart(q) == \A i, j \in DOMAIN q : i # j => q[i].evs \cap q[j].evs = {}

OnWire   == IF pc \in {"journal", "send"} THEN cur ELSE {}
Answered == settle.terminal \cup settle.retry \cup settle.unknown
Doomed   == IF pc = "quarantine" THEN rows ELSE {}
Hands    == buffer \cup OnWire \cup EventsOf(stack) \cup Answered \cup Doomed

(* No event is in two hands of the flush.                                  *)
Apart ==
  /\ HalvesApart(stack)
  /\ OnWire \cap buffer = {}
  /\ EventsOf(stack) \cap (buffer \cup OnWire) = {}
  /\ Answered \cap (buffer \cup OnWire \cup EventsOf(stack)) = {}
  /\ settle.terminal \cap (settle.retry \cup settle.unknown) = {}
  /\ settle.retry \cap settle.unknown = {}
  /\ Doomed \cap (buffer \cup OnWire \cup EventsOf(stack) \cup Answered) = {}

(* What is parked stays out of the hands of the flush, and of the files    *)
(* that start() replays.                                                   *)
ParkedApart ==
  /\ Parked \cap (Hands \cup wal \cup wal1) = {}
  /\ Parked \cup wal \cup wal1 \subseteq journaled
  /\ overflow \subseteq Parked
  /\ pc \in {"release", "unjournal"} => rows \subseteq dlq

(* Where the flush has refusals to settle, and halves to send              *)
FlushShape ==
  /\ Answered # {} => pc = "settle" \/ (pc \in {"quarantine", "unjournal"} /\ after = "settle")
  /\ pc \in {"idle", "drain", "release", "take", "journal"} => stack = <<>>
  /\ pc = "idle" \/ ctl \in {"running", "stopJoin", "stopFlush", "replayFlush"}

Serving == {"running", "stopJoin", "stopFlush"}

(* A file that start() did not get to read holds nothing the process has,  *)
(* the replay empties the buffer, and stop() leaves no <wal>.inflight.     *)
CleanLife ==
  /\ ctl \in Serving => (wal \cup wal1) \cap Hands = {}
  /\ ctl \in {"down", "stopDone"} => inflight = {}
  /\ ctl \in {"down", "replayPersist", "replayRemove", "recover"} => buffer = {}
  /\ ctl # "replayWrite"

(* The replay sends one batch, and all of it is accepted.                  *)
CleanReplay ==
  ctl = "replayFlush" =>
    /\ pc \notin {"quarantine", "unjournal"} /\ Answered = {} /\ stack = <<>>
    /\ pc \in {"journal", "send", "settle", "next"} => buffer = {}

ResendInv == TypeOK /\ Apart /\ ParkedApart /\ FlushShape /\ CleanLife /\ CleanReplay

(* The halves under a new one, and what is left when the innermost is      *)
(* taken.                                                                  *)
LEMMA PushHalf ==
  ASSUME NEW q \in Seq(Half), NEW h \in Half, NEW p, p = <<h>> \o q
  PROVE  /\ EventsOf(p) = h.evs \cup EventsOf(q)
         /\ HalvesApart(q) /\ h.evs \cap EventsOf(q) = {} => HalvesApart(p)
<1>1. /\ p \in Seq(Half) /\ Len(p) = Len(q) + 1 /\ Len(q) \in Nat
      /\ p[1] = h /\ \A i \in 1..Len(q) : p[i + 1] = q[i]
  BY SMTT(30)
<1>2. DOMAIN p = 1..(Len(q) + 1) /\ DOMAIN q = 1..Len(q)
  BY <1>1, LenProperties
<1>3. \A i \in DOMAIN p : i = 1 \/ (i - 1 \in DOMAIN q /\ p[i] = q[i - 1])
  BY <1>1, <1>2
<1>4. 1 \in DOMAIN p /\ \A i \in DOMAIN q : i + 1 \in DOMAIN p /\ p[i + 1] = q[i]
  BY <1>1, <1>2
<1>5. EventsOf(p) = h.evs \cup EventsOf(q)
  <2>1. \A e : e \in EventsOf(p) <=> \E i \in DOMAIN p : e \in p[i].evs
    BY DEF EventsOf
  <2>2. \A e : e \in EventsOf(q) <=> \E i \in DOMAIN q : e \in q[i].evs
    BY DEF EventsOf
  <2>3. ASSUME NEW e \in EventsOf(p) PROVE e \in h.evs \/ e \in EventsOf(q)
    <3>1. PICK i \in DOMAIN p : e \in p[i].evs
      BY <2>1
    <3>2. CASE i = 1
      BY <1>1, <3>1, <3>2
    <3>3. CASE i # 1
      BY <1>3, <2>2, <3>1, <3>3
    <3> QED
      BY <3>2, <3>3
  <2>4. \A e : e \in h.evs \/ e \in EventsOf(q) => e \in EventsOf(p)
    BY <1>1, <1>4, <2>1, <2>2
  <2> QED
    BY <2>3, <2>4
<1>6. ASSUME HalvesApart(q), h.evs \cap EventsOf(q) = {} PROVE HalvesApart(p)
  <2>1. \A i \in DOMAIN q : h.evs \cap q[i].evs = {}
    BY <1>6 DEF EventsOf
  <2> SUFFICES ASSUME NEW i \in DOMAIN p, NEW j \in DOMAIN p, i # j
               PROVE  p[i].evs \cap p[j].evs = {}
    BY DEF HalvesApart
  <2>2. i \in Nat /\ j \in Nat
    BY <1>1, <1>2
  <2>3. CASE i = 1 \/ j = 1
    BY <1>1, <1>3, <2>1, <2>3
  <2>4. CASE i # 1 /\ j # 1
    BY <1>3, <1>6, <2>2, <2>4 DEF HalvesApart
  <2> QED
    BY <2>3, <2>4
<1> QED
  BY <1>5, <1>6

LEMMA PopHalf ==
  ASSUME NEW q \in Seq(Half), q # <<>>, HalvesApart(q)
  PROVE  /\ EventsOf(q) = Head(q).evs \cup EventsOf(Tail(q))
         /\ Head(q).evs \cap EventsOf(Tail(q)) = {}
         /\ HalvesApart(Tail(q))
<1> DEFINE p == Tail(q)
<1>1. /\ p \in Seq(Half) /\ Len(q) = Len(p) + 1 /\ Len(p) \in Nat
      /\ Head(q) = q[1] /\ \A i \in 1..Len(p) : q[i + 1] = p[i]
  BY SMTT(30)
<1>2. DOMAIN q = 1..(Len(p) + 1) /\ DOMAIN p = 1..Len(p)
  BY <1>1, LenProperties
<1> HIDE DEF p
<1>3. \A i \in DOMAIN q : i = 1 \/ (i - 1 \in DOMAIN p /\ q[i] = p[i - 1])
  BY <1>1, <1>2
<1>4. 1 \in DOMAIN q /\ \A i \in DOMAIN p : i + 1 \in DOMAIN q /\ q[i + 1] = p[i] /\ i + 1 # 1
  BY <1>1, <1>2
<1>5. EventsOf(q) = Head(q).evs \cup EventsOf(p)
  <2>1. \A e : e \in EventsOf(p) <=> \E i \in DOMAIN p : e \in p[i].evs
    BY DEF EventsOf
  <2>2. \A e : e \in EventsOf(q) <=> \E i \in DOMAIN q : e \in q[i].evs
    BY DEF EventsOf
  <2>3. \A e : e \in EventsOf(q) => e \in Head(q).evs \/ e \in EventsOf(p)
    BY <1>1, <1>3, <2>1, <2>2
  <2>4. \A e : e \in Head(q).evs \/ e \in EventsOf(p) => e \in EventsOf(q)
    BY <1>1, <1>4, <2>1, <2>2
  <2> QED
    BY <2>3, <2>4
<1>6. Head(q).evs \cap EventsOf(p) = {}
  BY <1>1, <1>4 DEF EventsOf, HalvesApart
<1>7. HalvesApart(p)
  BY <1>1, <1>2, <1>4 DEF HalvesApart
<1> QED
  BY <1>5, <1>6, <1>7 DEF p

(* Without a failing disk, parking rows does park them.                    *)
LEMMA ParkMoves ==
  ASSUME CleanEndEnv, TypeOK, overflow \subseteq Parked, NEW S \in SUBSET Events,
         WriteDlq(S) \/ HoldForDlq(S)
  PROVE  /\ Parked' = Parked \cup S /\ journaled' = journaled \cup S
         /\ overflow' \subseteq Parked'
<1>0. ~Fault("disk")
  BY DEF Fault, CleanEndEnv
<1>1. CASE WriteDlq(S)
  BY <1>1 DEF WriteDlq, Parked
<1>2. CASE HoldForDlq(S)
  <2>1. overflow' \subseteq overflow \cup S
    BY <1>2, TrimmedType DEF HoldForDlq, TypeOK
  <2>2. UNCHANGED dlq /\ holdover' = holdover \cup S /\ journaled' = journaled \cup S
    BY <1>0, <1>2 DEF HoldForDlq
  <2> QED
    BY <2>1, <2>2 DEF Parked
<1> QED
  BY <1>1, <1>2

(* A flush step moves events between the hands of the flush, or out of     *)
(* them.                                                                   *)
LEMMA FlushKept ==
  ASSUME ResendInv, TypeOK', pc # "idle", Apart', FlushShape', CleanReplay',
         Hands' \subseteq Hands, Parked' \subseteq Parked \cup Hands, Parked' \cap Hands' = {},
         UNCHANGED <<wal, wal1>>, journaled \cup Parked' \subseteq journaled',
         overflow' \subseteq Parked', pc' \in {"release", "unjournal"} => rows' \subseteq dlq',
         \/ ctl' = ctl
         \/ ctl = "stopFlush" /\ ctl' = "stopPersist"
         \/ ctl = "replayFlush" /\ ctl' = "replayPersist" /\ buffer' = {},
         ctl = "replayFlush" => Parked' = Parked
  PROVE  ResendInv'
<1>1. ctl \in Serving \cup {"replayFlush"}
  BY DEF ResendInv, FlushShape, Serving
<1>2. Parked' \cap (wal \cup wal1) = {}
  <2>1. CASE ctl = "replayFlush"
    BY <2>1 DEF ResendInv, ParkedApart
  <2>2. CASE ctl \in Serving
    <3>1. (wal \cup wal1) \cap Hands = {} /\ Parked \cap (wal \cup wal1) = {}
      BY <2>2 DEF ResendInv, ParkedApart, CleanLife
    <3> QED
      BY <3>1
  <2> QED
    BY <1>1, <2>1, <2>2
<1>3. ParkedApart'
  <2>1. Parked \cup wal \cup wal1 \subseteq journaled
    BY DEF ResendInv, ParkedApart
  <2> QED
    BY <1>2, <2>1 DEF ParkedApart
<1>4. ctl' \in Serving => (wal' \cup wal1') \cap Hands' = {}
  <2> SUFFICES ASSUME ctl' \in Serving PROVE (wal' \cup wal1') \cap Hands' = {}
    OBVIOUS
  <2>1. ctl \in Serving
    BY DEF Serving
  <2>2. (wal \cup wal1) \cap Hands = {}
    BY <2>1 DEF ResendInv, CleanLife
  <2> QED
    BY <2>2
<1>5. CleanLife'
  BY <1>1, <1>4 DEF CleanLife, Serving
<1> QED
  BY <1>3, <1>5 DEF ResendInv

(* A batch or half that is done with goes back to the buffer, on its way   *)
(* to the DLQ, or nowhere.                                                 *)
LEMMA SentKept ==
  ASSUME ResendInv, TypeOK', pc = "send", ctl # "replayFlush",
         pc' = "next" \/ (pc' = "quarantine" /\ rows' = cur /\ buffer' = buffer),
         buffer \subseteq buffer', buffer' \subseteq buffer \cup cur,
         UNCHANGED <<disk, overflow, ctl, stack, settle, journaled>>
  PROVE  ResendInv'
<1> USE DEF disk
<1>1. OnWire = cur /\ Doomed = {} /\ Answered = {}
  BY DEF ResendInv, FlushShape, OnWire, Doomed
<1>2. OnWire' = {} /\ Doomed' \subseteq cur /\ (buffer' = buffer \/ Doomed' = {})
  BY DEF OnWire, Doomed
<1>3. Answered' = {} /\ UNCHANGED <<EventsOf(stack), HalvesApart(stack), Parked, ctl, settle>>
  BY <1>1 DEF Answered, Parked
<1>4. settle'.terminal = {} /\ settle'.retry = {} /\ settle'.unknown = {}
  BY <1>3 DEF Answered
<1>5. cur \cap buffer = {} /\ EventsOf(stack) \cap (buffer \cup cur) = {} /\ HalvesApart(stack)
  BY <1>1 DEF ResendInv, Apart
<1>6. Doomed' \cap buffer' = {}
  BY <1>2, <1>5
<1>7. EventsOf(stack)' \cap (buffer' \cup Doomed') = {} /\ HalvesApart(stack)'
  BY <1>2, <1>3, <1>5
<1>8. Apart'
  BY <1>2, <1>3, <1>4, <1>6, <1>7 DEF Apart
<1>9. Hands' \subseteq Hands
  BY <1>1, <1>2, <1>3 DEF Hands
<1>10. FlushShape' /\ CleanReplay'
  BY <1>3 DEF ResendInv, FlushShape, CleanReplay
<1>11. Parked \cap Hands = {} /\ Parked \subseteq journaled /\ overflow \subseteq Parked
  BY DEF ResendInv, ParkedApart
<1>12. Parked' \cap Hands' = {}
  BY <1>3, <1>9, <1>11
<1> QED
  BY <1>3, <1>8, <1>9, <1>10, <1>11, <1>12, FlushKept

(* A step that leaves every hand of the flush alone                        *)
LEMMA HandsKept ==
  ASSUME ResendInv, TypeOK', pc # "idle", UNCHANGED <<buffer, stack, settle, ctl, wal, wal1, journaled>>,
         OnWire' = OnWire, Doomed' = Doomed, FlushShape', CleanReplay',
         Parked' = Parked, overflow' \subseteq Parked,
         pc' \in {"release", "unjournal"} => rows' \subseteq dlq'
  PROVE  ResendInv'
<1>1. UNCHANGED <<EventsOf(stack), HalvesApart(stack), Answered>>
  BY DEF Answered
<1>2. Hands' = Hands
  BY <1>1 DEF Hands
<1>3. Apart'
  BY <1>1 DEF ResendInv, Apart
<1>4. Parked \cap Hands = {} /\ Parked \subseteq journaled
  BY DEF ResendInv, ParkedApart
<1> QED
  BY <1>2, <1>3, <1>4, FlushKept

(* _retry_or_dlq of the batch that was sent                                *)
LEMMA RetryKept ==
  ASSUME ResendInv, TypeOK', pc = "send", ctl # "replayFlush", NEW dl, NEW parked,
         RetryOrDlq(cur, dl, "next", parked),
         UNCHANGED <<disk, overflow, ctl, stack, settle, journaled>>
  PROVE  ResendInv'
<1>1. \/ pc' = "quarantine" /\ rows' = cur /\ buffer' = buffer
      \/ pc' = "next" /\ buffer' = buffer \cup cur
  BY DEF RetryOrDlq
<1> QED
  BY <1>1, SentKept

(* _send_subbatches: the two halves have no event in common.               *)
LEMMA BisectKept ==
  ASSUME ResendInv, TypeOK', pc = "send", ctl # "replayFlush", NEW d \in Nat, NEW b,
         SendSubbatches(d, b),
         UNCHANGED <<disk, overflow, ctl, settle, journaled, buffer>>
  PROVE  ResendInv'
<1> USE DEF disk
<1>1. CASE d >= MaxDepth \/ b < 2
  <2>1. pc' = "quarantine" /\ rows' = cur /\ UNCHANGED stack
    BY <1>1 DEF SendSubbatches, Park
  <2> QED
    BY <2>1, SentKept
<1>2. CASE ~(d >= MaxDepth \/ b < 2)
  <2>1. PICK left \in SUBSET cur :
          /\ cur' = left
          /\ stack' = <<[evs |-> cur \ left, depth |-> d + 1]>> \o stack
          /\ UNCHANGED <<pc, rows, after>>
    BY <1>2 DEF SendSubbatches
  <2> DEFINE right == [evs |-> cur \ left, depth |-> d + 1]
  <2>2. right \in Half /\ right.evs = cur \ left /\ stack \in Seq(Half)
    BY DEF ResendInv, TypeOK, Half
  <2>3. stack' = <<right>> \o stack
    BY <2>1
  <2> HIDE DEF right
  <2>4. OnWire = cur /\ OnWire' = left /\ Doomed = {} /\ Doomed' = {} /\ Answered = {}
    BY <2>1 DEF ResendInv, FlushShape, OnWire, Doomed
  <2>5. HalvesApart(stack) /\ cur \cap buffer = {} /\ EventsOf(stack) \cap (buffer \cup cur) = {}
    BY <2>4 DEF ResendInv, Apart
  <2>6. EventsOf(stack)' = (cur \ left) \cup EventsOf(stack) /\ HalvesApart(stack)'
    <3>1. right.evs \cap EventsOf(stack) = {}
      BY <2>2, <2>5
    <3>2. EventsOf(stack') = right.evs \cup EventsOf(stack) /\ HalvesApart(stack')
      BY <2>2, <2>3, <2>5, <3>1, PushHalf
    <3> QED
      BY <2>2, <3>2 DEF EventsOf, HalvesApart
  <2>7. Answered' = {} /\ UNCHANGED <<Parked, buffer>>
    BY <2>4 DEF Answered, Parked
  <2>8. Apart'
    <3>1. settle'.terminal = {} /\ settle'.retry = {} /\ settle'.unknown = {}
      BY <2>7 DEF Answered
    <3>2. EventsOf(stack)' \cap (buffer' \cup OnWire') = {} /\ OnWire' \cap buffer' = {}
      BY <2>4, <2>5, <2>6, <2>7
    <3> QED
      BY <2>4, <2>6, <2>7, <3>1, <3>2 DEF Apart
  <2>9. Hands' \subseteq Hands
    BY <2>4, <2>6, <2>7 DEF Hands
  <2>10. FlushShape' /\ CleanReplay'
    BY <2>1, <2>7 DEF ResendInv, FlushShape, CleanReplay
  <2>11. Parked \cap Hands = {} /\ Parked \subseteq journaled /\ overflow \subseteq Parked
    BY DEF ResendInv, ParkedApart
  <2>12. Parked' \cap Hands' = {}
    BY <2>7, <2>9, <2>11
  <2> QED
    BY <2>1, <2>7, <2>8, <2>9, <2>10, <2>11, <2>12, FlushKept
<1> QED
  BY <1>1, <1>2

(* Every answer to a batch or half                                         *)
LEMMA SendResend ==
  ASSUME CleanEndEnv, ResendInv, TypeOK',
         \/ SendUnreachable \/ SendForbidden \/ SendUnauthorized \/ SendTimeout
         \/ SendRejected \/ SendRefused \/ SendOverrun \/ SendUnconfirmed \/ SendAnswered
  PROVE  ResendInv'
<1> USE DEF disk, life, history, sendUnchanged
<1>0. ctl = "replayFlush" => \A k \in EnvKinds : ~Fault(k)
  BY DEF Fault, CleanEndEnv
<1>1. CASE SendUnreachable
  <2>1. pc = "send" /\ pc' = "next" /\ UNCHANGED <<disk, overflow, ctl, stack, settle, journaled>>
        /\ ctl # "replayFlush"
    BY <1>0, <1>1 DEF SendUnreachable, EnvKinds, Answers
  <2>2. PICK kept \in SUBSET cur : buffer' = buffer \cup kept
    BY <1>1 DEF SendUnreachable, DropNewest
  <2> QED
    BY <2>1, <2>2, SentKept
<1>2. CASE SendForbidden
  <2>1. pc = "send" /\ pc' = "next" /\ UNCHANGED <<disk, overflow, ctl, stack, settle, journaled>>
        /\ ctl # "replayFlush" /\ buffer' = buffer \cup cur
    BY <1>0, <1>2 DEF SendForbidden, EnvKinds, Answers
  <2> QED
    BY <2>1, SentKept
<1>3. CASE SendUnauthorized
  <2>1. pc = "send" /\ UNCHANGED <<disk, overflow, ctl, stack, settle, journaled>>
        /\ ctl # "replayFlush"
    BY <1>0, <1>3 DEF SendUnauthorized, EnvKinds, Answers
  <2> QED
    BY <1>3, <2>1, RetryKept DEF SendUnauthorized
<1>4. CASE SendTimeout
  <2>1. pc = "send" /\ UNCHANGED <<disk, overflow, ctl, stack, settle, journaled>>
        /\ ctl # "replayFlush"
    BY <1>0, <1>4 DEF SendTimeout, EnvKinds, Answers
  <2> QED
    BY <1>4, <2>1, RetryKept DEF SendTimeout
<1>5. CASE SendRejected
  <2>1. pc = "send" /\ UNCHANGED <<disk, overflow, ctl, settle, journaled, buffer>>
        /\ ctl # "replayFlush"
    BY <1>0, <1>5 DEF SendRejected, EnvKinds, Answers
  <2>2. CASE Cardinality(cur) > 1
    BY <1>5, <2>1, <2>2, BisectKept DEF SendRejected, ResendInv, TypeOK
  <2>3. CASE ~(Cardinality(cur) > 1)
    BY <1>5, <2>1, <2>3, SentKept DEF SendRejected, Park
  <2> QED
    BY <2>2, <2>3
<1>6. CASE SendRefused
  <2>1. pc = "send" /\ UNCHANGED <<disk, overflow, ctl, settle, journaled, buffer>>
        /\ ctl # "replayFlush"
    BY <1>0, <1>6 DEF SendRefused, EnvKinds, Answers
  <2>2. CASE Cardinality(cur) > 1 /\ depth < MaxDepth /\ budget >= 2
    <3>1. depth + 1 \in Nat
      BY DEF ResendInv, TypeOK
    <3> QED
      BY <1>6, <2>1, <2>2, <3>1, BisectKept DEF SendRefused
  <2>3. CASE ~(Cardinality(cur) > 1 /\ depth < MaxDepth /\ budget >= 2)
    BY <1>6, <2>1, <2>3, SentKept DEF SendRefused, Park
  <2> QED
    BY <2>2, <2>3
<1>7. CASE SendOverrun
  <2>1. pc = "send" /\ pc' = "next" /\ UNCHANGED <<disk, overflow, ctl, stack, settle, journaled>>
        /\ ctl # "replayFlush"
    BY <1>0, <1>7 DEF SendOverrun, EnvKinds, Answers
  <2>2. PICK kept \in SUBSET cur : buffer' = buffer \cup kept
    BY <1>7 DEF SendOverrun
  <2> QED
    BY <2>1, <2>2, SentKept
<1>8. CASE SendUnconfirmed
  <2>1. pc = "send" /\ UNCHANGED <<disk, overflow, ctl, stack, settle, journaled>>
        /\ ctl # "replayFlush"
    BY <1>0, <1>8 DEF SendUnconfirmed, EnvKinds, Answers
  <2>2. CASE depth = 0
    BY <1>8, <2>1, <2>2, RetryKept DEF SendUnconfirmed
  <2>3. CASE depth # 0
    BY <1>8, <2>1, <2>3, SentKept DEF SendUnconfirmed
  <2> QED
    BY <2>2, <2>3
<1>9. CASE SendAnswered
  <2>1. pc = "send" /\ UNCHANGED <<disk, overflow, ctl, stack, journaled, rows, after>>
    BY <1>9 DEF SendAnswered
  <2>2. PICK acc \in SUBSET cur : \E t \in SUBSET (cur \ acc) :
          \E r \in SUBSET (cur \ (acc \cup t)) :
            /\ acc = cur \/ Fault("partial") \/ Fault("unknown")
            /\ IF depth = 0
               THEN /\ settle' = [terminal |-> t, retry |-> r,
                                  unknown |-> cur \ (acc \cup t \cup r), live |-> FALSE]
                    /\ pc' = "settle"
                    /\ UNCHANGED <<buffer, attempts>>
               ELSE HalfAnswered(t, r, cur \ (acc \cup t \cup r))
    BY <1>9, ZenonT(60) DEF SendAnswered
  <2>3. PICK t \in SUBSET (cur \ acc) :
          \E r \in SUBSET (cur \ (acc \cup t)) :
            IF depth = 0
               THEN /\ settle' = [terminal |-> t, retry |-> r,
                                  unknown |-> cur \ (acc \cup t \cup r), live |-> FALSE]
                    /\ pc' = "settle"
                    /\ UNCHANGED <<buffer, attempts>>
               ELSE HalfAnswered(t, r, cur \ (acc \cup t \cup r))
    BY <2>2, Zenon
  <2>4. PICK r \in SUBSET (cur \ (acc \cup t)) :
            IF depth = 0
               THEN /\ settle' = [terminal |-> t, retry |-> r,
                                  unknown |-> cur \ (acc \cup t \cup r), live |-> FALSE]
                    /\ pc' = "settle"
                    /\ UNCHANGED <<buffer, attempts>>
               ELSE HalfAnswered(t, r, cur \ (acc \cup t \cup r))
    BY <2>3, Zenon
  <2>5. ctl = "replayFlush" => acc = cur
    BY <1>0, <2>2 DEF EnvKinds, Answers
  <2> DEFINE u == cur \ (acc \cup t \cup r)
  <2>6. OnWire = cur /\ Doomed = {} /\ Answered = {} /\ OnWire' = {} /\ Doomed' = {}
        /\ pc' \in {"next", "settle"}
    BY <2>1, <2>4 DEF ResendInv, FlushShape, OnWire, Doomed, HalfAnswered
  <2>7. CASE depth = 0
    <3>1. settle'.terminal = t /\ settle'.retry = r /\ settle'.unknown = u
          /\ pc' = "settle" /\ buffer' = buffer
      BY <2>4, <2>7
    <3> HIDE DEF u
    <3>2. /\ t \cup r \cup u \subseteq cur /\ t \cap (r \cup u) = {} /\ r \cap u = {}
          /\ ctl = "replayFlush" => t \cup r \cup u = {}
      BY <2>5 DEF u
    <3>3. Answered' = t \cup r \cup u
      BY <3>1 DEF Answered
    <3>4. cur \cap buffer = {} /\ EventsOf(stack) \cap (buffer \cup cur) = {} /\ HalvesApart(stack)
      BY <2>6 DEF ResendInv, Apart
    <3>5. UNCHANGED <<EventsOf(stack), HalvesApart(stack), Parked>>
      BY <2>1 DEF Parked
    <3>6. Answered' \cap (buffer' \cup EventsOf(stack)') = {}
      BY <3>1, <3>2, <3>3, <3>4, <3>5
    <3>7. Apart'
      BY <2>6, <3>1, <3>2, <3>4, <3>5, <3>6 DEF Apart
    <3>8. Hands' \subseteq Hands
      BY <2>6, <3>1, <3>2, <3>3, <3>5 DEF Hands
    <3>9. FlushShape' /\ CleanReplay'
      BY <2>1, <3>1, <3>2, <3>3 DEF ResendInv, FlushShape, CleanReplay
    <3>10. Parked \cap Hands = {} /\ Parked \subseteq journaled /\ overflow \subseteq Parked
      BY DEF ResendInv, ParkedApart
    <3>11. Parked' \cap Hands' = {}
      BY <3>5, <3>8, <3>10
    <3> QED
      BY <2>1, <3>1, <3>5, <3>7, <3>8, <3>9, <3>10, <3>11, FlushKept
  <2>8. CASE depth # 0
    <3>1. pc' = "next" /\ UNCHANGED <<buffer, settle>>
      BY <2>4, <2>8 DEF HalfAnswered
    <3>2. CASE ctl = "replayFlush"
      <4>1. UNCHANGED <<EventsOf(stack), HalvesApart(stack), Parked, Answered>>
        BY <2>1, <3>1 DEF Parked, Answered
      <4>2. Apart'
        BY <2>6, <3>1, <4>1 DEF ResendInv, Apart
      <4>3. Hands' \subseteq Hands
        BY <2>6, <3>1, <4>1 DEF Hands
      <4>4. FlushShape' /\ CleanReplay'
        BY <2>1, <2>6, <3>1, <4>1 DEF ResendInv, FlushShape, CleanReplay
      <4>5. Parked \cap Hands = {} /\ Parked \subseteq journaled /\ overflow \subseteq Parked
        BY DEF ResendInv, ParkedApart
      <4>6. Parked' \cap Hands' = {}
        BY <4>1, <4>3, <4>5
      <4> QED
        BY <2>1, <3>1, <4>1, <4>2, <4>3, <4>4, <4>5, <4>6, FlushKept
    <3>3. CASE ctl # "replayFlush"
      BY <2>1, <3>1, <3>3, SentKept
    <3> QED
      BY <3>2, <3>3
  <2> QED
    BY <2>7, <2>8
<1> QED
  BY <1>1, <1>2, <1>3, <1>4, <1>5, <1>6, <1>7, <1>8, <1>9

(* The end of a flush                                                      *)
LEMMA ReturnKept ==
  ASSUME ResendInv, TypeOK', FlushReturn, pc \in {"take", "next"}, stack = <<>>,
         pc = "take" => buffer = {},
         UNCHANGED <<disk, overflow, stack, settle, journaled, buffer>>
  PROVE  ResendInv'
<1> USE DEF disk
<1>1. pc' = "idle" /\ OnWire = {} /\ Doomed = {} /\ OnWire' = {} /\ Doomed' = {} /\ Answered = {}
  BY DEF FlushReturn, ResendInv, FlushShape, OnWire, Doomed
<1>2. UNCHANGED <<EventsOf(stack), HalvesApart(stack), Parked, Answered>>
  BY DEF Parked, Answered
<1>3. Hands' = Hands
  BY <1>1, <1>2 DEF Hands
<1>4. Apart'
  BY <1>1, <1>2 DEF ResendInv, Apart
<1>5. ctl \in {"running", "stopJoin", "stopFlush", "replayFlush"}
  BY DEF ResendInv, FlushShape
<1>6. \/ ctl' = ctl /\ ctl # "replayFlush"
      \/ ctl = "stopFlush" /\ ctl' = "stopPersist"
      \/ ctl = "replayFlush" /\ ctl' = "replayPersist" /\ buffer' = {}
  BY <1>5 DEF FlushReturn, ResendInv, CleanReplay
<1>7. FlushShape' /\ CleanReplay'
  BY <1>1, <1>2, <1>6 DEF ResendInv, FlushShape, CleanReplay
<1>8. Parked \cap Hands = {} /\ Parked \subseteq journaled /\ overflow \subseteq Parked
  BY DEF ResendInv, ParkedApart
<1>9. pc # "idle" /\ (pc' \in {"release", "unjournal"} => rows' \subseteq dlq')
  BY <1>1
<1> QED
  BY <1>2, <1>3, <1>4, <1>6, <1>7, <1>8, <1>9, FlushKept

(* The steps of a flush other than an answer                               *)
LEMMA FlushResend ==
  ASSUME CleanEndEnv, ResendInv, TypeOK', FlushStep
  PROVE  ResendInv'
<1> USE DEF disk, life, history
<1>0. ~Fault("disk")
  BY DEF Fault, CleanEndEnv
<1>p. Parked \cap Hands = {} /\ Parked \subseteq journaled /\ overflow \subseteq Parked
  BY DEF ResendInv, ParkedApart
<1>1. CASE DrainDlqOverflow
  <2>1. /\ pc = "drain" /\ pc' \in {"release", "take"}
        /\ UNCHANGED <<buffer, stack, settle, ctl, wal, wal1, journaled>>
    BY <1>1 DEF DrainDlqOverflow
  <2>2. /\ Parked' = Parked /\ overflow' \subseteq Parked
        /\ pc' \in {"release", "unjournal"} => rows' \subseteq dlq'
    BY <1>1, <1>p DEF DrainDlqOverflow, Parked
  <2>3. OnWire' = OnWire /\ Doomed' = Doomed /\ Answered' = Answered
    BY <2>1 DEF OnWire, Doomed, Answered
  <2>4. FlushShape' /\ CleanReplay'
    BY <2>1, <2>3 DEF ResendInv, FlushShape, CleanReplay
  <2> QED
    BY <2>1, <2>2, <2>3, <2>4, HandsKept
<1>2. CASE ReleaseHoldover
  <2>1. /\ pc = "release" /\ pc' = "take" /\ holdover' = holdover \ rows
        /\ UNCHANGED <<buffer, stack, settle, ctl, wal, wal1, journaled, dlq, overflow>>
    BY <1>0, <1>2 DEF ReleaseHoldover
  <2>2. Parked' = Parked
    BY <2>1 DEF Parked, ResendInv, ParkedApart
  <2>3. OnWire' = OnWire /\ Doomed' = Doomed /\ Answered' = Answered
    BY <2>1 DEF OnWire, Doomed, Answered
  <2>4. FlushShape' /\ CleanReplay'
    BY <2>1, <2>3 DEF ResendInv, FlushShape, CleanReplay
  <2> QED
    BY <1>p, <2>1, <2>2, <2>3, <2>4, HandsKept
<1>3. CASE TakeBatch
  <2>0. stack = <<>>
    BY <1>3 DEF TakeBatch, ResendInv, FlushShape
  <2>1. CASE buffer = {}
    BY <1>3, <2>0, <2>1, ReturnKept DEF TakeBatch
  <2>2. CASE buffer # {}
    <3>1. /\ pc = "take" /\ pc' = "journal" /\ cur' = buffer /\ buffer' = {}
          /\ UNCHANGED <<disk, overflow, stack, settle, ctl, journaled>>
      BY <1>3, <2>2 DEF TakeBatch
    <3>2. OnWire = {} /\ OnWire' = buffer /\ Doomed = {} /\ Doomed' = {} /\ Answered = {}
      BY <3>1 DEF OnWire, Doomed, ResendInv, FlushShape
    <3>3. UNCHANGED <<EventsOf(stack), HalvesApart(stack), Parked, Answered>>
      BY <3>1 DEF Parked, Answered
    <3>4. Hands' = Hands
      BY <3>1, <3>2, <3>3 DEF Hands
    <3>5. Apart'
      BY <3>1, <3>2, <3>3 DEF ResendInv, Apart
    <3>6. FlushShape' /\ CleanReplay'
      BY <2>0, <3>1, <3>2, <3>3 DEF ResendInv, FlushShape, CleanReplay
    <3> QED
      BY <1>p, <3>1, <3>3, <3>4, <3>5, <3>6, FlushKept
  <2> QED
    BY <2>1, <2>2
<1>4. CASE PersistInflight
  <2>1. /\ pc = "journal" /\ pc' = "send" /\ journaled' = journaled \cup cur
        /\ UNCHANGED <<wal, wal1, dlq, holdover, buffer, overflow, ctl, cur, stack, settle, rows>>
    BY <1>0, <1>4 DEF PersistInflight
  <2>2. OnWire' = OnWire /\ Doomed' = Doomed
    BY <2>1 DEF OnWire, Doomed
  <2>3. UNCHANGED <<EventsOf(stack), HalvesApart(stack), Parked, Answered>>
    BY <2>1 DEF Parked, Answered
  <2>4. Hands' = Hands
    BY <2>1, <2>2, <2>3 DEF Hands
  <2>5. Apart'
    BY <2>1, <2>2, <2>3 DEF ResendInv, Apart
  <2>6. FlushShape' /\ CleanReplay'
    BY <2>1, <2>3 DEF ResendInv, FlushShape, CleanReplay
  <2> QED
    BY <1>p, <2>1, <2>3, <2>4, <2>5, <2>6, FlushKept
<1>5. CASE \/ SendUnreachable \/ SendForbidden \/ SendUnauthorized \/ SendTimeout
           \/ SendRejected \/ SendRefused \/ SendOverrun \/ SendUnconfirmed \/ SendAnswered
  BY <1>5, SendResend
<1>6. CASE SettleTerminal
  <2>1. PICK e \in settle.terminal :
          /\ WriteDlq({e}) \/ HoldForDlq({e})
          /\ \/ settle' = [settle EXCEPT !.terminal = @ \ {e}]
             \/ settle' = [settle EXCEPT !.terminal = @ \ {e}, !.live = TRUE]
    BY <1>6 DEF SettleTerminal
  <2>2. /\ pc = "settle" /\ UNCHANGED <<wal, wal1, buffer, ctl, pc, stack, rows, after>>
    BY <1>6 DEF SettleTerminal
  <2>3. /\ settle'.terminal = settle.terminal \ {e} /\ settle'.retry = settle.retry
        /\ settle'.unknown = settle.unknown
    <3>1. settle \in Settlement
      BY DEF ResendInv, TypeOK
    <3> QED
      BY <2>1, <3>1 DEF Settlement
  <2>4. {e} \in SUBSET Events
    BY <2>1 DEF ResendInv, TypeOK, Settlement
  <2>5. Parked' = Parked \cup {e} /\ journaled' = journaled \cup {e} /\ overflow' \subseteq Parked'
    BY <1>p, <2>1, <2>4, ParkMoves DEF ResendInv
  <2>6. OnWire = {} /\ OnWire' = {} /\ Doomed = {} /\ Doomed' = {}
    BY <2>2 DEF OnWire, Doomed
  <2>7. Answered' = Answered \ {e} /\ e \in Answered
    BY <2>1, <2>3 DEF Answered, ResendInv, Apart
  <2>8. UNCHANGED <<EventsOf(stack), HalvesApart(stack)>>
    BY <2>2
  <2>9. Apart'
    BY <2>2, <2>3, <2>6, <2>7, <2>8 DEF ResendInv, Apart
  <2>10. Hands' \subseteq Hands /\ e \in Hands /\ e \notin Hands'
    <3>1. e \notin buffer /\ e \notin EventsOf(stack)
      BY <2>7 DEF ResendInv, Apart
    <3> QED
      BY <2>2, <2>6, <2>7, <2>8, <3>1 DEF Hands
  <2>11. ctl # "replayFlush"
    BY <2>7 DEF ResendInv, CleanReplay
  <2>12. FlushShape' /\ CleanReplay'
    BY <2>2, <2>11 DEF ResendInv, FlushShape, CleanReplay
  <2>13. Parked' \cap Hands' = {}
    BY <1>p, <2>5, <2>10
  <2> QED
    BY <1>p, <2>2, <2>5, <2>9, <2>10, <2>11, <2>12, <2>13, FlushKept
<1>7. CASE SettleUnknown
  <2>1. PICK e \in settle.unknown :
          /\ RetryOrDlq({e}, TRUE, "settle", "settle")
          /\ settle' = [settle EXCEPT !.unknown = @ \ {e}, !.live = @ \/ ~Exhausted({e})]
    BY <1>7 DEF SettleUnknown
  <2>2. /\ pc = "settle" /\ UNCHANGED <<disk, overflow, ctl, stack, journaled>>
    BY <1>7 DEF SettleUnknown
  <2>3. /\ settle'.terminal = settle.terminal /\ settle'.retry = settle.retry
        /\ settle'.unknown = settle.unknown \ {e}
    <3>1. settle \in Settlement
      BY DEF ResendInv, TypeOK
    <3> QED
      BY <2>1, <3>1 DEF Settlement
  <2>4. \/ rows' = {e} /\ after' = "settle" /\ pc' = "quarantine" /\ buffer' = buffer
        \/ buffer' = buffer \cup {e} /\ pc' = "settle"
    BY <2>1 DEF RetryOrDlq
  <2>5. /\ OnWire = {} /\ OnWire' = {} /\ Doomed = {}
        /\ Doomed' \cup buffer' = buffer \cup {e} /\ (Doomed' = {e} \/ Doomed' = {})
        /\ Doomed' = {e} => buffer' = buffer
    BY <2>2, <2>4 DEF OnWire, Doomed
  <2>6. Answered' = Answered \ {e} /\ e \in Answered
    BY <2>1, <2>3 DEF Answered, ResendInv, Apart
  <2>7. UNCHANGED <<EventsOf(stack), HalvesApart(stack), Parked>>
    BY <2>2 DEF Parked
  <2>8. e \notin buffer /\ e \notin EventsOf(stack)
    BY <2>6 DEF ResendInv, Apart
  <2>9. Apart'
    <3>1. /\ HalvesApart(stack) /\ EventsOf(stack) \cap buffer = {}
          /\ Answered \cap (buffer \cup EventsOf(stack)) = {}
          /\ settle.terminal \cap (settle.retry \cup settle.unknown) = {}
          /\ settle.retry \cap settle.unknown = {}
      BY DEF ResendInv, Apart
    <3>2. Doomed' \cap (buffer' \cup EventsOf(stack)' \cup Answered') = {}
      BY <2>5, <2>6, <2>7, <2>8
    <3>3. EventsOf(stack)' \cap buffer' = {} /\ Answered' \cap (buffer' \cup EventsOf(stack)') = {}
      BY <2>5, <2>6, <2>7, <2>8, <3>1
    <3> QED
      BY <2>3, <2>5, <2>7, <3>1, <3>2, <3>3 DEF Apart
  <2>10. Hands' \subseteq Hands
    BY <2>5, <2>6, <2>7 DEF Hands
  <2>11. ctl # "replayFlush"
    BY <2>6 DEF ResendInv, CleanReplay
  <2>12. FlushShape' /\ CleanReplay'
    BY <2>2, <2>4, <2>11 DEF ResendInv, FlushShape, CleanReplay
  <2>13. Parked' \cap Hands' = {} /\ pc' \notin {"release", "unjournal"}
    BY <1>p, <2>4, <2>7, <2>10
  <2> QED
    BY <1>p, <2>2, <2>7, <2>9, <2>10, <2>11, <2>12, <2>13, FlushKept
<1>8. CASE SettleEnd
  <2>1. /\ pc = "settle" /\ pc' = "next" /\ settle' = NoSettle
        /\ settle.terminal = {} /\ settle.unknown = {} /\ buffer' = buffer \cup settle.retry
        /\ UNCHANGED <<wal, wal1, dlq, holdover, overflow, ctl, stack, journaled>>
    BY <1>8 DEF SettleEnd
  <2>2. /\ OnWire = {} /\ OnWire' = {} /\ Doomed = {} /\ Doomed' = {}
        /\ Answered = settle.retry /\ Answered' = {}
        /\ settle'.terminal = {} /\ settle'.retry = {} /\ settle'.unknown = {}
    BY <2>1 DEF OnWire, Doomed, Answered, NoSettle
  <2>3. UNCHANGED <<EventsOf(stack), HalvesApart(stack), Parked>>
    BY <2>1 DEF Parked
  <2>4. Apart'
    BY <2>1, <2>2, <2>3 DEF ResendInv, Apart
  <2>5. Hands' \subseteq Hands
    BY <2>1, <2>2, <2>3 DEF Hands
  <2>6. FlushShape' /\ CleanReplay'
    BY <2>1, <2>2 DEF ResendInv, FlushShape, CleanReplay
  <2>7. Parked' \cap Hands' = {}
    BY <1>p, <2>3, <2>5
  <2> QED
    BY <1>p, <2>1, <2>3, <2>4, <2>5, <2>6, <2>7, FlushKept
<1>9. CASE Quarantine
  <2>1. /\ pc = "quarantine" /\ (WriteDlq(rows) \/ HoldForDlq(rows))
        /\ UNCHANGED <<wal, wal1, buffer, ctl, stack, settle, after>>
        /\ pc' = "unjournal" \/ pc' = after
    BY <1>9 DEF Quarantine
  <2>2. rows \in SUBSET Events /\ after \in {"next", "settle"}
    BY DEF ResendInv, TypeOK
  <2>3. Parked' = Parked \cup rows /\ journaled' = journaled \cup rows /\ overflow' \subseteq Parked'
    BY <1>p, <2>1, <2>2, ParkMoves DEF ResendInv
  <2>4. pc' \in {"release", "unjournal"} => rows' \subseteq dlq'
    BY <1>9, <2>2 DEF Quarantine, WriteDlq
  <2>5. OnWire = {} /\ OnWire' = {} /\ Doomed = rows /\ Doomed' = {} /\ Answered' = Answered
    BY <2>1, <2>2 DEF OnWire, Doomed, Answered
  <2>6. UNCHANGED <<EventsOf(stack), HalvesApart(stack)>>
    BY <2>1
  <2>7. Apart'
    BY <2>1, <2>5, <2>6 DEF ResendInv, Apart
  <2>8. Hands' \subseteq Hands /\ rows \subseteq Hands /\ rows \cap Hands' = {}
    <3>1. rows \cap (buffer \cup EventsOf(stack) \cup Answered) = {}
      BY <2>5 DEF ResendInv, Apart
    <3> QED
      BY <2>1, <2>5, <2>6, <3>1 DEF Hands
  <2>9. ctl # "replayFlush"
    BY <2>1 DEF ResendInv, CleanReplay
  <2>10. FlushShape' /\ CleanReplay'
    BY <2>1, <2>2, <2>5, <2>9 DEF ResendInv, FlushShape, CleanReplay
  <2>11. Parked' \cap Hands' = {} /\ Parked' \subseteq Parked \cup Hands
         /\ journaled \cup Parked' \subseteq journaled'
    BY <1>p, <2>3, <2>8
  <2> QED
    BY <2>1, <2>3, <2>4, <2>7, <2>8, <2>9, <2>10, <2>11, FlushKept
<1>10. CASE QuarantineClear
  <2>1. /\ pc = "unjournal" /\ pc' = after
        /\ UNCHANGED <<wal, wal1, dlq, holdover, overflow, buffer, ctl, stack, settle, after, journaled>>
    BY <1>10 DEF QuarantineClear
  <2>2. after \in {"next", "settle"}
    BY DEF ResendInv, TypeOK
  <2>3. OnWire' = OnWire /\ Doomed' = Doomed /\ Answered' = Answered /\ Parked' = Parked
    BY <2>1, <2>2 DEF OnWire, Doomed, Answered, Parked
  <2>4. ctl # "replayFlush"
    BY <2>1 DEF ResendInv, CleanReplay
  <2>5. FlushShape' /\ CleanReplay'
    BY <2>1, <2>2, <2>3, <2>4 DEF ResendInv, FlushShape, CleanReplay
  <2>6. pc' \notin {"release", "unjournal"}
    BY <2>1, <2>2
  <2> QED
    BY <1>p, <2>1, <2>3, <2>5, <2>6, HandsKept
<1>11. CASE NextHalf
  <2>1. CASE stack = <<>>
    BY <1>11, <2>1, ReturnKept DEF NextHalf
  <2>2. CASE stack # <<>>
    <3>1. /\ pc = "next" /\ pc' = "send" /\ cur' = Head(stack).evs /\ stack' = Tail(stack)
          /\ UNCHANGED <<disk, overflow, ctl, buffer, settle, journaled>>
      BY <1>11, <2>2 DEF NextHalf
    <3>2. stack \in Seq(Half) /\ HalvesApart(stack)
      BY DEF ResendInv, TypeOK, Apart
    <3> DEFINE h == Head(stack).evs
    <3>3. EventsOf(stack) = h \cup EventsOf(Tail(stack)) /\ h \cap EventsOf(Tail(stack)) = {}
          /\ HalvesApart(Tail(stack))
      BY <2>2, <3>2, PopHalf
    <3>4. EventsOf(stack)' = EventsOf(Tail(stack)) /\ HalvesApart(stack)'
      BY <3>1, <3>3
    <3>5. OnWire = {} /\ OnWire' = h /\ Doomed = {} /\ Doomed' = {} /\ Answered = {}
      BY <3>1 DEF OnWire, Doomed, ResendInv, FlushShape
    <3> HIDE DEF h
    <3>6. UNCHANGED <<Answered, Parked>>
      BY <3>1 DEF Answered, Parked
    <3>7. EventsOf(stack) \cap buffer = {}
      BY DEF ResendInv, Apart
    <3>8. Apart'
      <4>1. settle'.terminal = {} /\ settle'.retry = {} /\ settle'.unknown = {}
        BY <3>5, <3>6 DEF Answered
      <4>2. OnWire' \cap buffer' = {} /\ EventsOf(stack)' \cap (buffer' \cup OnWire') = {}
        BY <3>1, <3>3, <3>4, <3>5, <3>7
      <4> QED
        BY <3>4, <3>5, <3>6, <4>1, <4>2 DEF Apart
    <3>9. Hands' \subseteq Hands
      BY <3>1, <3>3, <3>4, <3>5, <3>6 DEF Hands
    <3>10. ctl # "replayFlush"
      BY <2>2 DEF ResendInv, CleanReplay
    <3>11. FlushShape' /\ CleanReplay'
      BY <3>1, <3>5, <3>6, <3>10 DEF ResendInv, FlushShape, CleanReplay
    <3>12. Parked' \cap Hands' = {}
      BY <1>p, <3>6, <3>9
    <3> QED
      BY <1>p, <3>1, <3>6, <3>8, <3>9, <3>10, <3>11, <3>12, FlushKept
  <2> QED
    BY <2>1, <2>2
<1> QED
  BY <1>1, <1>2, <1>3, <1>4, <1>5, <1>6, <1>7, <1>8, <1>9, <1>10, <1>11 DEF FlushStep

(* While no flush holds the lock, every event in hand is in the buffer.    *)
LEMMA IdleHands ==
  ASSUME OnWire = {}, Doomed = {}, Answered = {}, stack = <<>>
  PROVE  Hands = buffer /\ Apart
<1>1. EventsOf(stack) = {} /\ HalvesApart(stack)
  BY DEF EventsOf, HalvesApart
<1>2. settle.terminal = {} /\ settle.retry = {} /\ settle.unknown = {}
  BY DEF Answered
<1> QED
  BY <1>1, <1>2 DEF Hands, Apart

(* Steps of the application, of start() and of stop() while no flush runs  *)
LEMMA IdleKept ==
  ASSUME ResendInv, TypeOK', pc = "idle", pc' \in {"idle", "drain"},
         UNCHANGED <<stack, dlq, holdover>>, settle' = settle \/ settle' = NoSettle,
         Parked \cap (buffer' \cup wal' \cup wal1') = {},
         wal' \cup wal1' \cup journaled \subseteq journaled', overflow' \subseteq Parked,
         pc' = "idle" \/ ctl' \in Serving \cup {"replayFlush"},
         ctl' \in Serving => (wal' \cup wal1') \cap buffer' = {},
         ctl' \in {"down", "stopDone"} => inflight' = {},
         ctl' \in {"down", "replayPersist", "replayRemove", "recover"} => buffer' = {},
         ctl' # "replayWrite"
  PROVE  ResendInv'
<1>1. Answered = {} /\ stack = <<>>
  BY DEF ResendInv, FlushShape
<1>2. OnWire' = {} /\ Doomed' = {} /\ Answered' = {} /\ stack' = <<>> /\ Parked' = Parked
  BY <1>1 DEF OnWire, Doomed, Answered, NoSettle, Parked
<1>3. Hands' = buffer' /\ Apart'
  <2>1. EventsOf(stack)' = {} /\ HalvesApart(stack)'
    BY <1>2 DEF EventsOf, HalvesApart
  <2>2. settle'.terminal = {} /\ settle'.retry = {} /\ settle'.unknown = {}
    BY <1>2 DEF Answered
  <2> QED
    BY <1>2, <2>1, <2>2 DEF Hands, Apart
<1>4. Parked \subseteq journaled
  BY DEF ResendInv, ParkedApart
<1>5. ParkedApart'
  BY <1>2, <1>3, <1>4 DEF ParkedApart
<1>6. FlushShape'
  BY <1>2 DEF FlushShape, Serving
<1>7. CleanLife' /\ CleanReplay'
  BY <1>2, <1>3 DEF CleanLife, CleanReplay
<1> QED
  BY <1>3, <1>5, <1>6, <1>7 DEF ResendInv

(* Every other step                                                        *)
LEMMA LifeResend ==
  ASSUME CleanEndEnv, ResendInv, TypeOK',
         \/ \E e \in Events : Track(e)
         \/ Tick \/ StartStep \/ StopStep \/ Crash
  PROVE  ResendInv'
<1> USE DEF disk, life, flush, history
<1>0. ~Fault("disk") /\ ~Fault("crash") /\ "late" \notin Env
  BY DEF Fault, CleanEndEnv
<1>p. /\ Parked \cap (buffer \cup wal \cup wal1) = {}
      /\ Parked \cup wal \cup wal1 \subseteq journaled /\ overflow \subseteq Parked
  BY DEF ResendInv, ParkedApart, Hands
<1>s. ctl \in Serving => (wal \cup wal1) \cap buffer = {}
  BY DEF ResendInv, CleanLife, Hands
<1>i. ctl \notin Serving \cup {"replayFlush"} => pc = "idle"
  BY DEF ResendInv, FlushShape, Serving
<1>l. /\ ctl \in {"down", "stopDone"} => inflight = {}
      /\ ctl \in {"down", "replayPersist", "replayRemove", "recover"} => buffer = {}
      /\ ctl # "replayWrite"
  BY DEF ResendInv, CleanLife
<1>1. ASSUME NEW e \in Events, Track(e) PROVE ResendInv'
  <2>1. /\ pc = "idle" /\ pc' \in {"idle", "drain"} /\ ctl = "running" /\ ctl' = ctl
        /\ UNCHANGED <<stack, dlq, holdover, settle, wal, wal1, overflow, journaled>>
        /\ buffer' = buffer \cup {e} /\ e \notin journaled
    BY <1>0, <1>1 DEF Track
  <2>2. Parked \cap (buffer' \cup wal' \cup wal1') = {} /\ (wal' \cup wal1') \cap buffer' = {}
    BY <1>p, <1>s, <2>1 DEF Serving
  <2>3. ctl' \in Serving
    BY <2>1 DEF Serving
  <2>4. ctl' \notin {"down", "stopDone", "replayPersist", "replayRemove", "recover", "replayWrite"}
    BY <2>1
  <2>5. wal' \cup wal1' \cup journaled \subseteq journaled' /\ overflow' \subseteq Parked
    BY <1>p, <2>1
  <2> QED
    BY <2>1, <2>2, <2>3, <2>4, <2>5, IdleKept
<1>2. CASE Tick
  <2>1. /\ pc = "idle" /\ pc' = "drain" /\ ctl = "running"
        /\ UNCHANGED <<stack, dlq, holdover, settle, wal, wal1, overflow, journaled, buffer, ctl>>
    BY <1>2 DEF Tick, BeginFlush
  <2> QED
    BY <1>p, <1>s, <2>1, IdleKept DEF Serving
<1>3. CASE Start
  <2>0. ctl = "down" /\ inflight = {} /\ buffer = {} /\ pc = "idle"
    BY <1>3, <1>l, <1>i DEF Start, Serving
  <2>1. /\ UNCHANGED <<stack, dlq, holdover, settle, wal, wal1, overflow, journaled, inflight>>
        /\ \/ ctl' = "recover" /\ pc' = "idle" /\ buffer' = {}
           \/ ctl' = "replayFlush" /\ pc' = "drain" /\ buffer' = wal \cup wal1
    BY <1>3, <2>0 DEF Start
  <2>2. Parked \cap (buffer' \cup wal' \cup wal1') = {}
    BY <1>p, <2>1
  <2> QED
    BY <1>p, <2>0, <2>1, <2>2, IdleKept DEF Serving
<1>4. CASE ReplayPersist
  <2>1. /\ pc = "idle" /\ buffer = {} /\ ctl' = "replayRemove"
        /\ UNCHANGED <<pc, stack, dlq, holdover, settle, wal, wal1, overflow, journaled, buffer>>
    BY <1>4, <1>i, <1>l DEF ReplayPersist, PersistBegin, memory, Serving
  <2> QED
    BY <1>p, <2>1, IdleKept DEF Serving
<1>5. CASE ReplayWrite
  BY <1>5, <1>l DEF ReplayWrite
<1>6. CASE ReplayRemove
  <2>1. /\ pc = "idle" /\ buffer = {} /\ ctl' \in {"replayRemove", "recover"}
        /\ UNCHANGED <<pc, stack, dlq, holdover, settle, overflow, journaled, buffer>>
    BY <1>6, <1>i, <1>l DEF ReplayRemove, memory, Serving
  <2>2. wal' \subseteq wal /\ wal1' \subseteq wal1
    BY <1>6 DEF ReplayRemove
  <2>3. Parked \cap (buffer' \cup wal' \cup wal1') = {} /\ wal' \cup wal1' \cup journaled \subseteq journaled'
    BY <1>p, <2>1, <2>2
  <2> QED
    BY <1>p, <2>1, <2>3, IdleKept DEF Serving
<1>7. CASE RecoverHoldover
  <2>1. /\ pc = "idle" /\ buffer = {} /\ ctl' = "running"
        /\ UNCHANGED <<pc, stack, dlq, holdover, settle, wal, wal1, journaled, buffer>>
    BY <1>7, <1>i, <1>l DEF RecoverHoldover, Serving
  <2>2. overflow' \subseteq Parked
    BY <1>7, <1>p, TrimmedType DEF RecoverHoldover, Parked, ResendInv, TypeOK
  <2> QED
    BY <1>p, <2>1, <2>2, IdleKept DEF Serving
<1>8. CASE StopCall
  <2>1. /\ ctl = "running" /\ ctl' = "stopJoin"
        /\ UNCHANGED <<pc, cur, stack, settle, rows, after, buffer, overflow, disk, journaled>>
    BY <1>8 DEF StopCall, memory
  <2>2. UNCHANGED <<OnWire, Doomed, Answered, Parked, EventsOf(stack), HalvesApart(stack)>>
    BY <2>1 DEF OnWire, Doomed, Answered, Parked
  <2>3. UNCHANGED Hands
    BY <2>1, <2>2 DEF Hands
  <2>4. Apart' /\ ParkedApart'
    BY <2>1, <2>2, <2>3 DEF ResendInv, Apart, ParkedApart
  <2>5. FlushShape' /\ CleanLife' /\ CleanReplay'
    BY <2>1, <2>2, <2>3 DEF ResendInv, FlushShape, CleanLife, CleanReplay, Serving
  <2> QED
    BY <2>4, <2>5 DEF ResendInv
<1>9. CASE StopFlush
  <2>1. /\ pc = "idle" /\ pc' = "drain" /\ ctl = "stopJoin" /\ ctl' = "stopFlush"
        /\ UNCHANGED <<stack, dlq, holdover, settle, wal, wal1, overflow, journaled, buffer>>
    BY <1>9 DEF StopFlush, BeginFlush
  <2> QED
    BY <1>p, <1>s, <2>1, IdleKept DEF Serving
<1>10. CASE StopPersist
  <2>1. /\ pc = "idle" /\ ctl' \in {"stopWrite", "stopClear"}
        /\ UNCHANGED <<pc, stack, dlq, holdover, settle, overflow, journaled, buffer>>
    BY <1>10, <1>i DEF StopPersist, PersistBegin, memory, Serving
  <2>2. wal' \cup wal1' \subseteq wal \cup wal1
    BY <1>10 DEF StopPersist, PersistBegin, RotateWal
  <2>3. Parked \cap (buffer' \cup wal' \cup wal1') = {} /\ wal' \cup wal1' \cup journaled \subseteq journaled'
    BY <1>p, <2>1, <2>2
  <2> QED
    BY <1>p, <2>1, <2>3, IdleKept DEF Serving
<1>11. CASE StopWrite
  <2>1. /\ pc = "idle" /\ ctl' = "stopTrunc" /\ wal' = buffer /\ journaled' = journaled \cup buffer
        /\ UNCHANGED <<pc, stack, dlq, holdover, settle, overflow, buffer, wal1>>
    BY <1>0, <1>11, <1>i DEF StopWrite, WriteWal, memory, Serving
  <2>2. Parked \cap (buffer' \cup wal' \cup wal1') = {} /\ wal' \cup wal1' \cup journaled \subseteq journaled'
    BY <1>p, <2>1
  <2> QED
    BY <1>p, <2>1, <2>2, IdleKept DEF Serving
<1>12. CASE StopTruncate
  <2>1. /\ pc = "idle" /\ ctl' = "stopClear" /\ buffer' = {}
        /\ UNCHANGED <<pc, stack, dlq, holdover, settle, overflow, journaled, wal, wal1>>
    BY <1>12, <1>i DEF StopTruncate, Serving
  <2>2. Parked \cap (buffer' \cup wal' \cup wal1') = {}
    BY <1>p, <2>1
  <2> QED
    BY <1>p, <2>1, <2>2, IdleKept DEF Serving
<1>13. CASE StopClear
  <2>1. /\ pc = "idle" /\ ctl' = "stopDone" /\ inflight' = {}
        /\ UNCHANGED <<pc, stack, dlq, holdover, settle, overflow, journaled, wal, wal1, buffer>>
    BY <1>0, <1>13, <1>i DEF StopClear, memory, Serving
  <2> QED
    BY <1>p, <2>1, IdleKept DEF Serving
<1>14. CASE Exit
  <2>1. /\ pc = "idle" /\ inflight = {} /\ ctl' = "down" /\ buffer' = {} /\ overflow' = {}
        /\ pc' = "idle" /\ settle' = NoSettle /\ stack' = <<>>
        /\ UNCHANGED <<dlq, holdover, journaled, wal, wal1, inflight>>
    BY <1>14, <1>i, <1>l DEF Exit, Die, Serving
  <2>2. stack = <<>>
    BY <2>1 DEF ResendInv, FlushShape
  <2>3. Parked \cap (buffer' \cup wal' \cup wal1') = {}
    BY <1>p, <2>1
  <2> QED
    BY <1>p, <2>1, <2>2, <2>3, IdleKept DEF Serving
<1>15. CASE Crash
  BY <1>0, <1>15 DEF Crash
<1> QED
  BY <1>1, <1>2, <1>3, <1>4, <1>5, <1>6, <1>7, <1>8, <1>9, <1>10, <1>11, <1>12, <1>13, <1>14,
     <1>15 DEF StartStep, StopStep

(* A parked event, held or dead-lettered, is never on the wire again,      *)
(* whatever the answers, the bisections, the retries, the caps and the     *)
(* restarts, as long as every process ends through a clean stop() and the  *)
(* backend is in order when the next one replays.                          *)
THEOREM ResendSafe ==
  ASSUME CleanEndEnv
  PROVE  Spec => []ParkedNeverResent
<1>1. Init => ResendInv
  <2> SUFFICES ASSUME Init PROVE ResendInv
    OBVIOUS
  <2>1. TypeOK
    BY DEF Init, TypeOK, NoSettle, Settlement, Phases, Places, Half
  <2>2. OnWire = {} /\ Doomed = {} /\ Answered = {} /\ stack = <<>> /\ Parked = {}
    BY DEF Init, OnWire, Doomed, Answered, NoSettle, Parked
  <2>3. Hands = buffer /\ Apart
    BY <2>2, IdleHands
  <2>4. ParkedApart /\ FlushShape /\ CleanLife /\ CleanReplay
    BY <2>2, <2>3 DEF Init, ParkedApart, FlushShape, CleanLife, CleanReplay, Serving
  <2> QED
    BY <2>1, <2>3, <2>4 DEF ResendInv
<1>2. ResendInv /\ TypeOK' /\ [Next]_vars => ResendInv'
  <2> SUFFICES ASSUME ResendInv, TypeOK', [Next]_vars PROVE ResendInv'
    OBVIOUS
  <2>1. CASE UNCHANGED vars
    <3>1. UNCHANGED <<OnWire, Doomed, Answered, Parked, EventsOf(stack), HalvesApart(stack)>>
      BY <2>1 DEF vars, disk, flush, OnWire, Doomed, Answered, Parked
    <3>2. UNCHANGED Hands
      BY <2>1, <3>1 DEF vars, Hands
    <3>3. Apart' /\ ParkedApart'
      BY <2>1, <3>1, <3>2 DEF vars, disk, flush, history, ResendInv, Apart, ParkedApart
    <3>4. FlushShape' /\ CleanLife' /\ CleanReplay'
      BY <2>1, <3>1, <3>2 DEF vars, disk, flush, life, ResendInv, FlushShape, CleanLife, CleanReplay
    <3> QED
      BY <3>3, <3>4 DEF ResendInv
  <2> QED
    BY <2>1, FlushResend, LifeResend DEF Next
<1>3. ResendInv => ParkedNeverResent
  BY DEF ResendInv, ParkedApart, Hands, OnWire, ParkedNeverResent
<1> QED
  BY <1>1, <1>2, <1>3, TypeCorrect, PTL DEF Spec

=============================================================================
