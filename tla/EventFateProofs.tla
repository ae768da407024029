--------------------------- MODULE EventFateProofs ---------------------------
(***************************************************************************)
(* EventDelivery implements EventFate when the backend answers for whole   *)
(* batches: the refinement that crash_recovery checks, for every set of    *)
(* events, all bounds and any number of crashes and faults.                *)
(***************************************************************************)
EXTENDS EventDeliveryProofs

Files == wal \cup wal1 \cup inflight

(* Nothing is in a recovery file that was not counted as journaled. *)
FilesJournaled == Files \subseteq journaled

FateInv == CrashInv /\ HeldInv /\ FilesJournaled

(* Where nothing is lost, the fate of an event is decided by the files and *)
(* the memory alone.                                                       *)
LEMMA FateIs ==
  ASSUME NoSilentLoss, NEW e \in Events
  PROVE  Fate[e] = IF e \in Settled THEN "settled"
                   ELSE IF e \in Files THEN "disk"
                   ELSE IF e \in Memory THEN "memory" ELSE "new"
  BY DEF Fate, Files, Memory, NoSilentLoss, Durable, Settled

(* The same in the next state. *)
LEMMA FateIsNext ==
  ASSUME NoSilentLoss', NEW e \in Events
  PROVE  Fate'[e] = IF e \in Settled' THEN "settled"
                    ELSE IF e \in Files' THEN "disk"
                    ELSE IF e \in Memory' THEN "memory" ELSE "new"
  BY DEF Fate, Files, Memory, NoSilentLoss, Durable, Settled

(* A step that unsettles nothing, takes nothing from disk that it does not *)
(* settle, journals and settles only what there was, not both at once, and *)
(* remembers everything else as before is a step of EventFate.             *)
LEMMA FateStep ==
  ASSUME NoSilentLoss, NoSilentLoss',
         Settled \subseteq Settled', Files \subseteq Files' \cup Settled',
         Files' \cup Settled' \subseteq Files \cup Settled \cup Memory,
         Memory \cup Files' \cup Settled' = Memory' \cup Files' \cup Settled',
         Settled' = Settled \/ Files' \subseteq Files \cup Settled'
  PROVE  [Promise!Next]_Fate
<1>f. /\ Fate = [e \in Events |-> Fate[e]]
      /\ Fate' = [e \in Events |-> Fate'[e]]
  BY DEF Fate
<1>1. CASE Settled' = Settled
  <2> DEFINE J == {e \in Events : e \in Files' /\ e \notin Files \cup Settled}
  <2>1. \A e \in J : Fate[e] = "memory" /\ Fate'[e] = "disk"
    BY <1>1, FateIs, FateIsNext
  <2>2. \A e \in Events \ J : Fate'[e] = Fate[e]
    BY <1>1, FateIs, FateIsNext
  <2>3. Fate' = [e \in Events |-> IF e \in J THEN "disk" ELSE Fate[e]]
    BY <1>f, <2>1, <2>2
  <2> HIDE DEF J
  <2>4. Promise!Journal(J)
    BY <2>1, <2>3 DEF Promise!Journal, Promise!Move
  <2>5. J \in SUBSET Events
    BY DEF J
  <2> QED
    BY <2>4, <2>5 DEF Promise!Next
<1>2. CASE Files' \subseteq Files \cup Settled'
  <2> DEFINE S == {e \in Events : e \in Settled' /\ e \notin Settled}
  <2>1. \A e \in S : Fate[e] \in {"memory", "disk"} /\ Fate'[e] = "settled"
    BY FateIs, FateIsNext
  <2>2. \A e \in Events \ S : Fate'[e] = Fate[e]
    BY <1>2, FateIs, FateIsNext
  <2>3. Fate' = [e \in Events |-> IF e \in S THEN "settled" ELSE Fate[e]]
    BY <1>f, <2>1, <2>2
  <2> HIDE DEF S
  <2>4. Promise!Settle(S)
    BY <2>1, <2>3 DEF Promise!Settle, Promise!Move
  <2>5. S \in SUBSET Events
    BY DEF S
  <2> QED
    BY <2>4, <2>5 DEF Promise!Next
<1> QED
  BY <1>1, <1>2

(* What a file receives, journaled receives in the same step. *)
LEMMA FilesJournaledStep ==
  ASSUME FilesJournaled, [Next]_vars
  PROVE  FilesJournaled' /\ journaled \subseteq journaled'
<1> USE DEF FilesJournaled, Files, disk, life, flush, history, memory, sendUnchanged
<1>1. ASSUME NEW e \in Events, Track(e) PROVE FilesJournaled' /\ journaled \subseteq journaled'
  BY <1>1 DEF Track
<1>2. CASE Tick
  BY <1>2 DEF Tick
<1>3. CASE FlushStep
  <2>1. CASE DrainDlqOverflow \/ ReleaseHoldover \/ TakeBatch \/ PersistInflight
    BY <2>1 DEF DrainDlqOverflow, ReleaseHoldover, TakeBatch, PersistInflight
  <2>2. CASE SendUnreachable \/ SendForbidden \/ SendUnauthorized \/ SendTimeout
    BY <2>2 DEF SendUnreachable, SendForbidden, SendUnauthorized, SendTimeout
  <2>3. CASE SendRejected \/ SendRefused \/ SendOverrun \/ SendUnconfirmed \/ SendAnswered
    BY <2>3 DEF SendRejected, SendRefused, SendOverrun, SendUnconfirmed, SendAnswered
  <2>4. CASE SettleTerminal \/ Quarantine
    BY <2>4 DEF SettleTerminal, Quarantine, WriteDlq, HoldForDlq
  <2>5. CASE SettleUnknown \/ SettleEnd \/ QuarantineClear \/ NextHalf
    BY <2>5 DEF SettleUnknown, SettleEnd, QuarantineClear, NextHalf
  <2> QED
    BY <1>3, <2>1, <2>2, <2>3, <2>4, <2>5 DEF FlushStep
<1>4. CASE StartStep
  <2>1. CASE Start \/ RecoverHoldover
    BY <2>1 DEF Start, RecoverHoldover
  <2>2. CASE ReplayPersist
    BY <2>2 DEF ReplayPersist, PersistBegin, RotateWal
  <2>3. CASE ReplayWrite
    BY <2>3 DEF ReplayWrite, WriteWal
  <2>4. CASE ReplayRemove
    BY <2>4 DEF ReplayRemove
  <2> QED
    BY <1>4, <2>1, <2>2, <2>3, <2>4 DEF StartStep
<1>5. CASE StopStep \/ Crash
  <2>1. CASE StopCall \/ StopFlush \/ StopTruncate \/ StopClear
    BY <2>1 DEF StopCall, StopFlush, StopTruncate, StopClear
  <2>2. CASE StopPersist
    BY <2>2 DEF StopPersist, PersistBegin, RotateWal
  <2>3. CASE StopWrite
    BY <2>3 DEF StopWrite, WriteWal
  <2>4. CASE Exit \/ Crash
    BY <2>4 DEF Exit, Crash, Die
  <2> QED
    BY <1>5, <2>1, <2>2, <2>3, <2>4 DEF StopStep
<1>6. CASE UNCHANGED vars
  BY <1>6 DEF vars
<1> QED
  BY <1>1, <1>2, <1>3, <1>4, <1>5, <1>6 DEF Next

(* What remains to show of a step of the flush, start() or stop(): what is *)
(* on disk stays there or is settled, because it was journaled.            *)
Moves ==
  /\ Settled \subseteq Settled'
  /\ Files' \cup Settled' \subseteq Files \cup Settled \cup Memory
  /\ Memory \cup Files' \cup Settled' = Memory' \cup Files' \cup Settled'
  /\ Settled' = Settled \/ Files' \subseteq Files \cup Settled'

LEMMA MovesSuffice ==
  ASSUME FateInv, FateInv', [Next]_vars, Moves
  PROVE  [Promise!Next]_Fate
<1>1. journaled' \subseteq Files' \cup Settled'
  BY DEF FateInv, CrashInv, JournaledStaysDurable, Durable, Files, Settled
<1>2. Files \subseteq journaled'
  BY FilesJournaledStep DEF FateInv, FilesJournaled
<1> QED
  BY <1>1, <1>2, FateStep DEF FateInv, CrashInv, Moves

(* The steps of the flush.                                                 *)
LEMMA FlushMoves ==
  ASSUME WholeBatchEnv, FateInv, FateInv', FlushStep
  PROVE  Moves
<1> USE DEF disk, life, flush, history, sendUnchanged
<1>w. /\ depth = 0 /\ stack = <<>> /\ settle.unknown = {}
      /\ Working = (IF pc \in {"journal", "send"} THEN cur ELSE {}) \cup rows
                     \cup settle.terminal \cup settle.retry
  BY WholeWorking DEF FateInv, CrashInv, WholeBatch
<1>v. /\ stack' = <<>> /\ settle'.unknown = {}
      /\ Working' = (IF pc' \in {"journal", "send"} THEN cur' ELSE {}) \cup rows'
                      \cup settle'.terminal \cup settle'.retry
  BY WholeWorkingNext DEF FateInv, CrashInv, WholeBatch
<1>b. BatchIsAll /\ BatchIsAll' /\ TypeOK /\ HeldIsDurable
  BY DEF FateInv, CrashInv, HeldInv
<1>1. CASE DrainDlqOverflow
  <2>1. overflow \subseteq Settled
    BY <1>b DEF HeldIsDurable, Settled
  <2> QED
    BY <1>1, <1>w, <1>v, <1>b, <2>1
       DEF DrainDlqOverflow, BatchIsAll, Moves, Memory, Files, Settled, Parked
<1>2. CASE ReleaseHoldover
  BY <1>2, <1>w, <1>v, <1>b
     DEF ReleaseHoldover, BatchIsAll, Moves, Memory, Files, Settled, Parked
<1>3. CASE TakeBatch
  BY <1>3, <1>w, <1>v, <1>b
     DEF TakeBatch, FlushReturn, BatchIsAll, Moves, Memory, Files, Settled, Parked
<1>4. CASE PersistInflight
  BY <1>4, <1>w, <1>v, <1>b
     DEF PersistInflight, BatchIsAll, Moves, Memory, Files, Settled, Parked
<1>5. CASE SendUnreachable
  <2>1. PICK s \in SUBSET cur, kept \in SUBSET cur :
          /\ accepted' = accepted \cup s
          /\ buffer' = buffer \cup kept
          /\ conceded' = conceded \cup (cur \ kept)
    BY <1>5, <1>w DEF SendUnreachable, DropNewest
  <2> QED
    BY <1>5, <1>w, <1>v, <1>b, <2>1
       DEF SendUnreachable, BatchIsAll, Moves, Memory, Files, Settled, Parked
<1>6. CASE SendForbidden
  BY <1>6, <1>w, <1>v, <1>b
     DEF SendForbidden, BatchIsAll, Moves, Memory, Files, Settled, Parked
<1>7. CASE SendUnauthorized \/ SendTimeout \/ SendUnconfirmed
  <2>1. PICK s \in SUBSET cur : accepted' = accepted \cup s
    BY <1>7, <1>w DEF SendUnauthorized, SendTimeout, SendUnconfirmed
  <2>2. \E dl \in BOOLEAN, parked \in {"next", "settle"} : RetryOrDlq(cur, dl, "next", parked)
    BY <1>7, <1>w DEF SendUnauthorized, SendTimeout, SendUnconfirmed
  <2>3. cur \in SUBSET Events
    BY <1>b DEF TypeOK
  <2>4. \/ pc' = "quarantine" /\ rows' = cur /\ buffer' = buffer
        \/ pc' = "next" /\ buffer' = buffer \cup cur /\ UNCHANGED rows
    BY <2>2, <2>3, RetryRemembers
  <2>5. /\ pc = "send" /\ UNCHANGED <<sendUnchanged, settle>>
    BY <1>7 DEF SendUnauthorized, SendTimeout, SendUnconfirmed
  <2> QED
    BY <1>w, <1>v, <1>b, <2>1, <2>4, <2>5
       DEF BatchIsAll, Moves, Memory, Files, Settled, Parked
<1>8. CASE SendOverrun
  BY <1>8, <1>w, <1>v, <1>b
     DEF SendOverrun, BatchIsAll, Moves, Memory, Files, Settled, Parked
<1>9. CASE SendAnswered
  <2>1. PICK acc \in SUBSET cur, t \in SUBSET cur, r \in SUBSET cur :
          /\ cur = acc \cup t \cup r
          /\ accepted' = accepted \cup acc
          /\ settle' = [terminal |-> t, retry |-> r, unknown |-> {}, live |-> FALSE]
          /\ pc' = "settle"
          /\ UNCHANGED <<buffer, attempts>>
    BY <1>9, <1>w, AnsweredSplits
  <2> QED
    BY <1>9, <1>w, <1>v, <1>b, <2>1
       DEF SendAnswered, BatchIsAll, Moves, Memory, Files, Settled, Parked
<1>10. CASE SendRejected \/ SendRefused \/ SettleUnknown
  <2>1. FALSE
    BY <1>10, <1>w DEF SendRejected, SendRefused, SettleUnknown, Fault, WholeBatchEnv
  <2> QED
    BY <2>1
<1>11. CASE SettleTerminal
  <2>1. PICK e \in settle.terminal :
          /\ WriteDlq({e}) \/ HoldForDlq({e})
          /\ settle'.terminal = settle.terminal \ {e}
          /\ settle'.retry = settle.retry
    BY <1>11, <1>b DEF SettleTerminal, TypeOK, Settlement
  <2>2. Settled' = Settled \cup {e}
    BY <1>11, <2>1 DEF SettleTerminal, WriteDlq, HoldForDlq, Settled, Parked
  <2> QED
    BY <1>11, <1>w, <1>v, <1>b, <2>1, <2>2 DEF SettleTerminal, BatchIsAll, Moves, Memory, Files
<1>12. CASE SettleEnd
  BY <1>12, <1>w, <1>v, <1>b
     DEF SettleEnd, NoSettle, BatchIsAll, Moves, Memory, Files, Settled, Parked
<1>13. CASE Quarantine
  <2>1. Settled' = Settled \cup rows
    BY <1>13 DEF Quarantine, WriteDlq, HoldForDlq, Settled, Parked
  <2>2. rows' \in {rows, {}} /\ pc' \notin {"journal", "send"}
    BY <1>13, <1>b DEF Quarantine, TypeOK
  <2> QED
    BY <1>13, <1>w, <1>v, <1>b, <2>1, <2>2 DEF Quarantine, BatchIsAll, Moves, Memory, Files
<1>14. CASE QuarantineClear
  <2>1. pc' \notin {"journal", "send"}
    BY <1>14, <1>b DEF QuarantineClear, TypeOK
  <2> QED
    BY <1>14, <1>w, <1>v, <1>b, <2>1
       DEF QuarantineClear, BatchIsAll, Moves, Memory, Files, Settled, Parked
<1>15. CASE NextHalf
  BY <1>15, <1>w, <1>v, <1>b
     DEF NextHalf, FlushReturn, BatchIsAll, Moves, Memory, Files, Settled, Parked
<1> QED
  BY <1>1, <1>2, <1>3, <1>4, <1>5, <1>6, <1>7, <1>8, <1>9, <1>10, <1>11, <1>12, <1>13, <1>14,
     <1>15 DEF FlushStep

(* The steps of start(); those of stop() are not taken.                    *)
LEMMA LifeMoves ==
  ASSUME WholeBatchEnv, FateInv, FateInv', StartStep \/ StopStep
  PROVE  Moves
<1> USE DEF disk, life, flush, history, memory
<1>m. ASSUME UNCHANGED <<pc, cur, stack, settle, rows>> PROVE Working' = Working
  BY <1>m DEF Working, StackEvents
<1>1. CASE Start
  <2>1. /\ buffer = {} /\ buffer' = wal1 \cup wal \cup inflight
        /\ pc = "idle" /\ pc' \in {"idle", "drain"}
    BY <1>1 DEF FateInv, CrashInv, BatchIsAll, Start, Fault, WholeBatchEnv
  <2>2. Working' = Working
    BY <1>1, <2>1 DEF Start, Working, StackEvents
  <2> QED
    BY <1>1, <2>1, <2>2 DEF Start, Moves, Memory, Files, Settled, Parked
<1>2. CASE ReplayPersist
  BY <1>2, <1>m DEF ReplayPersist, PersistBegin, RotateWal, Moves, Memory, Files, Settled, Parked
<1>3. CASE ReplayWrite
  BY <1>3, <1>m DEF ReplayWrite, WriteWal, Moves, Memory, Files, Settled, Parked
<1>4. CASE ReplayRemove
  <2>1. Files' \subseteq Files
    <3>1. CASE found = {}
      BY <1>4, <3>1 DEF ReplayRemove, Files
    <3>2. CASE found # {}
      <4>1. PICK f \in found :
              \/ /\ wal1' = IF f = "wal1" THEN {} ELSE wal1
                 /\ wal' = IF f = "wal" THEN {} ELSE wal
                 /\ inflight' = IF f = "inflight" THEN {} ELSE inflight
              \/ UNCHANGED <<wal, wal1, inflight>>
        BY <1>4, <3>2 DEF ReplayRemove
      <4> QED
        BY <4>1 DEF Files
    <3> QED
      BY <3>1, <3>2
  <2>2. Memory' = Memory /\ Settled' = Settled
    BY <1>4, <1>m DEF ReplayRemove, Memory, Settled, Parked
  <2> QED
    BY <2>1, <2>2 DEF Moves
<1>5. CASE RecoverHoldover
  BY <1>5, <1>m DEF RecoverHoldover, Moves, Memory, Files, Settled, Parked
<1>6. CASE StopStep
  BY <1>6 DEF StopStep, StopCall, StopFlush, StopPersist, StopWrite, StopTruncate, StopClear,
              Exit, WholeBatchEnv, FateInv, CrashInv, WholeBatch, Stopping
<1> QED
  BY <1>1, <1>2, <1>3, <1>4, <1>5, <1>6 DEF StartStep

(* track() takes an event, and a crash forgets what was in memory alone.   *)
LEMMA TakeAndForget ==
  ASSUME FateInv, FateInv', Crash \/ \E e \in Events : Track(e)
  PROVE  [Promise!Next]_Fate
<1> USE DEF disk, life, flush, history
<1>n. NoSilentLoss /\ NoSilentLoss'
  BY DEF FateInv, CrashInv
<1>f. /\ Fate = [e \in Events |-> Fate[e]]
      /\ Fate' = [e \in Events |-> Fate'[e]]
  BY DEF Fate
<1>1. ASSUME NEW e \in Events, Track(e) PROVE [Promise!Next]_Fate
  <2>1. Working' = Working
    <3>1. pc = "idle" /\ pc' \in {"idle", "drain"} /\ UNCHANGED <<cur, rows, stack, settle>>
      BY <1>1 DEF Track
    <3> QED
      BY <3>1 DEF Working, StackEvents
  <2>2. Settled' = Settled /\ Files' = Files /\ Memory' = Memory \cup {e}
    BY <1>1, <2>1 DEF Track, Settled, Parked, Files, Memory
  <2>3. \A x \in Events \ {e} : Fate'[x] = Fate[x]
    BY <1>n, <2>2, FateIs, FateIsNext
  <2>4. CASE e \in Settled \cup Files \cup Memory
    <3>1. Fate'[e] = Fate[e]
      BY <1>n, <2>2, <2>4, FateIs, FateIsNext
    <3>2. Fate' = Fate
      BY <1>f, <2>3, <3>1
    <3> QED
      BY <3>2
  <2>5. CASE e \notin Settled \cup Files \cup Memory
    <3>1. Fate[e] = "new" /\ Fate'[e] = "memory"
      BY <1>n, <2>2, <2>5, FateIs, FateIsNext
    <3>2. Fate' = [x \in Events |-> IF x \in {e} THEN "memory" ELSE Fate[x]]
      BY <1>f, <2>3, <3>1
    <3>3. Promise!Take(e)
      BY <3>1, <3>2 DEF Promise!Take, Promise!Move
    <3> QED
      BY <3>3 DEF Promise!Next
  <2> QED
    BY <2>4, <2>5
<1>2. CASE Crash
  <2> DEFINE M == {e \in Events : Fate[e] = "memory"}
  <2>1. Settled' = Settled /\ Files' = Files /\ Memory' = {}
    BY <1>2 DEF Crash, Die, NoSettle, Settled, Parked, Files, Memory, Working, StackEvents
  <2>2. \A e \in Events : Fate'[e] = IF e \in M THEN "new" ELSE Fate[e]
    BY <1>n, <2>1, FateIs, FateIsNext
  <2>3. Fate' = [e \in Events |-> IF e \in M THEN "new" ELSE Fate[e]]
    BY <1>f, <2>2
  <2>4. Promise!Forget
    BY <2>3 DEF Promise!Forget, Promise!Move
  <2> QED
    BY <2>4 DEF Promise!Next
<1> QED
  BY <1>1, <1>2

(* Refinement: through any number of flushes, replays, crashes, failing    *)
(* writes, outages and answers to whole batches, event delivery does       *)
(* nothing that EventFate does not allow: what is on disk is never in      *)
(* memory alone again, what is settled stays settled, and a crash undoes   *)
(* only what track() had taken and no file held.                           *)
THEOREM PromiseKept ==
  ASSUME WholeBatchEnv
  PROVE  Spec => KeepsPromise
<1>1. Init => FilesJournaled
  BY DEF Init, FilesJournaled, Files
<1>2. FilesJournaled /\ [Next]_vars => FilesJournaled'
  BY FilesJournaledStep
<1>3. Spec => []FateInv
  BY <1>1, <1>2, CrashInvariant, HeldInvariant, PTL DEF Spec, FateInv
<1>4. Init => Promise!Init
  <2> SUFFICES ASSUME Init PROVE Fate = [e \in Events |-> "new"]
    BY DEF Promise!Init
  <2>1. Working = {}
    BY DEF Init, Working, StackEvents, NoSettle
  <2> QED
    BY <2>1 DEF Init, Fate, Settled, Parked
<1>5. FateInv /\ FateInv' /\ [Next]_vars => [Promise!Next]_Fate
  <2> SUFFICES ASSUME FateInv, FateInv', [Next]_vars PROVE [Promise!Next]_Fate
    OBVIOUS
  <2>1. CASE FlushStep
    BY <2>1, FlushMoves, MovesSuffice
  <2>2. CASE StartStep \/ StopStep
    BY <2>2, LifeMoves, MovesSuffice
  <2>3. CASE Crash \/ \E e \in Events : Track(e)
    BY <2>3, TakeAndForget
  <2>4. CASE Tick \/ UNCHANGED vars
    <3>1. Working' = Working /\ UNCHANGED <<disk, accepted, buffer, history>>
      BY <2>4 DEF Tick, BeginFlush, vars, flush, Working, StackEvents
    <3>2. Moves
      BY <3>1 DEF Moves, Memory, Files, Settled, Parked, disk, history
    <3> QED
      BY <3>2, MovesSuffice
  <2> QED
    BY <2>1, <2>2, <2>3, <2>4 DEF Next
<1> QED
  BY <1>3, <1>4, <1>5, PTL DEF Spec, KeepsPromise, Promise!Spec

=============================================================================
