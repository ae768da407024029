-------------------------- MODULE DeadLettersProofs --------------------------
(***************************************************************************)
(* Rows of the DLQ survive any number of writers, processes and replays.   *)
(***************************************************************************)
EXTENDS DeadLetters, FiniteSetTheorems, TLAPS

(* The holder of the lock is about to replace the file by one that has all *)
(* its rows, and its own: nobody else appends, and a replay only removes.  *)
CopyComplete ==
  \A w \in Writers : at[w] = "replace" => (dlq \cap Events) \cup row[w] \subseteq tmp[ProcessOf[w]]

(* A replay removes what the backend has, or what its transport has lost.  *)
ConfirmedAccounted == cli.confirmed \subseteq accepted \cup overrun

(* What a replay read is still there, for nothing else takes rows away.    *)
OriginalThere == cli.original \cap Events \subseteq dlq

RowsInv ==
  TypeOK /\ CopyComplete /\ OriginalThere /\ ConfirmedAccounted /\ RowsSurvive

(* A step of a thread that appends keeps types and exclusion.              *)
LEMMA AppendType ==
  ASSUME TypeOK, NEW w \in Writers, Append(w)
  PROVE  TypeOK'
<1> USE ProcessesKnown, NoneDistinct DEF TypeOK, GoTo, theCli, history, Lines, Rows
<1>p. ProcessOf[w] \in Processes /\ w # None
  OBVIOUS
<1>1. CASE Refuse(w)
  BY <1>1 DEF Refuse
<1>2. CASE Retry(w)
  BY <1>2 DEF Retry
<1>3. CASE Acquire(w)
  BY <1>3 DEF Acquire
<1>4. CASE GiveUp(w)
  BY <1>4 DEF GiveUp
<1>5. CASE Copy(w)
  BY <1>p, <1>5 DEF Copy
<1>6. CASE Replace(w)
  BY <1>p, <1>6 DEF Replace, Release
<1>7. CASE WriteFails(w)
  BY <1>p, <1>7 DEF WriteFails, Release
<1> QED
  BY <1>1, <1>2, <1>3, <1>4, <1>5, <1>6, <1>7 DEF Append

(* What a replay takes for confirmed was accepted or lost.                 *)
LEMMA SendOutcome ==
  ASSUME TypeOK, Send
  PROVE  \E ok \in SUBSET Events, lost \in SUBSET Events :
           /\ accepted' = accepted \cup ok /\ overrun' = overrun \cup lost
           /\ \/ cli' = NoReplay
              \/ \E confirmed \in SUBSET (ok \cup lost) :
                   cli' = [cli EXCEPT !.at = "drop", !.confirmed = confirmed]
<1> DEFINE sent == cli.selected \ {Bare}
<1>1. sent \subseteq Events
  BY DEF TypeOK, Rows
<1>2. \A ok, pk : \A lost \in LostInTransport(sent, ok, pk) : lost \in SUBSET sent
  BY DEF LostInTransport
<1> HIDE DEF sent
<1>3. PICK ok \in SUBSET sent : \E pk \in SUBSET (sent \ ok) : \E lost \in SUBSET sent :
        /\ accepted' = accepted \cup ok /\ overrun' = overrun \cup lost
        /\ \/ cli' = NoReplay
           \/ cli' = [cli EXCEPT !.at = "drop",
                                 !.confirmed = Confirmed(sent, sent \ (ok \cup pk \cup lost), pk)]
  BY <1>2 DEF Send, sent
<1>4. PICK pk \in SUBSET sent, lost \in SUBSET sent :
        /\ accepted' = accepted \cup ok /\ overrun' = overrun \cup lost
        /\ \/ cli' = NoReplay
           \/ cli' = [cli EXCEPT !.at = "drop",
                                 !.confirmed = Confirmed(sent, sent \ (ok \cup pk \cup lost), pk)]
  BY <1>3
<1>5. Confirmed(sent, sent \ (ok \cup pk \cup lost), pk) \in SUBSET (ok \cup lost)
  BY DEF Confirmed
<1>6. ok \in SUBSET Events /\ lost \in SUBSET Events
  BY <1>1
<1> QED
  BY <1>4, <1>5, <1>6

(* So do a crash and the replay.                                           *)
LEMMA OtherType ==
  ASSUME TypeOK, Replay \/ \E p \in Processes : Crash(p)
  PROVE  TypeOK'
<1> USE ProcessesKnown, NoneDistinct DEF TypeOK, theCli, history, theWriters
<1>1. ASSUME NEW p \in Processes, Crash(p) PROVE TypeOK'
  BY <1>1 DEF Crash
<1>2. CASE Select
  <2>1. PICK terminal \in BOOLEAN, chosen \in SUBSET Rows :
          cli' = IF chosen \ {Bare} = {} THEN NoReplay
                 ELSE [cli EXCEPT !.at = "send", !.selected = chosen]
    <3>1. \A terminal \in BOOLEAN : Selections(terminal) \subseteq SUBSET Rows
      BY DEF Selections
    <3> QED
      BY <1>2, <3>1 DEF Select
  <2>2. cli' \in [at : {"idle", "send", "drop", "rewrite"}, selected : SUBSET Rows,
                   confirmed : SUBSET Events, original : SUBSET Lines]
    BY <2>1 DEF NoReplay
  <2>3. replays' \in 0..MaxReplays
    BY <1>2, BoundsNat DEF Select
  <2> QED
    BY <1>2, <2>2, <2>3 DEF Select
<1>3. CASE Send
  <2>1. PICK ok \in SUBSET Events, lost \in SUBSET Events :
          /\ accepted' = accepted \cup ok /\ overrun' = overrun \cup lost
          /\ \/ cli' = NoReplay
             \/ \E confirmed \in SUBSET (ok \cup lost) :
                  cli' = [cli EXCEPT !.at = "drop", !.confirmed = confirmed]
    BY <1>3, SendOutcome
  <2>2. cli' \in [at : {"idle", "send", "drop", "rewrite"}, selected : SUBSET Rows,
                   confirmed : SUBSET Events, original : SUBSET Lines]
    <3>1. CASE cli' = NoReplay
      BY <3>1 DEF NoReplay
    <3>2. ASSUME NEW confirmed \in SUBSET (ok \cup lost),
                 cli' = [cli EXCEPT !.at = "drop", !.confirmed = confirmed]
          PROVE  cli' \in [at : {"idle", "send", "drop", "rewrite"}, selected : SUBSET Rows,
                           confirmed : SUBSET Events, original : SUBSET Lines]
      <4>1. confirmed \in SUBSET Events
        OBVIOUS
      <4> QED
        BY <3>2, <4>1
    <3> QED
      BY <2>1, <3>1, <3>2
  <2>3. UNCHANGED <<dlq, theWriters, replays>>
    BY <1>3 DEF Send
  <2>4. accepted' \cup overrun' \subseteq Events
    BY <2>1
  <2> QED
    BY <2>2, <2>3, <2>4
<1>4. CASE ReadAgain
  BY <1>4 DEF ReadAgain, NoReplay
<1>5. CASE Rewrite
  BY <1>5 DEF Rewrite, Kept, NoReplay, Lines
<1>6. CASE ReplayFails
  BY <1>6 DEF ReplayFails, NoReplay
<1> QED
  BY <1>1, <1>2, <1>3, <1>4, <1>5, <1>6 DEF Replay

(* A thread that appends keeps the rows: it works on the file alone.       *)
LEMMA AppendKeeps ==
  ASSUME RowsInv, NEW w \in Writers, Append(w)
  PROVE  RowsInv'
<1> USE ProcessesKnown, NoneDistinct
        DEF TypeOK, GoTo, theCli, history, CopyComplete, OriginalThere, ConfirmedAccounted, RowsSurvive
<1>t. TypeOK /\ TypeOK'
  BY AppendType DEF RowsInv
<1>i. CopyComplete /\ OriginalThere /\ ConfirmedAccounted /\ RowsSurvive
  BY DEF RowsInv
<1>p. ProcessOf[w] \in Processes
  OBVIOUS
<1>1. CASE Refuse(w)
  BY <1>t, <1>i, <1>1 DEF Refuse, RowsInv
<1>2. CASE Retry(w)
  BY <1>t, <1>i, <1>2 DEF Retry, RowsInv
<1>3. CASE Acquire(w)
  BY <1>t, <1>i, <1>3 DEF Acquire, RowsInv
<1>4. CASE GiveUp(w)
  BY <1>t, <1>i, <1>4 DEF GiveUp, RowsInv
<1>5. CASE Copy(w)
  <2>1. \A v \in Writers : v # w => at[v] # "replace"
    BY <1>t, <1>5 DEF Copy
  <2>2. (dlq \cap Events) \cup row[w] \subseteq tmp'[ProcessOf[w]]
    BY <1>p, <1>t, <1>5, RowsDistinct DEF Copy
  <2>3. CopyComplete'
    BY <1>t, <1>5, <2>1, <2>2 DEF Copy
  <2> QED
    BY <1>t, <1>i, <1>5, <2>3 DEF Copy, RowsInv
<1>6. CASE Replace(w)
  <2>1. \A v \in Writers : at'[v] # "replace"
    BY <1>t, <1>6 DEF Replace
  <2>2. (dlq \cap Events) \cup row[w] \subseteq dlq'
    BY <1>i, <1>6 DEF Replace
  <2>3. OriginalThere' /\ ConfirmedAccounted'
    BY <1>i, <1>6, <2>2 DEF Replace
  <2>4. RowsSurvive'
    BY <1>t, <1>i, <1>6, <2>2 DEF Replace
  <2> QED
    BY <1>t, <2>1, <2>3, <2>4 DEF RowsInv
<1>7. CASE WriteFails(w)
  <2>1. \A v \in Writers : at'[v] # "replace"
    BY <1>t, <1>7 DEF WriteFails
  <2> QED
    BY <1>t, <1>i, <1>7, <2>1 DEF WriteFails, RowsInv
<1> QED
  BY <1>1, <1>2, <1>3, <1>4, <1>5, <1>6, <1>7 DEF Append

(* So do a crash and a replay, which removes only rows it can account for. *)
LEMMA OtherKeeps ==
  ASSUME RowsInv, Replay \/ \E p \in Processes : Crash(p)
  PROVE  RowsInv'
<1> USE DEF theCli, history, theWriters
<1>t. TypeOK /\ TypeOK'
  BY OtherType DEF RowsInv
<1>i. CopyComplete /\ OriginalThere /\ ConfirmedAccounted /\ RowsSurvive
  BY DEF RowsInv
<1>1. ASSUME NEW p \in Processes, Crash(p) PROVE RowsInv'
  <2>1. OriginalThere' /\ ConfirmedAccounted' /\ RowsSurvive'
    BY <1>1, <1>i DEF Crash, OriginalThere, ConfirmedAccounted, RowsSurvive
  <2>2. \A w \in Writers : at'[w] = "replace" => at[w] = "replace" /\ row'[w] = row[w]
    BY <1>1 DEF Crash
  <2>3. CopyComplete'
    BY <1>1, <1>i, <2>2 DEF Crash, CopyComplete
  <2> QED
    BY <1>t, <2>1, <2>3 DEF RowsInv
<1>2. ASSUME cli'.confirmed \subseteq cli.confirmed,
             cli'.original \cap Events \subseteq dlq,
             UNCHANGED <<dlq, theWriters, accepted, overrun>>
      PROVE  RowsInv'
  BY <1>2, <1>t, <1>i DEF RowsInv, CopyComplete, OriginalThere, ConfirmedAccounted, RowsSurvive
<1>3. CASE Select
  <2>1. PICK chosen : cli' = IF chosen \ {Bare} = {} THEN NoReplay
                             ELSE [cli EXCEPT !.at = "send", !.selected = chosen]
    BY <1>3 DEF Select
  <2>2. cli'.confirmed \subseteq cli.confirmed /\ cli'.original \subseteq cli.original
    BY <1>t, <2>1 DEF NoReplay, TypeOK
  <2> QED
    BY <1>2, <1>3, <1>i, <2>2 DEF Select, OriginalThere
<1>4. CASE Send
  <2>1. PICK ok \in SUBSET Events, lost \in SUBSET Events :
          /\ accepted' = accepted \cup ok /\ overrun' = overrun \cup lost
          /\ \/ cli' = NoReplay
             \/ \E confirmed \in SUBSET (ok \cup lost) :
                  cli' = [cli EXCEPT !.at = "drop", !.confirmed = confirmed]
    BY <1>4, <1>t, SendOutcome
  <2>2. UNCHANGED <<dlq, theWriters>>
    BY <1>4 DEF Send
  <2>3. cli'.confirmed \subseteq ok \cup lost /\ cli'.original \subseteq cli.original
    <3>1. CASE cli' = NoReplay
      BY <3>1 DEF NoReplay
    <3>2. ASSUME NEW confirmed \in SUBSET (ok \cup lost),
                 cli' = [cli EXCEPT !.at = "drop", !.confirmed = confirmed]
          PROVE  cli'.confirmed = confirmed /\ cli'.original = cli.original
      BY <1>t, <3>2 DEF TypeOK
    <3> QED
      BY <2>1, <3>1, <3>2
  <2> QED
    BY <1>t, <1>i, <2>1, <2>2, <2>3
       DEF RowsInv, CopyComplete, OriginalThere, ConfirmedAccounted, RowsSurvive
<1>5. CASE ReadAgain
  <2>1. cli'.confirmed \subseteq cli.confirmed /\ cli'.original \subseteq dlq
    BY <1>t, <1>5 DEF ReadAgain, NoReplay, TypeOK
  <2> QED
    BY <1>2, <1>5, <2>1 DEF ReadAgain
<1>6. CASE Rewrite
  <2>1. dlq' = Kept /\ overrun' = overrun \cup ((dlq \ cli.original) \cap Events)
        /\ cli' = NoReplay /\ UNCHANGED <<theWriters, accepted>>
    BY <1>6 DEF Rewrite
  <2>2. Torn \notin Events /\ Broken \notin Events
    BY RowsDistinct
  <2>3. dlq' \cap Events = (cli.original \cap Events) \ cli.confirmed
    BY <2>1, <2>2 DEF Kept
  <2>4. CopyComplete'
    BY <1>i, <2>1, <2>3 DEF CopyComplete, OriginalThere
  <2>5. RowsSurvive'
    BY <1>t, <1>i, <2>1, <2>3 DEF RowsSurvive, ConfirmedAccounted, TypeOK
  <2>6. OriginalThere' /\ ConfirmedAccounted'
    BY <2>1 DEF OriginalThere, ConfirmedAccounted, NoReplay
  <2> QED
    BY <1>t, <2>4, <2>5, <2>6 DEF RowsInv
<1>7. CASE ReplayFails
  <2>1. cli'.confirmed = {} /\ cli'.original = {}
    BY <1>7 DEF ReplayFails, NoReplay
  <2> QED
    BY <1>2, <1>7, <2>1 DEF ReplayFails
<1> QED
  BY <1>1, <1>3, <1>4, <1>5, <1>6, <1>7 DEF Replay

LEMMA RowsInvariant == Spec => []RowsInv
<1>1. Init => RowsInv
  BY ProcessesKnown, BoundsNat, NoneDistinct
     DEF Init, RowsInv, TypeOK, CopyComplete, OriginalThere, ConfirmedAccounted, RowsSurvive,
         NoReplay, Lines, Rows
<1>2. RowsInv /\ [Next]_vars => RowsInv'
  <2> SUFFICES ASSUME RowsInv, [Next]_vars PROVE RowsInv'
    OBVIOUS
  <2>1. CASE Next
    BY <2>1, AppendKeeps, OtherKeeps DEF Next
  <2>2. CASE UNCHANGED vars
    BY <2>2 DEF vars, RowsInv, TypeOK, CopyComplete, OriginalThere, ConfirmedAccounted, RowsSurvive
  <2> QED
    BY <2>1, <2>2
<1> QED
  BY <1>1, <1>2, PTL DEF Spec

(* For any number of threads, processes and events: exactly the holder of  *)
(* the WAL lock is at work on the dead-letter file.                        *)
THEOREM TypeCorrect == Spec => []TypeOK
<1>1. RowsInv => TypeOK
  BY DEF RowsInv
<1> QED
  BY <1>1, RowsInvariant, PTL

(* For any number of threads, processes, events and replays, and whatever  *)
(* the environment does: a row reported as parked is in the file, or a     *)
(* replay had it accepted, or lost it in one of the two ways named there.  *)
THEOREM RowsSafe == Spec => []RowsSurvive
<1>1. RowsInv => RowsSurvive
  BY DEF RowsInv
<1> QED
  BY <1>1, RowsInvariant, PTL

----------------------------------------------------------------------------
(* Lines that cannot be replayed                                           *)

Unreadable == {Torn, Broken, Bare}

(* Nobody appends such a line: the copy that a thread is about to put in   *)
(* place has no other than the file, and none without its newline; and so  *)
(* what a replay has read before it rewrites the file has all of them.     *)
LinesSeen ==
  /\ \A w \in Writers : at[w] = "replace" =>
       tmp[ProcessOf[w]] \cap Unreadable \subseteq dlq /\ Torn \notin tmp[ProcessOf[w]]
  /\ cli.at = "rewrite" => dlq \cap Unreadable \subseteq cli.original

(* What a rewrite does to these lines *)
LEMMA KeptLines ==
  ASSUME TypeOK, dlq \cap Unreadable \subseteq cli.original
  PROVE  /\ dlq \cap {Broken, Bare} \subseteq Kept
         /\ Torn \in dlq => Broken \in Kept
         /\ Torn \notin Kept
<1>1. cli.confirmed \cap Unreadable = {}
  BY RowsDistinct DEF TypeOK, Unreadable
<1>2. Broken # Torn /\ Bare # Torn
  <2>1. Cardinality({Torn, Broken, Bare}) = 3
    BY RowsDistinct
  <2>2. \A a, b : Cardinality({a, b}) <= 2
    <3> SUFFICES ASSUME NEW a, NEW b PROVE Cardinality({a, b}) <= 2
      OBVIOUS
    <3>1. IsFiniteSet({a}) /\ Cardinality({a}) = 1
      BY FS_Singleton
    <3>2. {a, b} = {a} \cup {b}
      OBVIOUS
    <3>3. Cardinality({a} \cup {b}) = IF b \in {a} THEN Cardinality({a}) ELSE Cardinality({a}) + 1
      BY <3>1, FS_AddElement
    <3>4. b \in {a} \/ b \notin {a}
      OBVIOUS
    <3> QED
      BY <3>1, <3>2, <3>3, <3>4
  <2>3. Broken = Torn => {Torn, Broken, Bare} = {Broken, Bare}
    OBVIOUS
  <2>4. Bare = Torn => {Torn, Broken, Bare} = {Broken, Bare}
    OBVIOUS
  <2>5. Cardinality({Broken, Bare}) # 3
    <3>1. Cardinality({Broken, Bare}) <= 2
      BY <2>2
    <3> QED
      BY <3>1
  <2>6. {Torn, Broken, Bare} # {Broken, Bare}
    BY <2>1, <2>5, Zenon
  <2> QED
    BY <2>3, <2>4, <2>6, Zenon
<1> QED
  BY <1>1, <1>2 DEF Kept, Unreadable

(* Every step keeps it.                                                    *)
LEMMA LinesInvariant == Spec => [](TypeOK /\ LinesSeen)
<1>1. Init => LinesSeen
  BY DEF Init, LinesSeen, NoReplay
<1>2. TypeOK /\ LinesSeen /\ TypeOK' /\ [Next]_vars => LinesSeen'
  <2> SUFFICES ASSUME TypeOK, LinesSeen, TypeOK', [Next]_vars PROVE LinesSeen'
    OBVIOUS
  <2> USE DEF theCli, history, theWriters
  <2>i. /\ \A w \in Writers : at[w] = "replace" =>
             tmp[ProcessOf[w]] \cap Unreadable \subseteq dlq /\ Torn \notin tmp[ProcessOf[w]]
        /\ cli.at = "rewrite" => dlq \cap Unreadable \subseteq cli.original
    BY DEF LinesSeen
  <2>t. /\ at \in [Writers -> {"idle", "lock", "copy", "replace"}]
        /\ row \in [Writers -> SUBSET Events] /\ tmp \in [Processes -> SUBSET Lines]
        /\ \A w \in Writers : at[w] \in {"copy", "replace"} <=> lock = w
    BY DEF TypeOK
  <2>d. Torn \notin Events /\ Broken \notin Events /\ Bare \notin Events
    BY RowsDistinct
  (* a thread that neither copies nor replaces *)
  <2>1. ASSUME UNCHANGED <<dlq, cli>>,
               \A w \in Writers : at'[w] = "replace" => at[w] = "replace" /\ tmp'[ProcessOf[w]] = tmp[ProcessOf[w]]
        PROVE  LinesSeen'
    BY <2>1, <2>i DEF LinesSeen
  <2>2. ASSUME NEW w \in Writers, Append(w) PROVE LinesSeen'
    <3>p. ProcessOf[w] \in Processes
      BY ProcessesKnown
    <3>1. CASE Refuse(w) \/ Retry(w) \/ Acquire(w) \/ GiveUp(w)
      <4>1. /\ UNCHANGED <<dlq, cli, tmp>>
            /\ \A v \in Writers : at'[v] = "replace" => at[v] = "replace"
        BY <2>t, <3>1 DEF Refuse, Retry, Acquire, GiveUp, GoTo
      <4> QED
        BY <2>1, <4>1
    <3>2. CASE Copy(w)
      <4>1. \A v \in Writers : at'[v] = "replace" => v = w
        BY <2>t, <3>2 DEF Copy, GoTo
      <4>2. tmp'[ProcessOf[w]] = (dlq \ {Torn}) \cup row[w] /\ row[w] \subseteq Events
        BY <2>t, <3>p, <3>2 DEF Copy
      <4>3. tmp'[ProcessOf[w]] \cap Unreadable \subseteq dlq /\ Torn \notin tmp'[ProcessOf[w]]
        BY <2>d, <4>2 DEF Unreadable
      <4> QED
        BY <2>i, <3>2, <4>1, <4>3 DEF Copy, LinesSeen
    <3>3. CASE Replace(w)
      <4>1. \A v \in Writers : at'[v] # "replace"
        BY <2>t, <3>3 DEF Replace, GoTo
      <4>2. dlq' \cap Unreadable \subseteq dlq /\ cli' = cli
        BY <2>i, <3>3 DEF Replace
      <4>3. cli'.at = "rewrite" => dlq' \cap Unreadable \subseteq cli'.original
        BY <2>i, <4>2
      <4> QED
        BY <4>1, <4>3 DEF LinesSeen
    <3>4. CASE WriteFails(w)
      <4>1. UNCHANGED <<dlq, cli>> /\ \A v \in Writers : at'[v] # "replace"
        BY <2>t, <3>4 DEF WriteFails, GoTo
      <4> QED
        BY <2>1, <4>1
    <3> QED
      BY <2>2, <3>1, <3>2, <3>3, <3>4 DEF Append
  <2>3. ASSUME NEW p \in Processes, Crash(p) PROVE LinesSeen'
    BY <2>1, <2>3 DEF Crash
  <2>4. ASSUME UNCHANGED <<dlq, at, tmp>>, cli'.at # "rewrite" PROVE LinesSeen'
    BY <2>4, <2>i DEF LinesSeen
  <2>5. CASE Select
    <3>1. PICK chosen : cli' = IF chosen \ {Bare} = {} THEN NoReplay
                               ELSE [cli EXCEPT !.at = "send", !.selected = chosen]
      BY <2>5 DEF Select
    <3>2. cli'.at # "rewrite"
      BY <3>1 DEF NoReplay, TypeOK
    <3> QED
      BY <2>4, <2>5, <3>2 DEF Select
  <2>6. CASE Send
    <3>1. \/ cli' = NoReplay
          \/ \E confirmed \in SUBSET Events : cli' = [cli EXCEPT !.at = "drop", !.confirmed = confirmed]
      BY <2>6, SendOutcome
    <3>2. cli'.at # "rewrite"
      <4>1. CASE cli' = NoReplay
        BY <4>1 DEF NoReplay
      <4>2. ASSUME NEW confirmed \in SUBSET Events,
                   cli' = [cli EXCEPT !.at = "drop", !.confirmed = confirmed]
            PROVE  cli'.at = "drop"
        BY <4>2 DEF TypeOK
      <4> QED
        BY <3>1, <4>1, <4>2
    <3> QED
      BY <2>4, <2>6, <3>2 DEF Send
  <2>7. CASE ReadAgain
    <3>1. UNCHANGED <<dlq, at, tmp>>
      BY <2>7 DEF ReadAgain
    <3>2. cli'.at = "rewrite" => cli'.original = dlq
      BY <2>7 DEF ReadAgain, NoReplay, TypeOK
    <3> QED
      BY <2>i, <3>1, <3>2 DEF LinesSeen
  <2>8. CASE Rewrite
    <3>1. dlq' = Kept /\ UNCHANGED <<at, tmp>> /\ cli'.at = "idle" /\ cli.at = "rewrite"
      BY <2>8 DEF Rewrite, NoReplay
    <3>2. dlq \cap {Broken, Bare} \subseteq Kept
      BY <2>i, <3>1, KeptLines
    <3> QED
      BY <2>i, <3>1, <3>2 DEF LinesSeen, Unreadable
  <2>9. CASE ReplayFails
    BY <2>4, <2>9 DEF ReplayFails, NoReplay
  <2>10. CASE UNCHANGED vars
    BY <2>1, <2>10 DEF vars
  <2> QED
    BY <2>2, <2>3, <2>5, <2>6, <2>7, <2>8, <2>9, <2>10 DEF Next, Replay
<1> QED
  BY <1>1, <1>2, TypeCorrect, PTL DEF Spec

(* The rewrite of a replay keeps every line that cannot be replayed, a     *)
(* torn one with a newline, however many threads and processes append to   *)
(* the file between its read and its rewrite, crash and fail to write.     *)
THEOREM UnreadableSafe == Spec => UnreadableKept
<1> DEFINE Keeps == cli.at = "rewrite" /\ cli' = NoReplay /\ dlq' # dlq =>
             dlq \cap {Broken, Bare} \subseteq dlq' /\ (Torn \in dlq => {Torn, Broken} \cap dlq' # {})
<1>1. TypeOK /\ LinesSeen /\ [Next]_vars => [Keeps]_vars
  <2> SUFFICES ASSUME TypeOK, LinesSeen, Next, cli.at = "rewrite", cli' = NoReplay, dlq' # dlq
               PROVE  dlq \cap {Broken, Bare} \subseteq dlq' /\ (Torn \in dlq => {Torn, Broken} \cap dlq' # {})
    BY DEF vars
  <2> USE DEF theCli, history, theWriters
  <2>1. cli' # cli
    BY DEF NoReplay
  <2>2. Rewrite
    <3>1. ASSUME NEW w \in Writers, Append(w) PROVE FALSE
      BY <2>1, <3>1 DEF Append, Refuse, Retry, Acquire, GiveUp, Copy, Replace, WriteFails
    <3>2. ASSUME NEW p \in Processes, Crash(p) PROVE FALSE
      BY <2>1, <3>2 DEF Crash
    <3>3. ~Select /\ ~Send /\ ~ReadAgain /\ ~ReplayFails
      BY DEF Select, Send, ReadAgain, ReplayFails
    <3> QED
      BY <3>1, <3>2, <3>3 DEF Next, Replay
  <2>3. dlq' = Kept /\ dlq \cap Unreadable \subseteq cli.original
    BY <2>2 DEF Rewrite, LinesSeen
  <2> QED
    BY <2>3, KeptLines
<1> QED
  BY <1>1, LinesInvariant, PTL DEF Spec, UnreadableKept

=============================================================================
