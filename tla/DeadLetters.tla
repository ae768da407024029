---------------------------- MODULE DeadLetters ----------------------------
(***************************************************************************)
(* The dead-letter file of one WAL path, shared by the flush threads of    *)
(* several processes, which append to it under the WAL lock                *)
(* (_wal_file_lock and _write_events_atomic in src/src/nullrun/            *)
(* transport.py), and by the operator's nullrun-wal (wal_admin.py), which  *)
(* resends rows and rewrites the file without the lock.                    *)
(*                                                                         *)
(* Every step is one system call that another process can see.  What a     *)
(* process does with a refused event before and after the append is        *)
(* EventDelivery's subject.                                                *)
(***************************************************************************)
EXTENDS Naturals, FiniteSets

CONSTANTS
  Writers,     \* threads that append
  Processes,
  ProcessOf,   \* the process of a thread: they share the temporary file
  Events,      \* each is refused at most once
  Terminal,    \* those with a reason in _TERMINAL_WITHOUT_REPLAY
  Torn,        \* a last line without its newline
  Broken,      \* a whole line that is no JSON
  Bare,        \* a row without its event
  None,
  BufferMax,   \* max_buffer_size, for the transport of a replay
  Env,         \* which of EnvKinds the environment does
  MaxReplays   \* bound: replays of one behaviour

EnvKinds ==
  { "crash",       \* a process dies, or the operator interrupts the replay
    "disk",        \* a file cannot be written
    "outage",      \* the backend does not answer to a replay
    "halves" }     \* a batch is bisected, and a half answered with a refusal

ASSUME ProcessesKnown == ProcessOf \in [Writers -> Processes]
ASSUME RowsDistinct ==
  /\ {Torn, Broken, Bare} \cap Events = {} /\ Cardinality({Torn, Broken, Bare}) = 3
  /\ Terminal \subseteq Events
ASSUME EnvKnown == Env \subseteq EnvKinds
ASSUME BoundsNat == {BufferMax, MaxReplays} \subseteq Nat
ASSUME NoneDistinct == None \notin Writers

Rows  == Events \cup {Bare}
Lines == Rows \cup {Torn, Broken}

VARIABLES
  dlq,       \* lines of the file
  lock,      \* the thread that holds flock, or None
  at,        \* where a thread is
  row,       \* the event it has to park, as a set of at most one
  tmp,       \* <path>.dlq.tmp.<pid>
  cli,       \* the replay
  replays,   \* replays begun so far
  (* history *)
  refused,   \* events that were refused so far
  parked,    \* rows whose append was reported as done
  accepted,  \* events a replay got accepted
  overrun    \* rows lost to a replay that did not see them, or that counts
             \* as confirmed what its transport has lost

vars == <<dlq, lock, at, row, tmp, cli, replays, refused, parked, accepted, overrun>>

NoReplay == [at |-> "idle", selected |-> {}, confirmed |-> {}, original |-> {}]

Init ==
  /\ dlq \in SUBSET {Torn, Broken, Bare}
  /\ lock = None
  /\ at = [w \in Writers |-> "idle"]
  /\ row = [w \in Writers |-> {}]
  /\ tmp = [p \in Processes |-> {}]
  /\ cli = NoReplay /\ replays = 0
  /\ refused = {} /\ parked = {} /\ accepted = {} /\ overrun = {}

history == <<refused, parked, accepted, overrun>>
theCli  == <<cli, replays>>

GoTo(w, place) == at' = [at EXCEPT ![w] = place]

----------------------------------------------------------------------------
(* _write_events_atomic(path, rows, "a")                                   *)

(* The backend refuses an event ...                                        *)
Refuse(w) ==
  /\ at[w] = "idle" /\ row[w] = {}
  /\ \E e \in Events \ refused :
       /\ refused' = refused \cup {e}
       /\ row' = [row EXCEPT ![w] = {e}]
  /\ GoTo(w, "lock")
  /\ UNCHANGED <<dlq, lock, tmp, theCli, parked, accepted, overrun>>

(* ... or one that was held back is tried again (_drain_dlq_overflow).     *)
Retry(w) ==
  /\ at[w] = "idle" /\ row[w] # {}
  /\ GoTo(w, "lock")
  /\ UNCHANGED <<dlq, lock, row, tmp, theCli, history>>

(* _wal_file_lock: flock, tried every 20 ms ...                            *)
Acquire(w) ==
  /\ at[w] = "lock"
  /\ lock = None
  /\ lock' = w
  /\ GoTo(w, "copy")
  /\ UNCHANGED <<dlq, row, tmp, theCli, history>>

(* Mutant of GiveUp: wait for ever. *)
MutGiveUp(w) ==
  /\ at[w] = "lock"
  /\ FALSE
  /\ UNCHANGED vars

(* ... for _wal_lock_timeout: nothing is written, the caller keeps the row *)
GiveUp(w) ==
  /\ at[w] = "lock"
  /\ lock # None
  /\ GoTo(w, "idle")
  /\ UNCHANGED <<dlq, lock, row, tmp, theCli, history>>

(* Mutant of Release: the descriptor stays open. *)
MutRelease(w) == UNCHANGED lock

Release(w) == lock' = IF lock = w THEN None ELSE lock

(* The lines that are there, but not a torn one, and the new row           *)
Copy(w) ==
  /\ at[w] = "copy"
  /\ tmp' = [tmp EXCEPT ![ProcessOf[w]] = (dlq \ {Torn}) \cup row[w]]
  /\ GoTo(w, "replace")
  /\ UNCHANGED <<dlq, lock, row, theCli, history>>

(* os.replace, and the lock is let go.                                     *)
Replace(w) ==
  /\ at[w] = "replace"
  /\ dlq' = tmp[ProcessOf[w]]
  /\ tmp' = [tmp EXCEPT ![ProcessOf[w]] = {}]
  /\ parked' = parked \cup row[w]
  /\ row' = [row EXCEPT ![w] = {}]
  /\ Release(w)
  /\ GoTo(w, "idle")
  /\ UNCHANGED <<theCli, refused, accepted, overrun>>

WriteFails(w) ==
  /\ "disk" \in Env
  /\ at[w] \in {"copy", "replace"}
  /\ tmp' = [tmp EXCEPT ![ProcessOf[w]] = {}]
  /\ Release(w)
  /\ GoTo(w, "idle")
  /\ UNCHANGED <<dlq, row, theCli, history>>

(* The kernel lets go of the lock.                                         *)
Crash(p) ==
  /\ "crash" \in Env
  /\ \E w \in Writers : ProcessOf[w] = p /\ at[w] # "idle"
  /\ at' = [w \in Writers |-> IF ProcessOf[w] = p THEN "idle" ELSE at[w]]
  /\ row' = [w \in Writers |-> IF ProcessOf[w] = p THEN {} ELSE row[w]]
  /\ lock' = IF lock # None /\ ProcessOf[lock] = p THEN None ELSE lock
  /\ UNCHANGED <<dlq, tmp, theCli, history>>

----------------------------------------------------------------------------
(* nullrun-wal replay --execute                                            *)

theWriters == <<lock, at, row, tmp, refused, parked>>

(* read_dlq and _select_rows: --reason and --limit choose among the rows   *)
(* that can be parsed, and only --include-terminal takes the terminal ones *)
Selections(terminal) == SUBSET (dlq \cap IF terminal THEN Rows ELSE Rows \ Terminal)

Select ==
  /\ cli.at = "idle" /\ replays < MaxReplays
  /\ replays' = replays + 1
  /\ \E terminal \in BOOLEAN : \E chosen \in Selections(terminal) :
       cli' = IF chosen \ {Bare} = {} THEN NoReplay
              ELSE [cli EXCEPT !.at = "send", !.selected = chosen]
  /\ UNCHANGED <<dlq, theWriters, accepted, overrun>>

(* Mutant of Confirmed: only the buffer is looked at. *)
MutConfirmed(sent, buffered, parkedAgain) == sent \ buffered

(* _unconfirmed_event_ids: the buffer, the scratch DLQ and its holdover    *)
Confirmed(sent, buffered, parkedAgain) == sent \ (buffered \cup parkedAgain)

(* What the transport may have lost without a trace: what did not fit into *)
(* its buffer in an outage, and refusals in a bisected half                *)
LostInTransport(sent, ok, parkedAgain) ==
  {{}} \cup IF "outage" \in Env
            THEN {l \in SUBSET (sent \ (ok \cup parkedAgain)) : Cardinality(l) + BufferMax <= Cardinality(sent)}
            ELSE {}
       \cup IF "halves" \in Env /\ Cardinality(sent) > 1 THEN SUBSET (sent \ (ok \cup parkedAgain)) ELSE {}

(* track() and _do_flush of a transport of its own, with a scratch WAL.    *)
(* A row without its event raises afterwards, before anything is removed.  *)
Send ==
  /\ cli.at = "send"
  /\ LET sent == cli.selected \ {Bare} IN
     \E ok \in SUBSET sent : \E parkedAgain \in SUBSET (sent \ ok) :
       \E lost \in LostInTransport(sent, ok, parkedAgain) :
         LET buffered  == sent \ (ok \cup parkedAgain \cup lost)
             confirmed == Confirmed(sent, buffered, parkedAgain)
         IN  /\ buffered # {} => "outage" \in Env
             /\ accepted' = accepted \cup ok
             /\ overrun' = overrun \cup lost
             /\ cli' = IF Bare \in cli.selected \/ confirmed = {} THEN NoReplay
                       ELSE [cli EXCEPT !.at = "drop", !.confirmed = confirmed]
  /\ UNCHANGED <<dlq, theWriters, replays>>

(* _drop_confirmed reads the lines again, without the lock ...             *)
ReadAgain ==
  /\ cli.at = "drop"
  /\ cli' = IF dlq \cap cli.confirmed = {} THEN NoReplay
            ELSE [cli EXCEPT !.at = "rewrite", !.original = dlq]
  /\ UNCHANGED <<dlq, theWriters, replays, accepted, overrun>>

(* Mutant of Kept: the file is made of the rows that could be parsed. *)
MutKept == (cli.original \cap Rows) \ cli.confirmed

(* ... keeps every line it does not know to be confirmed, a torn one with  *)
(* a newline ...                                                           *)
Kept ==
  (cli.original \ (cli.confirmed \cup {Torn}))
    \cup IF Torn \in cli.original THEN {Broken} ELSE {}

(* ... and replaces the file, and with it what was appended meanwhile.     *)
Rewrite ==
  /\ cli.at = "rewrite"
  /\ dlq' = Kept
  /\ overrun' = overrun \cup ((dlq \ cli.original) \cap Events)
  /\ cli' = NoReplay
  /\ UNCHANGED <<theWriters, replays, accepted>>

(* The operator interrupts, or the temporary file cannot be written.       *)
ReplayFails ==
  /\ \/ cli.at # "idle" /\ "crash" \in Env
     \/ cli.at = "rewrite" /\ "disk" \in Env
  /\ cli' = NoReplay
  /\ UNCHANGED <<dlq, theWriters, replays, accepted, overrun>>

Replay == Select \/ Send \/ ReadAgain \/ Rewrite \/ ReplayFails

Append(w) ==
  \/ Refuse(w) \/ Retry(w) \/ Acquire(w) \/ GiveUp(w)
  \/ Copy(w) \/ Replace(w) \/ WriteFails(w)

Next ==
  \/ \E w \in Writers : Append(w)
  \/ \E p \in Processes : Crash(p)
  \/ Replay

Spec == Init /\ [][Next]_vars

(* A thread that has begun goes on: the lock is waited for a bounded time, *)
(* and the rest is a copy and an fsync.                                    *)
FairSpec ==
  /\ Spec
  /\ \A w \in Writers : WF_vars(GiveUp(w) \/ Acquire(w)) /\ WF_vars(Copy(w)) /\ WF_vars(Replace(w))

----------------------------------------------------------------------------
(* Types; and the threads at work on the file are exactly the holder of    *)
(* the WAL lock, which every way out of _write_events_atomic lets go.      *)
TypeOK ==
  /\ dlq \subseteq Lines
  /\ lock \in Writers \cup {None}
  /\ at \in [Writers -> {"idle", "lock", "copy", "replace"}]
  /\ row \in [Writers -> SUBSET Events]
  /\ tmp \in [Processes -> SUBSET Lines]
  /\ cli \in [at : {"idle", "send", "drop", "rewrite"}, selected : SUBSET Rows,
              confirmed : SUBSET Events, original : SUBSET Lines]
  /\ replays \in 0..MaxReplays
  /\ refused \cup parked \cup accepted \cup overrun \subseteq Events
  /\ \A w \in Writers : at[w] \in {"copy", "replace"} <=> lock = w

(* "The DLQ ends with every writer's rows" (docs/wal-and-dlq.md): a row    *)
(* whose append was reported as done is in the file until a replay got it  *)
(* accepted, however the threads and processes overlap, wait, crash and    *)
(* fail to write.  The two exceptions are a replay that rewrites the file  *)
(* while a row is being appended, and one whose own transport has lost     *)
(* rows that it then takes for confirmed.                                  *)
RowsSurvive == parked \subseteq dlq \cup accepted \cup overrun

(* A line that cannot be replayed, for want of JSON or of its event, is    *)
(* still there after the rewrite of a replay (_drop_confirmed: "the line   *)
(* an operator most needs to look at").                                    *)
UnreadableKept ==
  [][cli.at = "rewrite" /\ cli' = NoReplay /\ dlq' # dlq =>
       dlq \cap {Broken, Bare} \subseteq dlq' /\ (Torn \in dlq => {Torn, Broken} \cap dlq' # {})]_vars

(* An append comes to an end, with the row or without it, though the lock  *)
(* may be taken by others again and again.                                 *)
AppendEnds == \A w \in Writers : at[w] # "idle" ~> at[w] = "idle"
=============================================================================
