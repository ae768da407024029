---------------------------- MODULE ControlPlane ----------------------------
(***************************************************************************)
(* How the operator's kill and pause commands reach _remote_states, which  *)
(* every protected call reads: by WebSocket push                           *)
(* (src/src/nullrun/transport_websocket.py), by polling GET /status, and   *)
(* by the synchronous fetch of a call that finds nothing cached            *)
(* (src/src/nullrun/runtime.py).                                           *)
(*                                                                         *)
(* The WebSocket tasks run in one event loop and interleave at awaits; the *)
(* poller and the calling threads are threads of their own.  A message     *)
(* that carries a state names a version: the state is what the server's    *)
(* history has there.  The ACK of a push is informational and left out.    *)
(***************************************************************************)
EXTENDS Integers, Sequences, FiniteSets

CONSTANTS
  Workflows,      \* workflow ids
  Callers,        \* application threads
  Poller,         \* the nullrun-poller thread
  Modes,          \* which of AllModes the process may be started in
  Env,            \* which of EnvKinds the environment does
  MaxVersion,     \* bound: how often the operator changes one workflow
  MaxFaults,      \* bound: how many faults one behaviour has
  MaxReconnects   \* _MAX_RECONNECT_ATTEMPTS

AllModes ==
  { "ws",      \* the runtime's listener, _ws_connect_and_serve
    "conn",    \* a WebSocketConnection that nobody waits on
    "http" }   \* NULLRUN_TRANSPORT=http, or no organization_id

EnvKinds ==
  { "down",       \* a request or an attempt to reconnect fails
    "refuse",     \* the first connect fails
    "drop",       \* the connection is lost, with what is on the wire
    "repeat",     \* the server delivers an earlier push again
    "resync",     \* its broadcast channel overflows
    "rotate" }    \* the signing secret is rotated

ASSUME PollerIsNoCaller == Poller \notin Callers
ASSUME SomeWorkflow == Workflows # {}
ASSUME KnownKinds == Modes \subseteq AllModes /\ Env \subseteq EnvKinds
ASSUME Bounds == {MaxVersion, MaxFaults, MaxReconnects} \subseteq Nat

States   == {"Normal", "Paused", "Killed"}
Fetchers == Callers \cup {Poller}

VARIABLES
  hist,      \* server: the states each workflow has had; version v is the (v+1)st
  key,       \* server: version of the signing secret
  wire,      \* messages on the connection, in order
  mode,      \* how the process was started
  link,      \* the connection object: "new", "up" (_running), "lost", "closed" (_closed)
  last,      \* _last_version of each workflow, -1 if it has none
  failures,  \* _consecutive_reconnect_failures
  remote,    \* _remote_states; an entry {} has state "none", a missing one is not known
  todo,      \* workflows the poller still visits in this round
  fetch,     \* where each thread is in _fetch_remote_state
  crossed,   \* history: workflows whose last push was applied between the server's
             \* answer to a GET /status and the write of that answer
  alive,     \* shutdown() has not been called
  faults     \* faults so far

server  == <<hist, key>>
conn    == <<wire, link, last, failures>>
vars    == <<server, conn, mode, remote, todo, fetch, crossed, alive, faults>>

Entry   == [known : BOOLEAN, state : States \cup {"none"}, version : Int]
NoEntry == [known |-> FALSE, state |-> "none", version |-> -1]

Request == [step : {"idle", "get", "read", "write"}, wf : Workflows, answer : States,
            cached : Entry]

NoRequest == [step |-> "idle", wf |-> CHOOSE w \in Workflows : TRUE, answer |-> "Normal",
              cached |-> NoEntry]

(* The secret_key of the connection is the one that the process obtained   *)
(* when it authenticated, before it connects; nothing replaces it.         *)
secret == 0

(* What the server says now *)
Version(w) == Len(hist[w]) - 1
Now(w)     == hist[w][Len(hist[w])]

Fault(k) == k \in Env /\ faults < MaxFaults /\ faults' = faults + 1
NoFault  == UNCHANGED faults

(* The messages; vers is -1 for a workflow that a message does not name.   *)
Message(type, vers) == [type |-> type, vers |-> vers, key |-> key]
Nothing      == [w \in Workflows |-> -1]
Initial      == Message("initial_state", [w \in Workflows |-> Version(w)])
Change(w, v) == Message("state_change", [Nothing EXCEPT ![w] = v])

----------------------------------------------------------------------------
(* The server and the network                                              *)

(* The operator pauses, kills or resumes w; a client that is connected is  *)
(* sent the new state.                                                     *)
Operate(w, s) ==
  /\ Version(w) < MaxVersion /\ s # Now(w)
  /\ hist' = [hist EXCEPT ![w] = Append(@, s)]
  /\ wire' = IF link = "up" THEN Append(wire, Change(w, Version(w) + 1)) ELSE wire
  /\ UNCHANGED <<key, link, last, failures, mode, remote, todo, fetch, crossed, alive, faults>>

(* Delivery is at least once. *)
Redeliver(w, v) ==
  /\ link = "up" /\ v <= Version(w) /\ Fault("repeat")
  /\ wire' = Append(wire, Change(w, v))
  /\ UNCHANGED <<server, link, last, failures, mode, remote, todo, fetch, crossed, alive>>

(* What did not fit into the channel is gone. *)
Overflow ==
  /\ link = "up" /\ Fault("resync")
  /\ wire' = <<Message("resync_required", Nothing)>>
  /\ UNCHANGED <<server, link, last, failures, mode, remote, todo, fetch, crossed, alive>>

(* From here on the server signs with the new secret. *)
Rotate ==
  /\ Fault("rotate")
  /\ key' = key + 1
  /\ wire' = IF link = "up" THEN Append(wire, Message("key_rotated", Nothing)) ELSE wire
  /\ UNCHANGED <<hist, link, last, failures, mode, remote, todo, fetch, crossed, alive>>

----------------------------------------------------------------------------
(* WebSocketConnection                                                     *)

(* connect(): the server sends its current view first.  If it raises, the  *)
(* listener thread ends; nothing starts the poller in its place.           *)
Connect ==
  /\ mode # "http" /\ link = "new"
  /\ \/ link' = "up" /\ wire' = <<Initial>> /\ NoFault
     \/ link' = "closed" /\ Fault("refuse") /\ UNCHANGED wire
  /\ UNCHANGED <<server, last, failures, mode, remote, todo, fetch, crossed, alive>>

(* The entry that on_state_change writes for a push of version v *)
Pushed(w, v) == [known |-> TRUE, state |-> hist[w][v + 1], version |-> v]

(* Mutant of Fresh: pushes are not deduplicated by version. *)
MutFresh(m) == {w \in Workflows : m.vers[w] # -1}

(* _dispatch_state: the workflows of m whose version is news *)
Fresh(m) == {w \in Workflows : m.vers[w] > last[w]}

(* A thread holds an answer about w that it has not written yet. *)
Answered(w) == \E f \in Fetchers : fetch[f].step \in {"read", "write"} /\ fetch[f].wf = w

(* The message that _receive_loop hands to _handle_message, with its       *)
(* signature verified *)
Verified(types) ==
  link = "up" /\ wire # <<>> /\ Head(wire).key = secret /\ Head(wire).type \in types

(* initial_state and state_change: what is not news is dropped. *)
HandleState ==
  LET new == Fresh(Head(wire)) IN
  /\ Verified({"initial_state", "state_change"})
  /\ remote' = [w \in Workflows |->
                  IF w \in new THEN Pushed(w, Head(wire).vers[w]) ELSE remote[w]]
  /\ last' = [w \in Workflows |-> IF w \in new THEN Head(wire).vers[w] ELSE last[w]]
  /\ wire' = Tail(wire)
  /\ crossed' = (crossed \ new) \cup {w \in new : Answered(w)}
  /\ UNCHANGED <<server, link, failures, mode, todo, fetch, alive, faults>>

(* key_rotated: the handler creates the coroutine that would fetch the new *)
(* secret and does not await it.                                           *)
HandleKeyRotated ==
  /\ Verified({"key_rotated"})
  /\ wire' = Tail(wire)
  /\ UNCHANGED <<server, link, last, failures, mode, remote, todo, fetch, crossed, alive, faults>>

(* Mutant of HandleResync: the connection goes on. *)
MutHandleResync ==
  /\ Verified({"resync_required"})
  /\ last' = Nothing
  /\ wire' = Tail(wire)
  /\ UNCHANGED <<server, link, failures, mode, remote, todo, fetch, crossed, alive, faults>>

(* resync_required: _closed = True also ends the reconnect loop. *)
HandleResync ==
  /\ Verified({"resync_required"})
  /\ last' = Nothing
  /\ link' = "closed"
  /\ wire' = <<>>
  /\ UNCHANGED <<server, failures, mode, remote, todo, fetch, crossed, alive, faults>>

(* A message whose signature does not verify is dropped. *)
RejectSignature ==
  /\ link = "up" /\ wire # <<>> /\ Head(wire).key # secret
  /\ wire' = Tail(wire)
  /\ UNCHANGED <<server, link, last, failures, mode, remote, todo, fetch, crossed, alive, faults>>

Receive == HandleState \/ HandleKeyRotated \/ HandleResync \/ RejectSignature

(* The receive loop ends: _running = False. *)
Drop ==
  /\ link = "up" /\ Fault("drop")
  /\ link' = "lost"
  /\ wire' = <<>>
  /\ UNCHANGED <<server, last, failures, mode, remote, todo, fetch, crossed, alive>>

(* _reconnect_loop: try again, up to _MAX_RECONNECT_ATTEMPTS in a row.     *)
(* Clearing _last_version comes after _connect, without an await between.  *)
Reconnect ==
  /\ link = "lost"
  /\ \/ /\ failures < MaxReconnects
        /\ link' = "up" /\ wire' = <<Initial>>
        /\ failures' = 0 /\ last' = Nothing
        /\ NoFault
     \/ /\ failures < MaxReconnects /\ Fault("down")
        /\ failures' = failures + 1
        /\ UNCHANGED <<link, wire, last>>
     \/ /\ failures >= MaxReconnects
        /\ link' = "closed"
        /\ NoFault
        /\ UNCHANGED <<wire, failures, last>>
  /\ UNCHANGED <<server, mode, remote, todo, fetch, crossed, alive>>

(* _ws_connect_and_serve has waited for the first receive task and closes  *)
(* the connection when that ends, which cancels the reconnect loop,        *)
(* whatever it has got to.                                                 *)
ServeEnds ==
  /\ mode = "ws" /\ link = "lost"
  /\ link' = "closed"
  /\ UNCHANGED <<server, wire, last, failures, mode, remote, todo, fetch, crossed, alive, faults>>

----------------------------------------------------------------------------
(* GET /status                                                             *)

Ask(f, w) == fetch' = [fetch EXCEPT ![f] = [NoRequest EXCEPT !.step = "get", !.wf = w]]
Done(f)   == fetch' = [fetch EXCEPT ![f] = NoRequest]

Empty(w) == remote[w].state = "none"

(* _remote_state_for creates the entry of a workflow it does not know. *)
Known(w) == [remote EXCEPT ![w].known = TRUE]

(* check_control_plane of a thread that finds nothing cached.  With a      *)
(* state in the cache it only reads.                                       *)
CheckEmpty(c, w) ==
  /\ alive /\ fetch[c].step = "idle" /\ Empty(w)
  /\ remote' = Known(w)
  /\ Ask(c, w)
  /\ UNCHANGED <<server, conn, mode, todo, crossed, alive, faults>>

(* _poll_commands: a round over the workflows known when it begins *)
PollRound ==
  /\ mode = "http" /\ alive /\ todo = {} /\ fetch[Poller].step = "idle"
  /\ todo' = {w \in Workflows : remote[w].known}
  /\ todo' # {}
  /\ UNCHANGED <<server, conn, mode, remote, fetch, crossed, alive, faults>>

PollNext(w) ==
  /\ w \in todo /\ fetch[Poller].step = "idle"
  /\ todo' = todo \ {w}
  /\ Ask(Poller, w)
  /\ UNCHANGED <<server, conn, mode, remote, crossed, alive, faults>>

(* Mutant of FetchGet: the status code of the answer is not looked at. *)
MutFetchGet(f) ==
  /\ fetch[f].step = "get"
  /\ \/ fetch' = [fetch EXCEPT ![f] =
                    [@ EXCEPT !.step = "read", !.answer = Now(fetch[f].wf)]] /\ NoFault
     \/ fetch' = [fetch EXCEPT ![f] = [@ EXCEPT !.step = "read", !.answer = "none"]] /\ Fault("down")
  /\ UNCHANGED <<server, conn, mode, remote, todo, crossed, alive>>

(* _fetch_remote_state: the server answers, or the request fails. *)
FetchGet(f) ==
  /\ fetch[f].step = "get"
  /\ \/ fetch' = [fetch EXCEPT ![f] =
                    [@ EXCEPT !.step = "read", !.answer = Now(fetch[f].wf)]] /\ NoFault
     \/ Done(f) /\ Fault("down")
  /\ UNCHANGED <<server, conn, mode, remote, todo, crossed, alive>>

(* ... reads the cached entry under _states_lock ... *)
FetchRead(f) ==
  /\ fetch[f].step = "read"
  /\ remote' = Known(fetch[f].wf)
  /\ fetch' = [fetch EXCEPT ![f] =
                   [@ EXCEPT !.step = "write", !.cached = remote'[fetch[f].wf]]]
  /\ UNCHANGED <<server, conn, mode, todo, crossed, alive, faults>>

(* Mutant of FetchWrite: an entry that has a state is kept. *)
MutFetchWrite(f) ==
  LET w == fetch[f].wf IN
  /\ fetch[f].step = "write"
  /\ remote' = IF Empty(w) THEN [remote EXCEPT ![w] = [fetch[f].cached EXCEPT !.state = fetch[f].answer]]
               ELSE remote
  /\ Done(f)
  /\ UNCHANGED <<server, conn, mode, todo, crossed, alive, faults>>

(* ... and replaces it, under the lock again, by what it read with the     *)
(* answer's state.                                                         *)
FetchWrite(f) ==
  /\ fetch[f].step = "write"
  /\ remote' = [remote EXCEPT ![fetch[f].wf] = [fetch[f].cached EXCEPT !.state = fetch[f].answer]]
  /\ Done(f)
  /\ UNCHANGED <<server, conn, mode, todo, crossed, alive, faults>>

----------------------------------------------------------------------------

(* shutdown() lets the poller finish its round and closes the connection,  *)
(* unless connect() has not returned yet; a connection that the runtime    *)
(* does not own is closed by its owner.                                    *)
Shutdown ==
  /\ alive
  /\ alive' = FALSE
  /\ link' = IF link = "new" THEN link ELSE "closed"
  /\ wire' = <<>>
  /\ UNCHANGED <<server, last, failures, mode, remote, todo, fetch, crossed, faults>>

Init ==
  /\ hist = [w \in Workflows |-> <<"Normal">>]
  /\ key = 0
  /\ wire = <<>> /\ link = "new" /\ failures = 0
  /\ last = Nothing
  /\ mode \in Modes
  /\ remote = [w \in Workflows |-> NoEntry]
  /\ todo = {}
  /\ fetch = [f \in Fetchers |-> NoRequest]
  /\ crossed = {}
  /\ alive = TRUE /\ faults = 0

ConnStep == Connect \/ Receive \/ Reconnect
PollStep == PollRound \/ \E w \in Workflows : PollNext(w)
FetchStep(f) == FetchGet(f) \/ FetchRead(f) \/ FetchWrite(f)

ServerStep ==
  \/ \E w \in Workflows, s \in States : Operate(w, s)
  \/ \E w \in Workflows, v \in 0 .. MaxVersion : Redeliver(w, v)
  \/ Overflow
  \/ Rotate

Next ==
  \/ ServerStep
  \/ ConnStep \/ Drop \/ ServeEnds
  \/ \E c \in Callers, w \in Workflows : CheckEmpty(c, w)
  \/ PollStep
  \/ \E f \in Fetchers : FetchStep(f)
  \/ Shutdown

Spec == Init /\ [][Next]_vars

(* The event loop and the threads run, requests have timeouts, and the     *)
(* reconnect loop sleeps at most a minute.  Nothing is assumed of the      *)
(* operator, of the network or of the calling threads.                     *)
Fairness ==
  /\ WF_vars(Connect) /\ WF_vars(Receive) /\ WF_vars(Reconnect) /\ WF_vars(ServeEnds)
  /\ WF_vars(PollStep)
  /\ \A f \in Fetchers : WF_vars(FetchStep(f))

FairSpec == Spec /\ Fairness

----------------------------------------------------------------------------

Messages ==
  [type : {"initial_state", "state_change", "resync_required", "key_rotated"},
   vers : [Workflows -> Nat \cup {-1}], key : Nat]

TypeOK ==
  /\ hist \in [Workflows -> Seq(States)] /\ \A w \in Workflows : hist[w] # <<>>
  /\ key \in Nat
  /\ wire \in Seq(Messages)
  /\ mode \in AllModes
  /\ link \in {"new", "up", "lost", "closed"}
  /\ failures \in Nat
  /\ last \in [Workflows -> Nat \cup {-1}]
  /\ remote \in [Workflows -> Entry]
  /\ todo \subseteq Workflows
  /\ fetch \in [Fetchers -> Request]
  /\ crossed \subseteq Workflows
  /\ alive \in BOOLEAN /\ faults \in Nat

(* A connection that is open, verifies and has nothing left to deliver     *)
(* leaves the process with the server's own view: no redelivery, overflow, *)
(* reconnect that forgets the versions seen, or late answer to GET /status *)
(* is ahead of what the operator did last.  Except for a workflow whose    *)
(* last push crossed the write of an answer.                               *)
QuietMeansCurrent ==
  (link = "up" /\ wire = <<>> /\ secret = key) =>
    \A w \in Workflows \ crossed : remote[w] = Pushed(w, Version(w))

(* No push, redelivery, reconnect or fetch takes the cached state of a     *)
(* workflow back to an earlier version, so a kill that was applied is only *)
(* ever lifted by what the operator did after it.  Except that a thread    *)
(* which holds an answer when a push is applied writes it over the push.   *)
NeverStepsBack ==
  [][\A w \in Workflows :
       remote'[w].version >= remote[w].version \/ (w \in crossed /\ Answered(w))]_vars

(* The process still listens: it polls, or its connection is open or being *)
(* opened again and verifies with the server's secret.                     *)
Listening ==
  /\ alive
  /\ mode = "http" \/ (link \in {"up", "lost"} /\ secret = key)

(* A workflow whose state the operator no longer changes is known by that  *)
(* state from some moment on, as long as the process listens: whatever was *)
(* dropped, repeated, or missed while disconnected is made good, and so is *)
(* a push that crossed an answer, by the next one that does not.           *)
CatchesUp ==
  \A w \in Workflows : \A s \in States :
    <>[](Now(w) = s /\ Listening /\ remote[w].known /\ w \notin crossed) => <>[](remote[w].state = s)

(* The same without the condition on the channel: while the process runs,  *)
(* a command of the operator reaches every workflow that the process       *)
(* knows.  The docstring of _start_ws_listener says that the listener      *)
(* reconnects when the connection is lost.                                 *)
CommandsArrive ==
  \A w \in Workflows : \A s \in States :
    <>[](Now(w) = s /\ alive /\ remote[w].known) => <>[](remote[w].state = s)

=============================================================================
