------------------------------ MODULE LlmCall ------------------------------
(***************************************************************************)
(* A call to a model provider that the SDK observes without any code of    *)
(* the application: the patched httpx transports and requests.Session.send *)
(* (src/src/nullrun/instrumentation/auto.py, auto_requests.py), the        *)
(* LangChain callback around it (langgraph.py), and the way of its cost    *)
(* event through NullRunRuntime.track to the server (runtime.py).          *)
(*                                                                         *)
(* Money is reserved before a request leaves and must be settled, with the *)
(* tokens of the response or with none, when the response is there.  Two   *)
(* observers see one call; a list of fingerprints makes it one event.      *)
(*                                                                         *)
(* A task is one context of contextvars, and several tasks may share a     *)
(* thread.  A chain's cached gate answers are ProtectedCall's subject.     *)
(***************************************************************************)
EXTENDS Naturals, Sequences, FiniteSets, SequencesExt

CONSTANTS
  Tasks,
  Threads,
  OnThread,         \* the thread a task runs on
  Kinds,            \* the calls to consider, a subset of CallKinds
  LruMax,           \* DEDUP_LRU_MAX, 4096 in the code
  RunsMax,          \* _ACTIVE_RUNS_MAX
  Env,              \* which of EnvKinds the environment does
  MaxCalls,         \* bound: provider calls of one behaviour
  MaxFaults,        \* bound: what goes wrong in one behaviour
  MaxReservations   \* bound: reservations of one behaviour

EnvKinds ==
  { "anonymous",    \* a response without an id
    "alias",        \* the callback names the model by another name
    "old",          \* a reservation gets older than 295 s
    "kill",         \* the workflow is killed
    "lossy",        \* /track fails or refuses
    "cancelled",    \* the send, or the read of the body, is cancelled or interrupted
    "unparsed",     \* the extractor raises
    "protect" }     \* a protected function is entered

Paths == {"httpx", "requests", "stream"}      \* "stream": requests, stream=True

CallKinds ==
  [path : Paths,
   known : BOOLEAN,      \* the host is in PROVIDER_EXTRACTORS
   priced : BOOLEAN,     \* the body names a model: LlmRequestProfile
   observed : BOOLEAN]   \* LangChain makes the call, with NullRunCallback

ASSUME OnThreadKnown == OnThread \in [Tasks -> Threads]
ASSUME KindsKnown == Kinds \subseteq CallKinds
ASSUME EnvKnown == Env \subseteq EnvKinds
ASSUME BoundsNat == {LruMax, RunsMax, MaxCalls, MaxReservations, MaxFaults} \subseteq Nat \ {0}

VARIABLES
  pc,        \* where a task is
  call,      \* the call a task makes
  todo,      \* the track() calls it is about to make
  ambient,   \* _server_minted_execution_id_var, 0 for None
  old,       \* ... and whether it is beyond its 295 s
  pending,   \* _deferred_enforcement.pending, by thread
  killed,    \* the cached remote state is Killed
  lru,       \* _seen_track_fingerprints, the oldest first
  runs,      \* _active_runs of the callback, the oldest first
  begun,     \* calls begun so far
  minted,    \* reservations made so far
  faults     \* things that went wrong so far

vars == <<pc, call, todo, ambient, old, pending, killed, lru, runs, begun, minted, faults>>

Places == {"idle", "boundary", "start", "send", "provider", "returned", "over"}

(* "cancelled" and "unparsed": an exception that no handler of the hook    *)
(* catches, because it is a BaseException, or is raised outside the try.   *)
Uncaught == {"cancelled", "unparsed"}
Raised   == Uncaught \cup {"failed"}
Replies  == Raised \cup {"none", "usage", "bare", "large"}

Observers == {"transport", "callback"}

(* A call, and what became of it: the settlements the server was told of,  *)
(* and whether an event of it was lost (a fault, a kill), was dropped for  *)
(* want of a reservation, or had its fingerprint pushed out of the list.   *)
Call ==
  [number : 0..MaxCalls, kind : CallKinds,
   own : 0..MaxReservations,    \* the reservation of its own pre-flight
   reply : Replies,
   id : BOOLEAN,                \* the response has an id
   alias : BOOLEAN,             \* the callback sees another model name
   settled : SUBSET [res : 1..MaxReservations, usage : BOOLEAN, by : Observers],
   lost : BOOLEAN, dropped : BOOLEAN, pushed : BOOLEAN]

NoCall ==
  [number |-> 0, kind |-> [path |-> "httpx", known |-> FALSE, priced |-> FALSE, observed |-> FALSE],
   own |-> 0, reply |-> "none", id |-> TRUE, alias |-> FALSE, settled |-> {},
   lost |-> FALSE, dropped |-> FALSE, pushed |-> FALSE]

----------------------------------------------------------------------------
(* Fingerprints.  Calls without a response id all have the same one: there *)
(* is one model and one provider here.                                     *)

(* Mutant of LlmFingerprint: the response id is left out. *)
MutLlmFingerprint(n, id) == <<"anonymous", 0>>

(* _fingerprint_for_llm_call *)
LlmFingerprint(n, id) == IF id THEN <<"response", n>> ELSE <<"anonymous", 0>>

(* The callback takes the model from invocation_params first.              *)
CallbackFingerprint(c) ==
  IF ~c.alias THEN LlmFingerprint(c.number, c.id)
  ELSE IF c.id THEN <<"alias", c.number>> ELSE <<"anonymous_alias", 0>>

(* _fingerprint_for: the bytes of the body *)
BodyFingerprint(n) == <<"body", n>>

ReleaseFingerprint(r) == <<"release", r>>

NoFingerprint == <<"none", 0>>

Fingerprints ==
  {"response", "anonymous", "alias", "anonymous_alias", "body", "release", "none"}
    \X (0..MaxCalls + MaxReservations)

(* What track() is called with; res = 0 leaves it to the context.          *)
Event == [fp : Fingerprints, res : 0..MaxReservations, usage : BOOLEAN, by : Observers]

(* _release_reservation: nothing to do without a reservation of one's own  *)
Release(r) ==
  IF r = 0 THEN <<>>
  ELSE << [fp |-> ReleaseFingerprint(r), res |-> r, usage |-> FALSE, by |-> "transport"] >>

(* _emit, _emit_to_runtime *)
Emit(c, id) ==
  << [fp |-> IF c.kind.path = "requests" THEN BodyFingerprint(c.number)
             ELSE LlmFingerprint(c.number, id),
      res |-> c.own, usage |-> TRUE, by |-> "transport"] >>

(* _emit_streaming_skipped, and the one of requests, which has no          *)
(* fingerprint                                                             *)
Skipped(c) ==
  << [fp |-> IF c.kind.path = "stream" THEN NoFingerprint ELSE LlmFingerprint(c.number, FALSE),
      res |-> 0, usage |-> FALSE, by |-> "transport"] >>

----------------------------------------------------------------------------
Init ==
  /\ pc = [t \in Tasks |-> "idle"]
  /\ call = [t \in Tasks |-> NoCall]
  /\ todo = [t \in Tasks |-> <<>>]
  /\ ambient = [t \in Tasks |-> 0]
  /\ old = [t \in Tasks |-> FALSE]
  /\ pending = [h \in Threads |-> <<>>]
  /\ killed = FALSE
  /\ lru = <<>> /\ runs = <<>>
  /\ begun = 0 /\ minted = 0 /\ faults = 0

(* The task is there, and not inside track().                              *)
At(t, place) == pc[t] = place /\ todo[t] = <<>>

GoTo(t, place) == pc' = [pc EXCEPT ![t] = place]

Faults(n) == faults + n <= MaxFaults /\ faults' = faults + n

(* _capture_server_minted_execution_id: an answer with a reservation puts  *)
(* it into the context, in place of the one that is there ...              *)
Reserve(t) ==
  /\ minted < MaxReservations
  /\ minted' = minted + 1
  /\ ambient' = [ambient EXCEPT ![t] = minted']
  /\ old' = [old EXCEPT ![t] = FALSE]
  /\ UNCHANGED faults

(* ... and one without clears it: a refusal, or nobody answered.           *)
NoReserve(t) ==
  /\ Faults(1)
  /\ ambient' = [ambient EXCEPT ![t] = 0]
  /\ old' = [old EXCEPT ![t] = FALSE]
  /\ UNCHANGED minted

----------------------------------------------------------------------------
(* The gates of a protected function; a refusal raises.                    *)
Protect(t) ==
  /\ "protect" \in Env
  /\ At(t, "idle")
  /\ \/ Reserve(t) /\ GoTo(t, "boundary")
     \/ NoReserve(t) /\ GoTo(t, "boundary")
     \/ NoReserve(t) /\ UNCHANGED pc
  /\ UNCHANGED <<call, todo, pending, killed, lru, runs, begun>>

(* _raise_deferred_enforcement: the oldest refusal of a callback on this   *)
(* thread is raised instead of running the body.                           *)
Boundary(t) ==
  /\ At(t, "boundary")
  /\ GoTo(t, "idle")
  /\ pending' = [pending EXCEPT ![OnThread[t]] = IF @ = <<>> THEN @ ELSE Tail(@)]
  /\ UNCHANGED <<call, todo, ambient, old, killed, lru, runs, begun, minted, faults>>

(* The application calls a model ... *)
Begin(t) ==
  /\ At(t, "idle")
  /\ begun < MaxCalls
  /\ begun' = begun + 1
  /\ \E k \in Kinds :
       /\ call' = [call EXCEPT ![t] = [NoCall EXCEPT !.number = begun', !.kind = k]]
       /\ GoTo(t, IF k.observed THEN "start" ELSE "send")
  /\ UNCHANGED <<todo, ambient, old, pending, killed, lru, runs, minted, faults>>

(* ... and has its answer, or an exception.                                *)
Over(t) ==
  /\ At(t, "over")
  /\ GoTo(t, "idle")
  /\ call' = [call EXCEPT ![t] = NoCall]
  /\ UNCHANGED <<todo, ambient, old, pending, killed, lru, runs, begun, minted, faults>>

----------------------------------------------------------------------------
(* NullRunCallback                                                         *)

(* Mutant of Register: one run too many. *)
MutRegister(n) == runs' = IF Len(runs) > RunsMax THEN Append(Tail(runs), n) ELSE Append(runs, n)

(* _register_active_run *)
Register(n) == runs' = IF Len(runs) >= RunsMax THEN Append(Tail(runs), n) ELSE Append(runs, n)

(* on_llm_start asks the gate.  LangChain would swallow a refusal, so one  *)
(* of the classes in _ENFORCEMENT_EXCEPTIONS is kept for the boundary.     *)
OnLlmStart(t) ==
  /\ At(t, "start")
  /\ Register(call[t].number)
  /\ \/ Reserve(t) /\ UNCHANGED pending
     \/ NoReserve(t) /\ UNCHANGED pending
     \/ /\ NoReserve(t)
        /\ pending' = [pending EXCEPT ![OnThread[t]] = Append(@, call[t].number)]
  /\ GoTo(t, "send")
  /\ UNCHANGED <<call, todo, killed, lru, begun>>

(* _end_run: gone already when later runs took its place                   *)
EndRun(n) ==
  \/ \E i \in DOMAIN runs : runs[i] = n /\ runs' = RemoveAt(runs, i)
  \/ n \notin ToSet(runs) /\ UNCHANGED runs

(* on_llm_end tracks what LangChain read out of the response, and ends the *)
(* run.  It has no explicit reservation.                                   *)
OnLlmEnd(t) ==
  /\ At(t, "returned")
  /\ todo' = [todo EXCEPT ![t] =
       << [fp |-> CallbackFingerprint(call[t]), res |-> 0, usage |-> call[t].reply # "bare", by |-> "callback"] >>]
  /\ EndRun(call[t].number)
  /\ GoTo(t, "over")
  /\ UNCHANGED <<call, ambient, old, pending, killed, lru, begun, minted, faults>>

----------------------------------------------------------------------------
(* handle_request, handle_async_request, _wrapped_send                     *)

(* _check_kill_before_send, which requests does not have                   *)
StopsKill(t) == call[t].kind.path = "httpx" /\ killed

Killed(t) ==
  /\ At(t, "send")
  /\ StopsKill(t)
  /\ GoTo(t, "over")
  /\ UNCHANGED <<call, todo, ambient, old, pending, killed, lru, runs, begun, minted, faults>>

(* _ambient_reservation_in_scope *)
AmbientInScope(t) == ambient[t] # 0 /\ ~old[t]

NeedsPreflight(t) ==
  call[t].kind.known /\ call[t].kind.priced /\ ~AmbientInScope(t)

(* A request that streams is accounted for before it is sent.              *)
Leave(t, own) ==
  /\ GoTo(t, "provider")
  /\ call' = [call EXCEPT ![t].own = own]
  /\ todo' = [todo EXCEPT ![t] =
       IF call[t].kind.path = "stream" THEN Skipped(call[t]) \o Release(own) ELSE <<>>]

(* Another host, a body without a model, or the scope has a reservation.   *)
SendUnreserved(t) ==
  /\ At(t, "send")
  /\ ~StopsKill(t)
  /\ ~NeedsPreflight(t)
  /\ Leave(t, 0)
  /\ UNCHANGED <<ambient, old, pending, killed, lru, runs, begun, minted, faults>>

(* _preflight_llm_call: reserved, failed open, or refused *)
Preflight(t) ==
  /\ At(t, "send")
  /\ ~StopsKill(t)
  /\ NeedsPreflight(t)
  /\ \/ Reserve(t) /\ Leave(t, minted')
     \/ NoReserve(t) /\ Leave(t, 0)
     \/ NoReserve(t) /\ GoTo(t, "over") /\ UNCHANGED <<call, todo>>
  /\ UNCHANGED <<pending, killed, lru, runs, begun>>

(* Mutant of Settle: a response without usage keeps its reservation. *)
MutSettle(c, reply, id) ==
  IF c.kind.known /\ c.kind.path # "stream" /\ reply \in {"usage", "large"} THEN Emit(c, id) ELSE <<>>

(* What the hook does with the outcome: tokens in the body, none that can  *)
(* be read, a body beyond MAX_RESPONSE_BYTES, which requests reads all the *)
(* same, or an exception, which leaves the reservation when it is uncaught. *)
Settle(c, reply, id) ==
  IF ~c.kind.known \/ c.kind.path = "stream" THEN <<>>
  ELSE CASE reply = "usage" \/ (reply = "large" /\ c.kind.path = "requests") -> Emit(c, id)
         [] reply = "large" /\ c.kind.path = "httpx" -> Skipped(c) \o Release(c.own)
         [] reply \in Uncaught -> <<>>
         [] OTHER -> Release(c.own)

Provider(t) ==
  /\ At(t, "provider")
  /\ \E reply \in Replies \ {"none"}, id \in BOOLEAN, alias \in BOOLEAN :
       /\ ~id => "anonymous" \in Env /\ reply \notin Raised
       /\ alias => "alias" \in Env /\ reply \notin Raised /\ call[t].kind.observed
       /\ reply \in Uncaught => reply \in Env
       /\ reply = "unparsed" => call[t].kind.known /\ call[t].kind.path # "stream"
       /\ Faults((IF id THEN 0 ELSE 1) + (IF alias THEN 1 ELSE 0) + (IF reply \in Uncaught THEN 1 ELSE 0))
       /\ call' = [call EXCEPT ![t] = [@ EXCEPT !.reply = reply, !.id = id, !.alias = alias]]
       /\ todo' = [todo EXCEPT ![t] = Settle(call[t], reply, id)]
       /\ GoTo(t, IF reply \notin Raised /\ call[t].kind.observed THEN "returned" ELSE "over")
  /\ UNCHANGED <<ambient, old, pending, killed, lru, runs, begun, minted>>

----------------------------------------------------------------------------
(* NullRunRuntime.track                                                    *)

Seen(fp) == fp # NoFingerprint /\ fp \in ToSet(lru)

(* OrderedDict.move_to_end *)
MoveToEnd(s, i) == Append(RemoveAt(s, i), s[i])

(* _fingerprint_is_seen moves what it finds to the end ...                 *)
Duplicate(t) ==
  /\ todo[t] # <<>>
  /\ Seen(Head(todo[t]).fp)
  /\ \E i \in DOMAIN lru : lru[i] = Head(todo[t]).fp /\ lru' = MoveToEnd(lru, i)
  /\ todo' = [todo EXCEPT ![t] = Tail(@)]
  /\ UNCHANGED <<pc, call, ambient, old, pending, killed, runs, begun, minted, faults>>

(* Mutant of Remember: nothing is remembered. *)
MutRemember(fp) == lru

(* ... and puts what it does not find there, before anything is sent.      *)
Remember(fp) ==
  IF fp = NoFingerprint THEN lru
  ELSE IF Len(lru) < LruMax THEN Append(lru, fp)
  ELSE Append(Tail(lru), fp)

(* History: whose fingerprint is no longer in the list then *)
Pushed(c, new) == LlmFingerprint(c.number, c.id) \in ToSet(lru) \ ToSet(new)

(* _route_track: the caller's reservation wins over the one of the context *)
Target(t, e) == IF e.res # 0 THEN e.res ELSE IF old[t] THEN 0 ELSE ambient[t]

(* What becomes of an event that is new: check_control_plane raises when   *)
(* the workflow is killed, _route_track drops what has no reservation, and *)
(* track_single tells the server.                                          *)
Tracked(t, e) ==
  IF killed THEN [call[t] EXCEPT !.lost = TRUE]
  ELSE IF Target(t, e) = 0 THEN [call[t] EXCEPT !.dropped = TRUE]
  ELSE [call[t] EXCEPT !.settled = @ \cup {[res |-> Target(t, e), usage |-> e.usage, by |-> e.by]}]

(* track() with an event that is new; _enrich_event drops a reservation of *)
(* the context that is too old.                                            *)
New(t, e, c) ==
  /\ ~Seen(e.fp)
  /\ lru' = Remember(e.fp)
  /\ call' = [u \in Tasks |-> LET d == IF u = t THEN c ELSE call[u]
                             IN  [d EXCEPT !.pushed = @ \/ Pushed(d, lru')]]
  /\ ambient' = [ambient EXCEPT ![t] = IF old[t] THEN 0 ELSE @]
  /\ old' = [old EXCEPT ![t] = FALSE]
  /\ todo' = [todo EXCEPT ![t] = Tail(@)]
  /\ UNCHANGED <<pc, pending, killed, runs, begun, minted>>

Track(t) ==
  /\ todo[t] # <<>>
  /\ New(t, Head(todo[t]), Tracked(t, Head(todo[t])))
  /\ UNCHANGED faults

(* track_single fails, or the server refuses to settle; whoever called     *)
(* track() swallows what it raises, and nobody tries again.                *)
TrackFails(t) ==
  /\ "lossy" \in Env
  /\ todo[t] # <<>>
  /\ ~killed /\ Target(t, Head(todo[t])) # 0
  /\ New(t, Head(todo[t]), [call[t] EXCEPT !.lost = TRUE])
  /\ Faults(1)

----------------------------------------------------------------------------
(* SERVER_MINTED_RESERVATION_MAX_AGE_SECONDS have passed.                  *)
GrowOld(t) ==
  /\ "old" \in Env
  /\ AmbientInScope(t)
  /\ old' = [old EXCEPT ![t] = TRUE]
  /\ Faults(1)
  /\ UNCHANGED <<pc, call, todo, ambient, pending, killed, lru, runs, begun, minted>>

Kill ==
  /\ "kill" \in Env /\ ~killed
  /\ killed' = TRUE
  /\ Faults(1)
  /\ UNCHANGED <<pc, call, todo, ambient, old, pending, lru, runs, begun, minted>>

TaskStep(t) ==
  \/ Protect(t) \/ Boundary(t) \/ Begin(t) \/ Over(t)
  \/ OnLlmStart(t) \/ OnLlmEnd(t)
  \/ Killed(t) \/ SendUnreserved(t) \/ Preflight(t) \/ Provider(t)
  \/ Duplicate(t) \/ Track(t) \/ TrackFails(t)
  \/ GrowOld(t)

Next == Kill \/ \E t \in Tasks : TaskStep(t)

Spec == Init /\ [][Next]_vars

----------------------------------------------------------------------------
(* Types and bounds: the callback's table of runs and the list of          *)
(* fingerprints never exceed their limits, though failed calls leave their *)
(* runs behind.                                                            *)
TypeOK ==
  /\ pc \in [Tasks -> Places]
  /\ \A t \in Tasks :
       /\ call[t] \in Call
       /\ todo[t] \in Seq(Event) /\ Len(todo[t]) <= 2
  /\ ambient \in [Tasks -> 0..MaxReservations]
  /\ old \in [Tasks -> BOOLEAN]
  /\ \A h \in Threads : pending[h] \in Seq(1..MaxCalls)
  /\ killed \in BOOLEAN
  /\ lru \in Seq(Fingerprints) /\ Len(lru) <= LruMax /\ IsInjective(lru)
  /\ runs \in Seq(1..MaxCalls) /\ Len(runs) <= RunsMax
  /\ begun \in 0..MaxCalls /\ minted \in 0..MaxReservations /\ faults \in 0..MaxFaults

Usage(c) == {s \in c.settled : s.usage}

(* The tokens of one provider call are booked at most once, though both    *)
(* the transport and the callback see them: unless the callback read       *)
(* another model name, the transport's fingerprint is of the body          *)
(* (requests), or the first fingerprint was pushed out of the list before  *)
(* the second came.                                                        *)
UsageBookedOnce ==
  \A t \in Tasks :
     \/ Cardinality(Usage(call[t])) <= 1
     \/ call[t].alias
     \/ call[t].kind.path = "requests"
     \/ call[t].pushed

(* Tokens the transport could read are booked, by one of the observers,    *)
(* unless the workflow was killed, /track failed, the response has no id,  *)
(* or there was no reservation that the call could have used.  A call that *)
(* reserved for itself always has one.                                     *)
UsageAccounted ==
  \A t \in Tasks : LET c == call[t] IN
     At(t, "over") /\ c.reply = "usage" /\ c.kind.known /\ c.kind.path # "stream" =>
        \/ Usage(c) # {}
        \/ c.lost
        \/ ~c.id
        \/ c.dropped /\ c.own = 0

(* A reservation that was made for a provider call is settled or released  *)
(* when the call is over, with a response or a failure and whatever the    *)
(* context holds by then, unless /track failed, the workflow was killed,   *)
(* the response has no id and was taken for another one, or the hook was   *)
(* left by an exception it does not catch: a cancelled send or an          *)
(* extractor that raises.                                                  *)
ReservationClosed ==
  \A t \in Tasks : LET c == call[t] IN
     At(t, "over") /\ c.own # 0 =>
        \/ \E s \in c.settled : s.res = c.own
        \/ c.lost
        \/ c.reply = "usage" /\ ~c.id
        \/ c.reply \in Uncaught
=============================================================================
