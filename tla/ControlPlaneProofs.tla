------------------------- MODULE ControlPlaneProofs -------------------------
(***************************************************************************)
(* Proofs about ControlPlane, for any number of workflows and calling      *)
(* threads, any number of changes and faults, and every mode.              *)
(***************************************************************************)
EXTENDS ControlPlane, TLAPS

(* The initial values are of their types. *)
LEMMA InitialTypes ==
  NoEntry \in Entry /\ NoRequest \in Request /\ Nothing \in [Workflows -> Nat \cup {-1}]
<1>1. NoEntry \in Entry
  BY DEF NoEntry, Entry, States
<1>2. PICK w \in Workflows : w = CHOOSE x \in Workflows : TRUE
  BY SomeWorkflow
<1>3. NoRequest \in Request
  BY <1>1, <1>2 DEF NoRequest, Request, States
<1>4. Nothing \in [Workflows -> Nat \cup {-1}]
  BY DEF Nothing
<1> QED
  BY <1>1, <1>3, <1>4

(* A request that begins is a request. *)
LEMMA AskType ==
  ASSUME TypeOK, NEW f \in Fetchers, NEW w \in Workflows, Ask(f, w)
  PROVE  fetch' \in [Fetchers -> Request]
<1>1. [NoRequest EXCEPT !.step = "get", !.wf = w] \in Request
  BY InitialTypes DEF Request
<1> QED
  BY <1>1 DEF TypeOK, Ask

(* Knowing a workflow changes nothing else in its entry. *)
LEMMA KnownType ==
  ASSUME TypeOK, NEW w \in Workflows
  PROVE  /\ Known(w) \in [Workflows -> Entry]
         /\ \A x \in Workflows : /\ Known(w)[x].state = remote[x].state
                                 /\ Known(w)[x].version = remote[x].version
<1>1. remote[w] \in Entry
  BY DEF TypeOK
<1>2. [remote[w] EXCEPT !.known = TRUE] \in Entry
  BY <1>1 DEF Entry
<1>3. Known(w) = [remote EXCEPT ![w] = [remote[w] EXCEPT !.known = TRUE]]
  BY DEF Known
<1>4. Known(w) \in [Workflows -> Entry]
  BY <1>2, <1>3 DEF TypeOK
<1>5. ASSUME NEW x \in Workflows
      PROVE  Known(w)[x].state = remote[x].state /\ Known(w)[x].version = remote[x].version
  BY <1>1, <1>3 DEF TypeOK, Entry
<1> QED
  BY <1>4, <1>5

(* A version is a natural number and names a state. *)
LEMMA VersionType ==
  ASSUME TypeOK, NEW w \in Workflows
  PROVE  /\ Version(w) \in Nat /\ Len(hist[w]) \in Nat /\ Len(hist[w]) = Version(w) + 1
         /\ Now(w) \in States
<1>1. hist[w] \in Seq(States) /\ hist[w] # <<>>
  BY DEF TypeOK
<1>2. Len(hist[w]) \in Nat /\ Len(hist[w]) > 0
  BY <1>1
<1> QED
  BY <1>1, <1>2 DEF Version, Now

(* The messages are messages. *)
LEMMA MessageTypes ==
  ASSUME TypeOK
  PROVE  /\ Initial \in Messages
         /\ \A w \in Workflows, v \in Nat : Change(w, v) \in Messages
         /\ Message("resync_required", Nothing) \in Messages
         /\ Message("key_rotated", Nothing) \in Messages
<1>1. [w \in Workflows |-> Version(w)] \in [Workflows -> Nat \cup {-1}]
  BY VersionType
<1>2. ASSUME NEW w \in Workflows, NEW v \in Nat
      PROVE  [Nothing EXCEPT ![w] = v] \in [Workflows -> Nat \cup {-1}]
  BY DEF Nothing
<1>3. key \in Nat
  BY DEF TypeOK
<1> QED
  BY <1>1, <1>2, <1>3, InitialTypes DEF Initial, Change, Message, Messages

(* A push is an entry. *)
LEMMA PushedType ==
  ASSUME TypeOK, NEW w \in Workflows, NEW v \in 0 .. Version(w)
  PROVE  Pushed(w, v) \in Entry
<1>1. hist[w] \in Seq(States) /\ v + 1 \in 1 .. Len(hist[w])
  BY VersionType DEF TypeOK
<1>2. hist[w][v + 1] \in States
  BY <1>1
<1> QED
  BY <1>2 DEF Pushed, Entry

(* No message on the wire names a version the server does not have. *)
Foreseen ==
  \A i \in 1 .. Len(wire) : \A w \in Workflows : wire[i].vers[w] <= Version(w)

(* What a message that is taken from the wire may change *)
LEMMA HeadForeseen ==
  ASSUME TypeOK, Foreseen, wire # <<>>
  PROVE  /\ Head(wire) \in Messages
         /\ \A w \in Fresh(Head(wire)) :
              w \in Workflows /\ Head(wire).vers[w] \in 0 .. Version(w)
<1>1. wire \in Seq(Messages) /\ Len(wire) >= 1 /\ Head(wire) = wire[1]
  BY DEF TypeOK
<1>2. Head(wire) \in Messages
  BY <1>1
<1>3. ASSUME NEW w \in Fresh(Head(wire))
      PROVE  w \in Workflows /\ Head(wire).vers[w] \in 0 .. Version(w)
  <2>1. w \in Workflows /\ Head(wire).vers[w] > last[w] /\ last[w] \in Nat \cup {-1}
    BY DEF Fresh, TypeOK
  <2>2. Head(wire).vers[w] \in Nat \cup {-1}
    BY <1>2, <2>1 DEF Messages
  <2>3. Head(wire).vers[w] <= Version(w)
    BY <1>1, <2>1 DEF Foreseen
  <2> QED
    BY <2>1, <2>2, <2>3, VersionType
<1> QED
  BY <1>2, <1>3

(* The wire keeps its promise when messages are taken off it or added. *)
LEMMA WireStep ==
  ASSUME TypeOK, Foreseen, hist' = hist,
         \/ wire' = wire
         \/ wire' = <<>>
         \/ wire # <<>> /\ wire' = Tail(wire)
         \/ \E m \in Messages : /\ wire' = <<m>> \/ wire' = Append(wire, m)
                                /\ \A w \in Workflows : m.vers[w] <= Version(w)
  PROVE  Foreseen' /\ wire' \in Seq(Messages)
<1>1. wire \in Seq(Messages)
  BY DEF TypeOK
<1>a. CASE wire' = wire
  BY <1>1, <1>a DEF Foreseen, Version
<1>2. CASE wire' = <<>>
  <2>1. Len(wire') = 0 /\ wire' \in Seq(Messages)
    BY <1>2
  <2> QED
    BY <2>1 DEF Foreseen
<1>3. CASE wire # <<>> /\ wire' = Tail(wire)
  <2>1. /\ Tail(wire) \in Seq(Messages) /\ Len(Tail(wire)) = Len(wire) - 1
        /\ \A i \in 1 .. Len(Tail(wire)) : Tail(wire)[i] = wire[i + 1] /\ i + 1 \in 1 .. Len(wire)
    BY <1>1, <1>3
  <2> QED
    BY <1>3, <2>1 DEF Foreseen, Version
<1>4. ASSUME NEW m \in Messages, wire' = <<m>> \/ wire' = Append(wire, m),
             \A w \in Workflows : m.vers[w] <= Version(w)
      PROVE  Foreseen' /\ wire' \in Seq(Messages)
  <2>1. CASE wire' = <<m>>
    BY <1>4, <2>1 DEF Foreseen, Version
  <2>2. CASE wire' = Append(wire, m)
    <3>1. /\ Append(wire, m) \in Seq(Messages) /\ Len(Append(wire, m)) = Len(wire) + 1
          /\ \A i \in 1 .. Len(wire) : Append(wire, m)[i] = wire[i]
          /\ Append(wire, m)[Len(wire) + 1] = m /\ Len(wire) \in Nat
      BY <1>1, <1>4
    <3> QED
      BY <1>4, <2>2, <3>1 DEF Foreseen, Version
  <2> QED
    BY <1>4, <2>1, <2>2
<1> QED
  BY <1>a, <1>2, <1>3, <1>4

(* The bounds that WireStep asks for *)
LEMMA MessageVersions ==
  ASSUME TypeOK
  PROVE  /\ \A w \in Workflows : Initial.vers[w] <= Version(w)
         /\ \A x \in Workflows, v \in Nat : v <= Version(x) =>
              \A w \in Workflows : Change(x, v).vers[w] <= Version(w)
         /\ \A w \in Workflows : Message("resync_required", Nothing).vers[w] <= Version(w)
         /\ \A w \in Workflows : Message("key_rotated", Nothing).vers[w] <= Version(w)
<1>1. \A w \in Workflows : Version(w) \in Nat
  BY VersionType
<1> QED
  BY <1>1 DEF Initial, Change, Message, Nothing

(* An operator's command, with the push that announces it *)
LEMMA OperateTyped ==
  ASSUME TypeOK, Foreseen, NEW w \in Workflows, NEW s \in States, Operate(w, s)
  PROVE  TypeOK' /\ Foreseen'
<1> USE DEF Operate
<1>1. /\ hist' \in [Workflows -> Seq(States)]
      /\ hist'[w] = Append(hist[w], s) /\ \A x \in Workflows \ {w} : hist'[x] = hist[x]
  BY DEF TypeOK
<1>2. Len(hist'[w]) = Len(hist[w]) + 1
  BY <1>1 DEF TypeOK
<1>3. Version(w)' = Version(w) + 1 /\ \A x \in Workflows \ {w} : Version(x)' = Version(x)
  BY <1>1, <1>2, VersionType DEF Version
<1>4. \A x \in Workflows : hist'[x] # <<>>
  <2>1. Len(hist'[w]) > 0
    BY <1>2, VersionType
  <2>2. hist'[w] # <<>>
    <3>1. Len(<<>>) = 0 /\ Len(hist'[w]) # 0
      BY <2>1
    <3> QED
      BY <3>1, Zenon
  <2> QED
    BY <1>1, <2>2 DEF TypeOK
<1>5. \A x \in Workflows : Version(x) \in Nat /\ Version(x)' \in Nat /\ Version(x) <= Version(x)'
  BY <1>3, VersionType
<1>6. /\ Change(w, Version(w) + 1) \in Messages
      /\ \A x \in Workflows : Change(w, Version(w) + 1).vers[x] <= Version(x)'
  BY <1>3, <1>5, MessageTypes DEF Change, Message, Nothing
<1>7. wire \in Seq(Messages) /\ wire' \in Seq(Messages)
  BY <1>6 DEF TypeOK
<1>8. Foreseen'
  <2>1. ASSUME NEW i \in 1 .. Len(wire), NEW x \in Workflows
        PROVE  wire[i].vers[x] <= Version(x)'
    <3>1. wire[i] \in Messages
      BY <1>7
    <3>2. wire[i].vers[x] \in Nat \cup {-1}
      BY <3>1 DEF Messages
    <3> QED
      BY <1>5, <3>2 DEF Foreseen
  <2>2. CASE wire' = wire
    BY <2>1, <2>2 DEF Foreseen
  <2>3. CASE wire' = Append(wire, Change(w, Version(w) + 1))
    <3> DEFINE m == Change(w, Version(w) + 1)
    <3> HIDE DEF m
    <3>0. m \in Messages /\ \A x \in Workflows : m.vers[x] <= Version(x)'
      BY <1>6 DEF m
    <3>1. /\ Len(Append(wire, m)) = Len(wire) + 1
          /\ \A i \in 1 .. Len(wire) : Append(wire, m)[i] = wire[i]
          /\ Append(wire, m)[Len(wire) + 1] = m /\ Len(wire) \in Nat
      BY <1>7, <3>0
    <3>2. wire' = Append(wire, m)
      BY <2>3 DEF m
    <3> QED
      BY <2>1, <3>0, <3>1, <3>2 DEF Foreseen
  <2> QED
    BY <2>2, <2>3
<1> QED
  BY <1>1, <1>4, <1>7, <1>8 DEF TypeOK

----------------------------------------------------------------------------

(* Every variable keeps its type; in particular no thread ever stores a    *)
(* state that the server has not sent.  Inductive with Foreseen.           *)
THEOREM TypeCorrect == Spec => [](TypeOK /\ Foreseen)
<1>1. Init => TypeOK /\ Foreseen
  <2> SUFFICES ASSUME Init PROVE TypeOK /\ Foreseen
    OBVIOUS
  <2>1. wire \in Seq(Messages) /\ Len(wire) = 0
    BY DEF Init
  <2>2. hist \in [Workflows -> Seq(States)] /\ \A w \in Workflows : hist[w] # <<>>
    BY DEF Init, States
  <2>3. TypeOK
    BY <2>1, <2>2, InitialTypes, KnownKinds DEF Init, TypeOK
  <2> QED
    BY <2>1, <2>3 DEF Foreseen
<1>2. TypeOK /\ Foreseen /\ [Next]_vars => TypeOK' /\ Foreseen'
  <2> SUFFICES ASSUME TypeOK, Foreseen, [Next]_vars PROVE TypeOK' /\ Foreseen'
    OBVIOUS
  <2> USE DEF server, conn, NoFault, Fault
  <2>1. ASSUME NEW w \in Workflows, NEW s \in States, Operate(w, s) PROVE TypeOK' /\ Foreseen'
    BY <2>1, OperateTyped
  <2>2. ASSUME NEW w \in Workflows, NEW v \in 0 .. MaxVersion, Redeliver(w, v)
        PROVE  TypeOK' /\ Foreseen'
    <3>1. v \in Nat
      BY Bounds
    <3>2. Foreseen' /\ wire' \in Seq(Messages)
      BY <2>2, <3>1, WireStep, MessageTypes, MessageVersions DEF Redeliver
    <3> QED
      BY <2>2, <3>2 DEF Redeliver, TypeOK
  <2>3. CASE Overflow
    <3>1. Foreseen' /\ wire' \in Seq(Messages)
      BY <2>3, WireStep, MessageTypes, MessageVersions DEF Overflow
    <3> QED
      BY <2>3, <3>1 DEF Overflow, TypeOK
  <2>4. CASE Rotate
    <3>1. Foreseen' /\ wire' \in Seq(Messages)
      BY <2>4, WireStep, MessageTypes, MessageVersions DEF Rotate
    <3> QED
      BY <2>4, <3>1 DEF Rotate, TypeOK
  <2>5. CASE Connect
    <3>1. Foreseen' /\ wire' \in Seq(Messages)
      BY <2>5, WireStep, MessageTypes, MessageVersions DEF Connect
    <3> QED
      BY <2>5, <3>1 DEF Connect, TypeOK
  <2>6. CASE HandleState
    <3> DEFINE m == Head(wire)
               new == Fresh(m)
    <3>1. Foreseen' /\ wire' \in Seq(Messages)
      BY <2>6, WireStep DEF HandleState, Verified
    <3>2. \A w \in new : w \in Workflows /\ m.vers[w] \in 0 .. Version(w)
      BY <2>6, HeadForeseen DEF HandleState, Verified
    <3>3. /\ remote' = [w \in Workflows |-> IF w \in new THEN Pushed(w, m.vers[w]) ELSE remote[w]]
          /\ last' = [w \in Workflows |-> IF w \in new THEN m.vers[w] ELSE last[w]]
      BY <2>6 DEF HandleState
    <3> HIDE DEF m, new
    <3>4. remote' \in [Workflows -> Entry]
      <4>1. ASSUME NEW w \in Workflows PROVE remote'[w] \in Entry
        <5>1. CASE w \in new
          BY <3>2, <3>3, <5>1, PushedType
        <5>2. CASE w \notin new
          BY <3>3, <5>2 DEF TypeOK
        <5> QED
          BY <5>1, <5>2
      <4> QED
        BY <3>3, <4>1
    <3>5. last' \in [Workflows -> Nat \cup {-1}]
      <4>1. \A w \in new : m.vers[w] \in Nat
        BY <3>2, VersionType
      <4> QED
        BY <3>3, <4>1 DEF TypeOK
    <3>6. crossed' \subseteq Workflows
      BY <2>6 DEF HandleState, Fresh, TypeOK
    <3> QED
      BY <2>6, <3>1, <3>4, <3>5, <3>6 DEF HandleState, TypeOK
  <2>6a. CASE HandleKeyRotated \/ RejectSignature
    <3>1. Foreseen' /\ wire' \in Seq(Messages)
      BY <2>6a, WireStep DEF HandleKeyRotated, RejectSignature, Verified
    <3> QED
      BY <2>6a, <3>1 DEF HandleKeyRotated, RejectSignature, TypeOK
  <2>6b. CASE HandleResync
    <3>1. Foreseen' /\ wire' \in Seq(Messages)
      BY <2>6b, WireStep DEF HandleResync
    <3> QED
      BY <2>6b, <3>1, InitialTypes DEF HandleResync, TypeOK
  <2>7. CASE Reconnect
    <3>1. Foreseen' /\ wire' \in Seq(Messages)
      BY <2>7, WireStep, MessageTypes, MessageVersions DEF Reconnect
    <3>2. failures' \in Nat /\ link' \in {"new", "up", "lost", "closed"} /\ faults' \in Nat
      BY <2>7, Bounds DEF Reconnect, TypeOK
    <3>3. last' \in [Workflows -> Nat \cup {-1}]
      BY <2>7, InitialTypes DEF Reconnect, TypeOK
    <3> QED
      BY <2>7, <3>1, <3>2, <3>3 DEF Reconnect, TypeOK
  <2>8. CASE Drop \/ ServeEnds \/ Shutdown
    <3>1. Foreseen' /\ wire' \in Seq(Messages)
      BY <2>8, WireStep DEF Drop, ServeEnds, Shutdown
    <3>2. CASE Drop
      BY <3>1, <3>2 DEF Drop, TypeOK
    <3>3. CASE ServeEnds
      BY <3>1, <3>3 DEF ServeEnds, TypeOK
    <3>4. CASE Shutdown
      BY <3>1, <3>4 DEF Shutdown, TypeOK
    <3> QED
      BY <2>8, <3>2, <3>3, <3>4
  <2>9. ASSUME wire' = wire, hist' = hist PROVE Foreseen'
    BY <2>9, WireStep
  <2>10. ASSUME NEW c \in Callers, NEW w \in Workflows, CheckEmpty(c, w)
         PROVE  TypeOK' /\ Foreseen'
    <3>1. remote' \in [Workflows -> Entry]
      BY <2>10, KnownType DEF CheckEmpty
    <3>2. fetch' \in [Fetchers -> Request]
      BY <2>10, AskType DEF CheckEmpty, Fetchers
    <3> QED
      BY <2>9, <2>10, <3>1, <3>2 DEF CheckEmpty, TypeOK
  <2>11. CASE PollRound
    BY <2>9, <2>11 DEF PollRound, TypeOK
  <2>12. ASSUME NEW w \in Workflows, PollNext(w) PROVE TypeOK' /\ Foreseen'
    <3>1. fetch' \in [Fetchers -> Request]
      BY <2>12, AskType DEF PollNext, Fetchers
    <3> QED
      BY <2>9, <2>12, <3>1 DEF PollNext, TypeOK
  <2>13. ASSUME NEW f \in Fetchers, FetchGet(f) PROVE TypeOK' /\ Foreseen'
    <3>1. Now(fetch[f].wf) \in States
      BY VersionType DEF TypeOK, Request
    <3>a. [fetch[f] EXCEPT !.step = "read", !.answer = Now(fetch[f].wf)] \in Request
      BY <3>1 DEF TypeOK, Request
    <3>2. fetch' \in [Fetchers -> Request]
      BY <2>13, <3>a, InitialTypes DEF FetchGet, Done, TypeOK
    <3> QED
      BY <2>9, <2>13, <3>2 DEF FetchGet, TypeOK
  <2>14. ASSUME NEW f \in Fetchers, FetchRead(f) PROVE TypeOK' /\ Foreseen'
    <3>0. fetch[f].wf \in Workflows
      BY DEF TypeOK, Request
    <3>1. remote' \in [Workflows -> Entry]
      BY <2>14, <3>0, KnownType DEF FetchRead
    <3>a. [fetch[f] EXCEPT !.step = "write", !.cached = remote'[fetch[f].wf]] \in Request
      BY <3>0, <3>1 DEF TypeOK, Request
    <3>2. fetch' \in [Fetchers -> Request]
      BY <2>14, <3>a DEF FetchRead, TypeOK
    <3> QED
      BY <2>9, <2>14, <3>1, <3>2 DEF FetchRead, TypeOK
  <2>15. ASSUME NEW f \in Fetchers, FetchWrite(f) PROVE TypeOK' /\ Foreseen'
    <3>c. fetch[f].cached \in Entry /\ fetch[f].answer \in States
      BY DEF TypeOK, Request
    <3>0. [fetch[f].cached EXCEPT !.state = fetch[f].answer] \in Entry
      BY <3>c DEF Entry
    <3>1. remote' \in [Workflows -> Entry]
      BY <2>15, <3>0 DEF FetchWrite, TypeOK
    <3>2. fetch' \in [Fetchers -> Request]
      BY <2>15, InitialTypes DEF FetchWrite, Done, TypeOK
    <3> QED
      BY <2>9, <2>15, <3>1, <3>2 DEF FetchWrite, TypeOK
  <2>16. CASE UNCHANGED vars
    BY <2>9, <2>16 DEF vars, TypeOK
  <2> QED
    BY <2>1, <2>2, <2>3, <2>4, <2>5, <2>6, <2>7, <2>8, <2>10, <2>11, <2>12, <2>13, <2>14,
       <2>15, <2>16, <2>6a, <2>6b DEF Next, ServerStep, ConnStep, Receive, PollStep, FetchStep
<1> QED
  BY <1>1, <1>2, PTL DEF Spec

----------------------------------------------------------------------------
(* Versions                                                                *)

(* The versions that w has in the cache, or will have once the fetches     *)
(* under way have written what they read.                                  *)
Kept(w) ==
  {remote[w].version} \cup
  {fetch[f].cached.version : f \in {g \in Fetchers : fetch[g].step = "write" /\ fetch[g].wf = w}}

(* None of them is newer than the versions in v.                           *)
UpTo(v) == \A w \in Workflows : \A x \in Kept(w) : x <= v[w]

(* Nothing that the process has is newer than what the server has.         *)
Behind ==
  \A w \in Workflows : last[w] <= Version(w) /\ \A x \in Kept(w) : x <= Version(w)

(* Once the server has signed with a secret the process does not have, it  *)
(* goes on doing so.                                                       *)
SignedAfter ==
  \A i \in 1 .. Len(wire) : wire[i].key # secret =>
    key # secret /\ \A j \in i .. Len(wire) : wire[j].key # secret

(* No push that an open connection will apply is older than what is        *)
(* cached: _last_version has caught up with the cache, or it was cleared   *)
(* and the next message brings the server's whole view or ends the         *)
(* connection, or no message will verify any more.                         *)
Abreast ==
  link = "up" =>
    \/ UpTo(last)
    \/ wire # <<>> /\ (wire[1].type = "resync_required"
                        \/ (wire[1].type = "initial_state" /\ UpTo(wire[1].vers)))
    \/ key # secret /\ \A i \in 1 .. Len(wire) : wire[i].key # secret

(* The three steps of a fetch *)
LEMMA FetchForms ==
  ASSUME TypeOK, NEW f \in Fetchers, FetchStep(f)
  PROVE  /\ fetch[f].wf \in Workflows /\ fetch[f] \in Request /\ fetch' \in [Fetchers -> Request]
         /\ \A g \in Fetchers \ {f} : fetch'[g] = fetch[g]
         /\ UNCHANGED <<server, conn, mode, todo, crossed, alive>>
         /\ \/ /\ fetch[f].step = "get" /\ remote' = remote
               /\ \/ fetch'[f].step = "idle"
                  \/ /\ fetch'[f].step = "read" /\ fetch'[f].wf = fetch[f].wf
                     /\ fetch'[f].answer = Now(fetch[f].wf)
            \/ /\ fetch[f].step = "read" /\ remote' = Known(fetch[f].wf)
               /\ fetch'[f].step = "write" /\ fetch'[f].wf = fetch[f].wf
               /\ fetch'[f].answer = fetch[f].answer
               /\ fetch'[f].cached = Known(fetch[f].wf)[fetch[f].wf]
            \/ /\ fetch[f].step = "write" /\ fetch'[f].step = "idle"
               /\ \A w \in Workflows \ {fetch[f].wf} : remote'[w] = remote[w]
               /\ remote'[fetch[f].wf].known = fetch[f].cached.known
               /\ remote'[fetch[f].wf].version = fetch[f].cached.version
               /\ remote'[fetch[f].wf].state = fetch[f].answer
<1> DEFINE w == fetch[f].wf
<1>1. /\ w \in Workflows /\ fetch[f] \in Request /\ fetch \in [Fetchers -> Request]
      /\ fetch[f].cached \in Entry /\ fetch[f].answer \in States /\ Now(w) \in States
  BY VersionType DEF TypeOK, Request
<1>2. CASE FetchGet(f)
  <2> DEFINE r == [fetch[f] EXCEPT !.step = "read", !.answer = Now(w)]
  <2>1. r \in Request /\ r.step = "read" /\ r.wf = w /\ r.answer = Now(w)
    BY <1>1 DEF Request
  <2>2. NoRequest \in Request /\ NoRequest.step = "idle"
    BY InitialTypes DEF NoRequest
  <2>3. fetch' = [fetch EXCEPT ![f] = r] \/ fetch' = [fetch EXCEPT ![f] = NoRequest]
    BY <1>2 DEF FetchGet, Done
  <2> HIDE DEF r, w
  <2>4. /\ fetch' \in [Fetchers -> Request] /\ \A g \in Fetchers \ {f} : fetch'[g] = fetch[g]
        /\ fetch'[f] = r \/ fetch'[f] = NoRequest
    BY <1>1, <2>1, <2>2, <2>3
  <2> QED
    BY <1>1, <1>2, <2>1, <2>2, <2>4 DEF FetchGet, w
<1>3. CASE FetchRead(f)
  <2> DEFINE r == [fetch[f] EXCEPT !.step = "write", !.cached = remote'[w]]
  <2>1. remote' = Known(w) /\ remote'[w] \in Entry
    BY <1>1, <1>3, KnownType DEF FetchRead
  <2>2. /\ r \in Request /\ r.step = "write" /\ r.wf = w /\ r.answer = fetch[f].answer
        /\ r.cached = remote'[w]
    BY <1>1, <2>1 DEF Request
  <2>3. fetch' = [fetch EXCEPT ![f] = r]
    BY <1>3 DEF FetchRead
  <2> HIDE DEF r, w
  <2>4. /\ fetch' \in [Fetchers -> Request] /\ \A g \in Fetchers \ {f} : fetch'[g] = fetch[g]
        /\ fetch'[f] = r
    BY <1>1, <2>2, <2>3
  <2> QED
    BY <1>1, <1>3, <2>1, <2>2, <2>4 DEF FetchRead, w
<1>4. CASE FetchWrite(f)
  <2> DEFINE e == [fetch[f].cached EXCEPT !.state = fetch[f].answer]
  <2>1. /\ e.known = fetch[f].cached.known /\ e.version = fetch[f].cached.version
        /\ e.state = fetch[f].answer
    BY <1>1 DEF Entry
  <2>2. remote' = [remote EXCEPT ![w] = e] /\ fetch' = [fetch EXCEPT ![f] = NoRequest]
    BY <1>4 DEF FetchWrite, Done
  <2>3. NoRequest \in Request /\ NoRequest.step = "idle"
    BY InitialTypes DEF NoRequest
  <2> HIDE DEF e, w
  <2>4. /\ fetch' \in [Fetchers -> Request] /\ \A g \in Fetchers \ {f} : fetch'[g] = fetch[g]
        /\ fetch'[f] = NoRequest
    BY <1>1, <2>2, <2>3
  <2>5. remote'[w] = e /\ \A x \in Workflows \ {w} : remote'[x] = remote[x]
    BY <1>1, <2>2 DEF TypeOK
  <2> QED
    BY <1>1, <1>4, <2>1, <2>3, <2>4, <2>5 DEF FetchWrite, w
<1> QED
  BY <1>2, <1>3, <1>4 DEF FetchStep

(* A thread that begins to fetch                                           *)
LEMMA AskForms ==
  ASSUME TypeOK, NEW f \in Fetchers, NEW w \in Workflows, Ask(f, w)
  PROVE  /\ fetch'[f].step = "get" /\ fetch'[f].wf = w
         /\ \A g \in Fetchers \ {f} : fetch'[g] = fetch[g]
BY InitialTypes DEF Ask, TypeOK, Request

(* What the process keeps are integers.                                    *)
LEMMA KeptType ==
  ASSUME TypeOK, NEW w \in Workflows
  PROVE  \A x \in Kept(w) : x \in Int
<1>1. remote[w].version \in Int /\ \A f \in Fetchers : fetch[f].cached.version \in Int
  BY DEF TypeOK, Request, Entry
<1> QED
  BY <1>1 DEF Kept

(* Only a push adds to the versions that are kept.                         *)
LEMMA KeptShrinks ==
  ASSUME TypeOK, Next, ~HandleState
  PROVE  \A w \in Workflows : Kept(w)' \subseteq Kept(w)
<1> USE DEF server, conn
<1>1. ASSUME NEW f \in Fetchers, fetch'[f].step # "write",
             \A g \in Fetchers \ {f} : fetch'[g] = fetch[g],
             \A x \in Workflows : remote'[x].version = remote[x].version
      PROVE  \A x \in Workflows : Kept(x)' \subseteq Kept(x)
  BY <1>1 DEF Kept
<1>2. ASSUME NEW c \in Callers, NEW w \in Workflows, CheckEmpty(c, w)
      PROVE  \A x \in Workflows : Kept(x)' \subseteq Kept(x)
  <2>1. c \in Fetchers /\ Ask(c, w) /\ remote' = Known(w)
    BY <1>2 DEF CheckEmpty, Fetchers
  <2> QED
    BY <2>1, <1>1, KnownType, AskForms
<1>3. ASSUME NEW w \in Workflows, PollNext(w)
      PROVE  \A x \in Workflows : Kept(x)' \subseteq Kept(x)
  <2>1. Poller \in Fetchers /\ Ask(Poller, w) /\ remote' = remote
    BY <1>3 DEF PollNext, Fetchers
  <2> QED
    BY <2>1, <1>1, AskForms
<1>4. ASSUME NEW f \in Fetchers, FetchStep(f)
      PROVE  \A x \in Workflows : Kept(x)' \subseteq Kept(x)
  <2> DEFINE w == fetch[f].wf
  <2>1. w \in Workflows /\ \A g \in Fetchers \ {f} : fetch'[g] = fetch[g]
    BY <1>4, FetchForms
  <2>2. CASE remote' = remote /\ fetch'[f].step # "write"
    BY <1>1, <2>1, <2>2
  <2>3. CASE /\ remote' = Known(w) /\ fetch'[f].cached = Known(w)[w] /\ fetch'[f].wf = w
    <3>1. /\ \A x \in Workflows : remote'[x].version = remote[x].version
          /\ fetch'[f].cached.version = remote[w].version
      BY <2>1, <2>3, KnownType
    <3> HIDE DEF w
    <3> QED
      BY <2>1, <2>3, <3>1 DEF Kept
  <2>4. CASE /\ fetch[f].step = "write" /\ fetch'[f].step = "idle"
             /\ \A x \in Workflows \ {w} : remote'[x] = remote[x]
             /\ remote'[w].version = fetch[f].cached.version
    BY <2>1, <2>4 DEF Kept
  <2> QED
    BY <1>4, <2>2, <2>3, <2>4, FetchForms
<1>5. CASE remote' = remote /\ fetch' = fetch
  BY <1>5 DEF Kept
<1> QED
  BY <1>2, <1>3, <1>4, <1>5 DEF Next, ServerStep, ConnStep, Receive, PollStep, Operate, Redeliver,
     Overflow, Rotate, Connect, HandleKeyRotated, HandleResync, RejectSignature, Reconnect,
     Drop, ServeEnds, PollRound, Shutdown

(* A message is added behind the others, signed with the server's key.     *)
LEMMA AbreastAppend ==
  ASSUME TypeOK, SignedAfter, Abreast, NEW m \in Messages, m.key = key, wire' = Append(wire, m),
         key' = key \/ key' = key + 1, UNCHANGED <<last, link>>,
         \A w \in Workflows : Kept(w)' \subseteq Kept(w)
  PROVE  SignedAfter' /\ Abreast'
<1>1. wire \in Seq(Messages) /\ key \in Nat /\ secret = 0
  BY DEF TypeOK, secret
<1>2. /\ Len(wire') = Len(wire) + 1 /\ Len(wire) \in Nat
      /\ \A i \in 1 .. Len(wire) : wire'[i] = wire[i]
      /\ wire'[Len(wire) + 1] = m
  BY <1>1
<1>3. \A i \in 1 .. Len(wire') : i \in 1 .. Len(wire) \/ i = Len(wire) + 1
  BY <1>2
<1>4. key # secret => key' # secret /\ m.key # secret
  BY <1>1
<1>5. m.key # secret => key' # secret
  BY <1>4
<1>6. SignedAfter'
  <2> SUFFICES ASSUME NEW i \in 1 .. Len(wire'), wire'[i].key # secret
               PROVE  key' # secret /\ \A j \in i .. Len(wire') : wire'[j].key # secret
    BY DEF SignedAfter, secret
  <2>1. CASE i \in 1 .. Len(wire)
    <3>1. key # secret /\ \A j \in i .. Len(wire) : wire[j].key # secret
      BY <1>2, <2>1 DEF SignedAfter
    <3>2. ASSUME NEW j \in i .. Len(wire') PROVE wire'[j].key # secret
      <4>1. CASE j \in i .. Len(wire)
        BY <1>2, <2>1, <3>1, <4>1
      <4>2. CASE j = Len(wire) + 1
        BY <1>2, <1>4, <3>1, <4>2
      <4> QED
        BY <1>2, <2>1, <4>1, <4>2
    <3> QED
      BY <1>4, <3>1, <3>2
  <2>2. CASE i = Len(wire) + 1
    <3>1. \A j \in i .. Len(wire') : j = i
      BY <1>2, <2>2
    <3> QED
      BY <1>2, <1>5, <2>2, <3>1
  <2> QED
    BY <1>3, <2>1, <2>2
<1>7. Abreast'
  <2> SUFFICES ASSUME link = "up" PROVE Abreast'
    BY DEF Abreast
  <2>1. CASE UpTo(last)
    BY <2>1 DEF UpTo, Abreast
  <2>2. CASE wire # <<>> /\ (wire[1].type = "resync_required"
                        \/ (wire[1].type = "initial_state" /\ UpTo(wire[1].vers)))
    <3>1. 1 \in 1 .. Len(wire)
      BY <1>1, <2>2
    <3>2. wire'[1] = wire[1] /\ wire' # <<>>
      BY <1>1, <1>2, <3>1
    <3> QED
      BY <2>2, <3>2 DEF UpTo, Abreast
  <2>3. CASE key # secret /\ \A i \in 1 .. Len(wire) : wire[i].key # secret
    <3>1. key' # secret /\ \A i \in 1 .. Len(wire') : wire'[i].key # secret
      BY <1>2, <1>3, <1>4, <2>3
    <3> QED
      BY <3>1 DEF Abreast, secret
  <2> QED
    BY <2>1, <2>2, <2>3 DEF Abreast
<1> QED
  BY <1>6, <1>7

(* A message is taken off the wire.                                        *)
LEMMA SignedTail ==
  ASSUME TypeOK, SignedAfter, wire # <<>>, wire' = Tail(wire), key' = key
  PROVE  /\ SignedAfter' /\ wire[1] = Head(wire)
         /\ Head(wire).key # secret => key # secret /\ \A i \in 1 .. Len(wire') : wire'[i].key # secret
<1>1. wire \in Seq(Messages)
  BY DEF TypeOK
<1>2. /\ Len(wire) = Len(wire') + 1 /\ Len(wire') \in Nat /\ Head(wire) = wire[1]
      /\ \A i \in 1 .. Len(wire') : wire'[i] = wire[i + 1] /\ i + 1 \in 1 .. Len(wire)
  BY <1>1
<1>3. SignedAfter'
  <2> SUFFICES ASSUME NEW i \in 1 .. Len(wire'), wire'[i].key # secret
               PROVE  key # secret /\ \A j \in i .. Len(wire') : wire'[j].key # secret
    BY DEF SignedAfter, secret
  <2>1. wire[i + 1].key # secret /\ i + 1 \in 1 .. Len(wire)
    BY <1>2
  <2>2. key # secret /\ \A j \in (i + 1) .. Len(wire) : wire[j].key # secret
    BY <2>1 DEF SignedAfter
  <2>3. ASSUME NEW j \in i .. Len(wire') PROVE wire'[j].key # secret
    <3>1. j \in 1 .. Len(wire') /\ j + 1 \in (i + 1) .. Len(wire)
      BY <1>2
    <3> QED
      BY <1>2, <2>2, <3>1
  <2> QED
    BY <2>2, <2>3
<1>4. ASSUME Head(wire).key # secret
      PROVE  key # secret /\ \A i \in 1 .. Len(wire') : wire'[i].key # secret
  <2>1. key # secret /\ \A j \in 1 .. Len(wire) : wire[j].key # secret
    BY <1>2, <1>4 DEF SignedAfter
  <2> QED
    BY <1>2, <2>1
<1> QED
  BY <1>2, <1>3, <1>4

(* What a push that is applied does to the versions that are kept          *)
LEMMA PushKept ==
  ASSUME TypeOK, HandleState
  PROVE  \A w \in Workflows :
           Kept(w)' \subseteq IF w \in Fresh(Head(wire)) THEN Kept(w) \cup {Head(wire).vers[w]} ELSE Kept(w)
<1> DEFINE m == Head(wire)
           new == Fresh(m)
<1>1. /\ remote' = [w \in Workflows |-> IF w \in new THEN Pushed(w, m.vers[w]) ELSE remote[w]]
      /\ fetch' = fetch
  BY DEF HandleState
<1> HIDE DEF m, new
<1>2. ASSUME NEW w \in Workflows
      PROVE  Kept(w)' \subseteq IF w \in new THEN Kept(w) \cup {m.vers[w]} ELSE Kept(w)
  <2>1. remote'[w].version = IF w \in new THEN m.vers[w] ELSE remote[w].version
    BY <1>1 DEF Pushed
  <2> QED
    BY <1>1, <2>1 DEF Kept
<1> QED
  BY <1>2 DEF m, new

LEMMA PushForward ==
  ASSUME TypeOK, Foreseen, SignedAfter, Abreast, HandleState
  PROVE  /\ \A w \in Workflows : remote'[w].version >= remote[w].version
         /\ UpTo(last)'
<1> DEFINE m == Head(wire)
           new == Fresh(m)
<1>1. /\ link = "up" /\ wire # <<>> /\ m.key = secret
      /\ m.type \in {"initial_state", "state_change"} /\ wire[1] = m
  BY DEF HandleState, Verified, TypeOK
<1>2. /\ remote' = [w \in Workflows |-> IF w \in new THEN Pushed(w, m.vers[w]) ELSE remote[w]]
      /\ last' = [w \in Workflows |-> IF w \in new THEN m.vers[w] ELSE last[w]]
  BY DEF HandleState
<1>3. m \in Messages
  BY <1>1, HeadForeseen
<1>4. new = {w \in Workflows : m.vers[w] > last[w]}
  BY DEF Fresh
<1>5. UpTo(last) \/ UpTo(m.vers)
  <2>1. wire \in Seq(Messages) /\ 1 \in 1 .. Len(wire)
    BY <1>1 DEF TypeOK
  <2> HIDE DEF m
  <2> QED
    BY <1>1, <2>1 DEF Abreast
<1>k. \A w \in Workflows : Kept(w)' \subseteq IF w \in new THEN Kept(w) \cup {m.vers[w]} ELSE Kept(w)
  BY PushKept
<1> HIDE DEF m, new
<1>6. ASSUME NEW w \in Workflows
      PROVE  remote'[w].version >= remote[w].version /\ \A x \in Kept(w)' : x <= last'[w]
  <2>1. /\ remote[w].version \in Int /\ last[w] \in Int /\ m.vers[w] \in Int
        /\ \A x \in Kept(w) : x \in Int
    BY <1>3, KeptType DEF TypeOK, Entry, Messages
  <2>2. \A x \in Kept(w) : x <= last[w] \/ x <= m.vers[w]
    BY <1>5 DEF UpTo
  <2>a. remote[w].version \in Kept(w)
    BY DEF Kept
  <2>3. CASE w \in new
    <3>1. m.vers[w] > last[w] /\ last'[w] = m.vers[w] /\ remote'[w].version = m.vers[w]
      BY <1>2, <1>4, <2>3 DEF Pushed
    <3>2. \A x \in Kept(w) : x <= m.vers[w]
      BY <2>1, <2>2, <3>1
    <3> QED
      BY <1>k, <2>1, <2>a, <2>3, <3>1, <3>2
  <2>4. CASE w \notin new
    <3>1. ~(m.vers[w] > last[w]) /\ last'[w] = last[w] /\ remote'[w] = remote[w]
      BY <1>2, <1>4, <2>4
    <3>2. \A x \in Kept(w) : x <= last[w]
      BY <2>1, <2>2, <3>1
    <3> QED
      BY <1>k, <2>1, <2>4, <3>1, <3>2
  <2> QED
    BY <2>3, <2>4
<1> QED
  BY <1>6 DEF UpTo

(* Nothing the process has is newer than the server's view.                *)
LEMMA BehindInvariant == Spec => []Behind
<1>1. Init => Behind
  <2> SUFFICES ASSUME Init, NEW w \in Workflows
               PROVE  last[w] <= Version(w) /\ \A x \in Kept(w) : x <= Version(w)
    BY DEF Behind
  <2>1. last[w] = -1 /\ Version(w) = 0 /\ Kept(w) = {-1}
    BY DEF Init, Nothing, Version, Kept, NoEntry, NoRequest
  <2> QED
    BY <2>1
<1>2. TypeOK /\ Foreseen /\ Behind /\ [Next]_vars => Behind'
  <2> SUFFICES ASSUME TypeOK, Foreseen, Behind, [Next]_vars, NEW w \in Workflows
               PROVE  last'[w] <= Version(w)' /\ \A x \in Kept(w)' : x <= Version(w)'
    BY DEF Behind
  <2>1. /\ last[w] \in Int /\ last[w] <= Version(w) /\ Version(w) \in Nat
        /\ \A x \in Kept(w) : x \in Int /\ x <= Version(w)
    BY KeptType, VersionType DEF Behind, TypeOK
  <2>2. Version(w)' = Version(w) \/ Version(w)' = Version(w) + 1
    <3>1. ASSUME NEW y \in Workflows, NEW s \in States, Operate(y, s)
          PROVE  Version(w)' = Version(w) \/ Version(w)' = Version(w) + 1
      <4>1. hist'[w] = hist[w] \/ hist'[w] = Append(hist[w], s)
        BY <3>1 DEF Operate, TypeOK
      <4>2. hist[w] \in Seq(States)
        BY DEF TypeOK
      <4> QED
        BY <4>1, <4>2 DEF Version
    <3>2. CASE hist' = hist
      BY <3>2 DEF Version
    <3> QED
      BY <3>1, <3>2 DEF Next, ServerStep, ConnStep, Receive, PollStep, FetchStep, Redeliver, Overflow,
         Rotate, Connect, HandleState, HandleKeyRotated, HandleResync, RejectSignature, Reconnect,
         Drop, ServeEnds, PollRound, PollNext, CheckEmpty, FetchGet, FetchRead, FetchWrite,
         Shutdown, vars, server
  <2>3. CASE HandleState
    <3> DEFINE m == Head(wire)
               new == Fresh(m)
    <3>1. w \in new => m.vers[w] \in 0 .. Version(w)
      BY <2>3, HeadForeseen DEF HandleState, Verified
    <3>2. last'[w] = IF w \in new THEN m.vers[w] ELSE last[w]
      BY <2>3 DEF HandleState
    <3>3. Kept(w)' \subseteq IF w \in new THEN Kept(w) \cup {m.vers[w]} ELSE Kept(w)
      BY <2>3, PushKept
    <3> HIDE DEF m, new
    <3> QED
      BY <2>1, <2>2, <3>1, <3>2, <3>3
  <2>4. CASE Next /\ ~HandleState
    <3>1. Kept(w)' \subseteq Kept(w)
      BY <2>4, KeptShrinks
    <3>2. last'[w] = last[w] \/ last'[w] = -1
      BY <2>4 DEF Next, ServerStep, ConnStep, Receive, PollStep, FetchStep, Operate, Redeliver,
         Overflow, Rotate, Connect, HandleKeyRotated, HandleResync, RejectSignature, Reconnect,
         Drop, ServeEnds, PollRound, PollNext, CheckEmpty, FetchGet, FetchRead, FetchWrite,
         Shutdown, conn, Nothing
    <3> QED
      BY <2>1, <2>2, <3>1, <3>2
  <2>5. CASE UNCHANGED vars
    <3>1. last' = last /\ Kept(w)' = Kept(w)
      BY <2>5 DEF vars, conn, Kept
    <3> QED
      BY <2>1, <2>2, <3>1
  <2> QED
    BY <2>3, <2>4, <2>5
<1> QED
  BY <1>1, <1>2, TypeCorrect, PTL DEF Spec

(* The versions in hand are abreast of the cache.                          *)
LEMMA AbreastInvariant == Spec => [](SignedAfter /\ Abreast)
<1>1. Init => SignedAfter /\ Abreast
  <2> SUFFICES ASSUME Init PROVE SignedAfter /\ Abreast
    OBVIOUS
  <2>1. Len(wire) = 0 /\ link = "new"
    BY DEF Init
  <2> QED
    BY <2>1 DEF SignedAfter, Abreast
<1>2. TypeOK /\ Foreseen /\ Behind /\ SignedAfter /\ Abreast /\ [Next]_vars => SignedAfter' /\ Abreast'
  <2> SUFFICES ASSUME TypeOK, Foreseen, Behind, SignedAfter, Abreast, [Next]_vars
               PROVE  SignedAfter' /\ Abreast'
    OBVIOUS
  <2> USE DEF server, conn
  <2>0. wire \in Seq(Messages)
    BY DEF TypeOK
  <2>v. Next /\ ~HandleState => \A w \in Workflows : Kept(w)' \subseteq Kept(w)
    BY KeptShrinks
  <2>k. ASSUME remote' = remote, fetch' = fetch PROVE \A w \in Workflows : Kept(w)' \subseteq Kept(w)
    BY <2>k DEF Kept
  (* the connection and the cached versions stay what they are *)
  <2>1. ASSUME UNCHANGED <<wire, key, last, link>>,
               \A w \in Workflows : Kept(w)' \subseteq Kept(w)
        PROVE  SignedAfter' /\ Abreast'
    BY <2>1 DEF SignedAfter, Abreast, UpTo, secret
  (* the connection ends, or is not yet open *)
  <2>2. ASSUME wire' = <<>> \/ (wire' = wire /\ key' = key), link' # "up"
        PROVE  SignedAfter' /\ Abreast'
    <3>1. Abreast'
      BY <2>2 DEF Abreast
    <3>2. CASE wire' = <<>>
      <4>1. Len(wire') = 0
        BY <3>2
      <4> QED
        BY <3>1, <4>1 DEF SignedAfter
    <3>3. CASE wire' = wire /\ key' = key
      BY <3>1, <3>3 DEF SignedAfter, secret
    <3> QED
      BY <2>2, <3>2, <3>3
  (* the server's whole view, or the end of it, is the only message *)
  <2>3. ASSUME NEW m \in Messages, wire' = <<m>>, m.key = key, key' = key,
               m.type = "resync_required" \/ (m.type = "initial_state" /\ UpTo(m.vers)),
               \A w \in Workflows : Kept(w)' \subseteq Kept(w)
        PROVE  SignedAfter' /\ Abreast'
    <3>1. Len(wire') = 1 /\ wire'[1] = m /\ wire' # <<>>
      BY <2>3
    <3>2. SignedAfter'
      BY <2>3, <3>1 DEF SignedAfter, secret
    <3>3. UpTo(m.vers) => UpTo(wire[1].vers)'
      BY <2>3, <3>1 DEF UpTo
    <3> QED
      BY <2>3, <3>1, <3>2, <3>3 DEF Abreast
  <2>4. ASSUME NEW w \in Workflows, NEW s \in States, Operate(w, s) PROVE SignedAfter' /\ Abreast'
    <3>0. \A x \in Workflows : Kept(x)' \subseteq Kept(x)
      BY <2>k, <2>4 DEF Operate
    <3>1. CASE link = "up"
      <4> DEFINE m == Change(w, Version(w) + 1)
      <4>1. m \in Messages /\ m.key = key
        <5>1. Version(w) + 1 \in Nat
          BY VersionType
        <5> QED
          BY <5>1, MessageTypes DEF Change, Message
      <4>2. wire' = Append(wire, m) /\ UNCHANGED <<key, last, link>>
        BY <2>4, <3>1 DEF Operate
      <4> HIDE DEF m
      <4> QED
        BY <3>0, <4>1, <4>2, AbreastAppend
    <3>2. CASE link # "up"
      BY <2>4, <2>2, <3>2 DEF Operate
    <3> QED
      BY <3>1, <3>2
  <2>5. ASSUME NEW w \in Workflows, NEW v \in 0 .. MaxVersion, Redeliver(w, v)
        PROVE  SignedAfter' /\ Abreast'
    <3> DEFINE m == Change(w, v)
    <3>1. m \in Messages /\ m.key = key
      <4>1. v \in Nat
        BY Bounds
      <4> QED
        BY <4>1, MessageTypes DEF Change, Message
    <3>2. /\ wire' = Append(wire, m) /\ UNCHANGED <<key, last, link>>
          /\ \A x \in Workflows : Kept(x)' \subseteq Kept(x)
      BY <2>k, <2>5 DEF Redeliver
    <3> HIDE DEF m
    <3> QED
      BY <3>1, <3>2, AbreastAppend
  <2>6. CASE Overflow
    <3> DEFINE m == Message("resync_required", Nothing)
    <3>1. m \in Messages /\ m.key = key /\ m.type = "resync_required"
      BY MessageTypes DEF Message
    <3>2. wire' = <<m>> /\ key' = key /\ \A x \in Workflows : Kept(x)' \subseteq Kept(x)
      BY <2>k, <2>6 DEF Overflow
    <3> HIDE DEF m
    <3> QED
      BY <2>3, <3>1, <3>2
  <2>7. CASE Rotate
    <3>0. /\ key' = key + 1 /\ UNCHANGED <<last, link>>
          /\ \A x \in Workflows : Kept(x)' \subseteq Kept(x)
      BY <2>k, <2>7 DEF Rotate
    <3>1. CASE link = "up"
      <4> DEFINE m == Message("key_rotated", Nothing)
      <4>1. m \in Messages /\ m.key = key
        BY MessageTypes DEF Message
      <4>2. wire' = Append(wire, m)
        BY <2>7, <3>1 DEF Rotate
      <4> HIDE DEF m
      <4> QED
        BY <3>0, <4>1, <4>2, AbreastAppend
    <3>2. CASE link # "up"
      <4>1. wire' = wire /\ key' # secret
        BY <2>7, <3>0, <3>2 DEF Rotate, TypeOK, secret
      <4>2. SignedAfter'
        BY <4>1 DEF SignedAfter, secret
      <4> QED
        BY <3>0, <3>2, <4>2 DEF Abreast
    <3> QED
      BY <3>1, <3>2
  <2>8. UpTo(Initial.vers)
    <3>1. \A w \in Workflows : Initial.vers[w] = Version(w)
      BY DEF Initial, Message
    <3> QED
      BY <3>1 DEF Behind, UpTo
  <2>9. Initial \in Messages /\ Initial.key = key /\ Initial.type = "initial_state"
    BY MessageTypes DEF Initial, Message
  <2>10. CASE Connect \/ Reconnect
    <3>1. key' = key /\ \A x \in Workflows : Kept(x)' \subseteq Kept(x)
      BY <2>k, <2>10 DEF Connect, Reconnect
    <3>2. \/ wire' = <<Initial>>
          \/ wire' = wire /\ link' # "up"
      BY <2>10 DEF Connect, Reconnect
    <3>3. CASE wire' = <<Initial>>
      BY <2>3, <2>8, <2>9, <3>1, <3>3
    <3>4. CASE wire' = wire /\ link' # "up"
      BY <2>2, <3>1, <3>4
    <3> QED
      BY <3>2, <3>3, <3>4
  <2>11. CASE HandleState
    <3>1. UpTo(last)'
      BY <2>11, PushForward
    <3>2. SignedAfter'
      BY <2>11, SignedTail DEF HandleState, Verified
    <3> QED
      BY <3>1, <3>2 DEF Abreast
  <2>12. CASE HandleKeyRotated \/ RejectSignature
    <3>1. /\ link = "up" /\ wire # <<>> /\ wire' = Tail(wire) /\ UNCHANGED <<key, last, link>>
          /\ \A x \in Workflows : Kept(x)' \subseteq Kept(x)
          /\ Head(wire).key # secret \/ (Head(wire).key = secret /\ Head(wire).type = "key_rotated")
      BY <2>k, <2>12 DEF HandleKeyRotated, RejectSignature, Verified
    <3>2. /\ SignedAfter' /\ wire[1] = Head(wire)
          /\ Head(wire).key # secret => key # secret /\ \A i \in 1 .. Len(wire') : wire'[i].key # secret
      BY <3>1, SignedTail
    <3>3. CASE Head(wire).key # secret
      BY <3>1, <3>2, <3>3 DEF Abreast, secret
    <3>4. CASE Head(wire).key = secret /\ Head(wire).type = "key_rotated"
      <4>1. 1 \in 1 .. Len(wire)
        BY <2>0, <3>1
      <4>2. UpTo(last)
        BY <3>1, <3>2, <3>4, <4>1 DEF Abreast
      <4>3. UpTo(last)'
        BY <3>1, <4>2 DEF UpTo
      <4> QED
        BY <3>2, <4>3 DEF Abreast
    <3> QED
      BY <3>1, <3>3, <3>4
  <2>13. CASE HandleResync \/ Drop \/ ServeEnds \/ Shutdown
    BY <2>2, <2>13 DEF HandleResync, Drop, ServeEnds, Shutdown
  <2>14. CASE \/ PollRound \/ \E w \in Workflows : PollNext(w)
              \/ \E c \in Callers, w \in Workflows : CheckEmpty(c, w)
              \/ \E f \in Fetchers : FetchStep(f)
    <3>1. UNCHANGED <<wire, key, last, link>>
      BY <2>14 DEF PollRound, PollNext, CheckEmpty, FetchStep, FetchGet, FetchRead, FetchWrite
    <3>2. CASE HandleState
      BY <2>11, <3>2
    <3>3. CASE ~HandleState
      BY <2>1, <2>14, <2>v, <3>1, <3>3 DEF Next, PollStep
    <3> QED
      BY <3>2, <3>3
  <2>15. CASE UNCHANGED vars
    BY <2>k, <2>1, <2>15 DEF vars
  <2> QED
    BY <2>4, <2>5, <2>6, <2>7, <2>10, <2>11, <2>12, <2>13, <2>14, <2>15
       DEF Next, ServerStep, ConnStep, Receive, PollStep
<1> QED
  BY <1>1, <1>2, TypeCorrect, BehindInvariant, PTL DEF Spec

----------------------------------------------------------------------------
(* What is cached                                                          *)

(* The states that w has had since the version that was pushed last        *)
Recent(w) == {hist[w][k + 1] : k \in {j \in 0 .. Version(w) : j >= last[w]}}

(* As long as no push crosses an answer, an answer in hand is of the last  *)
(* version pushed or a later one, the entry read for it has the version    *)
(* that is still cached, and so what is cached of w, once a version has    *)
(* been pushed, names that version and has a state not older than it.      *)
FaithfulTo(w) ==
  /\ \A f \in Fetchers : fetch[f].wf = w =>
       /\ fetch[f].step \in {"read", "write"} => fetch[f].answer \in Recent(w)
       /\ fetch[f].step = "write" =>
            fetch[f].cached.known /\ fetch[f].cached.version = remote[w].version
  /\ last[w] # -1 =>
       remote[w].known /\ remote[w].version = last[w] /\ remote[w].state \in Recent(w)

Faithful == \A w \in Workflows \ crossed : FaithfulTo(w)

(* Without a push of w its recent states stay recent.                      *)
LEMMA RecentGrows ==
  ASSUME TypeOK, NEW w \in Workflows, last'[w] = last[w] \/ last'[w] = -1,
         hist'[w] = hist[w] \/ \E s \in States : hist'[w] = Append(hist[w], s)
  PROVE  Recent(w) \subseteq Recent(w)'
<1>1. hist[w] \in Seq(States) /\ Len(hist[w]) \in Nat
  BY DEF TypeOK
<1>2. /\ Len(hist'[w]) \in Int /\ Len(hist'[w]) >= Len(hist[w])
      /\ \A i \in 1 .. Len(hist[w]) : hist'[w][i] = hist[w][i]
  BY <1>1
<1>3. \A j \in 0 .. Version(w) : /\ j \in 0 .. Version(w)'
                                 /\ hist'[w][j + 1] = hist[w][j + 1]
                                 /\ j >= last[w] => j >= last'[w]
  BY <1>1, <1>2 DEF Version, TypeOK
<1> QED
  BY <1>3 DEF Recent

(* A step that changes neither what is cached of w nor an answer in hand   *)
LEMMA FaithfulKept ==
  ASSUME TypeOK, NEW w \in Workflows, FaithfulTo(w), Recent(w) \subseteq Recent(w)',
         last'[w] = last[w] \/ last'[w] = -1,
         remote'[w].version = remote[w].version, remote'[w].state = remote[w].state,
         remote[w].known => remote'[w].known,
         \A f \in Fetchers : fetch'[f] = fetch[f] \/ fetch'[f].step \notin {"read", "write"}
  PROVE  FaithfulTo(w)'
<1>1. ASSUME NEW f \in Fetchers, fetch'[f].wf = w, fetch'[f].step \in {"read", "write"}
      PROVE  /\ fetch'[f].answer \in Recent(w)'
             /\ fetch'[f].step = "write" =>
                  fetch'[f].cached.known /\ fetch'[f].cached.version = remote'[w].version
  <2>1. fetch'[f] = fetch[f]
    BY <1>1
  <2> QED
    BY <1>1, <2>1 DEF FaithfulTo
<1>2. last'[w] # -1 =>
        remote'[w].known /\ remote'[w].version = last'[w] /\ remote'[w].state \in Recent(w)'
  BY DEF FaithfulTo
<1> QED
  BY <1>1, <1>2 DEF FaithfulTo

(* The three steps of a fetch *)
LEMMA FaithfulFetch ==
  ASSUME TypeOK, Behind, Faithful, NEW f \in Fetchers, FetchStep(f), NEW w \in Workflows \ crossed
  PROVE  FaithfulTo(w)'
<1> DEFINE x == fetch[f].wf
<1>1. /\ x \in Workflows /\ fetch[f] \in Request /\ fetch' \in [Fetchers -> Request]
      /\ \A g \in Fetchers \ {f} : fetch'[g] = fetch[g]
      /\ hist' = hist /\ last' = last
  BY FetchForms DEF server, conn
<1>2. FaithfulTo(w) /\ Recent(w)' = Recent(w)
  BY <1>1 DEF Faithful, Recent, Version
<1>3. CASE x # w
  <2>1. \A g \in Fetchers : fetch'[g].wf = w => fetch'[g] = fetch[g] \/ fetch'[g].step = "idle"
    BY <1>1, <1>3, FetchForms
  <2>2. /\ remote'[w].version = remote[w].version /\ remote'[w].state = remote[w].state
        /\ remote[w].known => remote'[w].known
    <3>1. Known(x)[w] = remote[w]
      BY <1>1, <1>3 DEF Known, TypeOK
    <3> HIDE DEF x
    <3>2. remote' = remote \/ remote' = Known(x) \/ remote'[w] = remote[w]
      BY <1>3, FetchForms DEF x
    <3> QED
      BY <3>1, <3>2
  <2> QED
    BY <1>1, <1>2, <2>1, <2>2 DEF FaithfulTo
<1>4. CASE x = w /\ fetch[f].step = "get"
  <2>1. /\ remote' = remote
        /\ \/ fetch'[f].step = "idle"
           \/ fetch'[f].step = "read" /\ fetch'[f].answer = Now(w)
    BY <1>4, FetchForms
  <2>2. Now(w) \in Recent(w)
    <3>1. Version(w) \in Nat /\ Len(hist[w]) = Version(w) + 1 /\ Version(w) >= last[w]
      BY VersionType DEF Behind, TypeOK
    <3>2. Version(w) \in {j \in 0 .. Version(w) : j >= last[w]} /\ Now(w) = hist[w][Version(w) + 1]
      BY <3>1 DEF Now
    <3> QED
      BY <3>2 DEF Recent
  <2>3. ASSUME NEW g \in Fetchers, fetch'[g].wf = w
        PROVE  /\ fetch'[g].step \in {"read", "write"} => fetch'[g].answer \in Recent(w)'
               /\ fetch'[g].step = "write" =>
                    fetch'[g].cached.known /\ fetch'[g].cached.version = remote'[w].version
    <3>1. CASE g = f
      BY <1>2, <2>1, <2>2, <3>1
    <3>2. CASE g # f
      BY <1>1, <1>2, <2>1, <2>3, <3>2 DEF FaithfulTo
    <3> QED
      BY <3>1, <3>2
  <2> QED
    BY <1>1, <1>2, <2>1, <2>3 DEF FaithfulTo
<1>5. CASE x = w /\ fetch[f].step = "read"
  <2>1. /\ remote' = Known(w) /\ fetch'[f].step = "write" /\ fetch'[f].wf = w
        /\ fetch'[f].answer = fetch[f].answer /\ fetch'[f].cached = Known(w)[w]
    BY <1>5, FetchForms
  <2>2. /\ Known(w)[w].version = remote[w].version /\ Known(w)[w].state = remote[w].state
        /\ Known(w)[w].known = TRUE
    BY KnownType DEF Known, TypeOK, Entry
  <2>3. fetch[f].answer \in Recent(w)
    BY <1>2, <1>5 DEF FaithfulTo
  <2>4. ASSUME NEW g \in Fetchers, fetch'[g].wf = w
        PROVE  /\ fetch'[g].step \in {"read", "write"} => fetch'[g].answer \in Recent(w)'
               /\ fetch'[g].step = "write" =>
                    fetch'[g].cached.known /\ fetch'[g].cached.version = remote'[w].version
    <3>1. CASE g = f
      BY <1>2, <2>1, <2>2, <2>3, <3>1
    <3>2. CASE g # f
      BY <1>1, <1>2, <2>1, <2>2, <2>4, <3>2 DEF FaithfulTo
    <3> QED
      BY <3>1, <3>2
  <2> QED
    BY <1>1, <1>2, <2>1, <2>2, <2>4 DEF FaithfulTo
<1>6. CASE x = w /\ fetch[f].step = "write"
  <2>1. /\ fetch'[f].step = "idle" /\ remote'[w].known = fetch[f].cached.known
        /\ remote'[w].version = fetch[f].cached.version /\ remote'[w].state = fetch[f].answer
    BY <1>6, FetchForms
  <2>2. /\ fetch[f].answer \in Recent(w) /\ fetch[f].cached.known
        /\ fetch[f].cached.version = remote[w].version
    BY <1>2, <1>6 DEF FaithfulTo
  <2>3. ASSUME NEW g \in Fetchers, fetch'[g].wf = w
        PROVE  /\ fetch'[g].step \in {"read", "write"} => fetch'[g].answer \in Recent(w)'
               /\ fetch'[g].step = "write" =>
                    fetch'[g].cached.known /\ fetch'[g].cached.version = remote'[w].version
    <3>1. CASE g = f
      BY <2>1, <3>1
    <3>2. CASE g # f
      BY <1>1, <1>2, <2>1, <2>2, <2>3, <3>2 DEF FaithfulTo
    <3> QED
      BY <3>1, <3>2
  <2> QED
    BY <1>1, <1>2, <2>1, <2>2, <2>3 DEF FaithfulTo
<1> QED
  BY <1>3, <1>4, <1>5, <1>6, FetchForms

(* A push, of workflows no answer is in hand for                           *)
LEMMA FaithfulHandle ==
  ASSUME TypeOK, Foreseen, Faithful, HandleState, NEW w \in Workflows \ crossed'
  PROVE  FaithfulTo(w)'
<1> DEFINE m == Head(wire)
           new == Fresh(m)
<1>1. /\ remote' = [y \in Workflows |-> IF y \in new THEN Pushed(y, m.vers[y]) ELSE remote[y]]
      /\ last' = [y \in Workflows |-> IF y \in new THEN m.vers[y] ELSE last[y]]
      /\ crossed' = (crossed \ new) \cup {y \in new : Answered(y)}
      /\ fetch' = fetch /\ hist' = hist
  BY DEF HandleState, server
<1>2. w \in new => m.vers[w] \in 0 .. Version(w)
  BY HeadForeseen DEF HandleState, Verified
<1> HIDE DEF m, new
<1>3. CASE w \notin new
  <2>1. w \notin crossed /\ last'[w] = last[w] /\ remote'[w] = remote[w]
    BY <1>1, <1>3
  <2>2. FaithfulTo(w) /\ Recent(w)' = Recent(w)
    BY <1>1, <2>1 DEF Faithful, Recent, Version
  <2> QED
    BY <1>1, <2>1, <2>2 DEF FaithfulTo
<1>4. CASE w \in new
  <2>1. ~Answered(w)
    BY <1>1, <1>4
  <2>2. last'[w] = m.vers[w] /\ remote'[w] = Pushed(w, m.vers[w])
    BY <1>1, <1>4
  <2>3. m.vers[w] \in {j \in 0 .. Version(w)' : j >= last'[w]}
    BY <1>1, <1>2, <1>4, <2>2, VersionType DEF Version
  <2>4. hist[w][m.vers[w] + 1] \in Recent(w)'
    BY <1>1, <2>3 DEF Recent
  <2> QED
    BY <1>1, <2>1, <2>2, <2>4 DEF FaithfulTo, Pushed, Answered
<1> QED
  BY <1>3, <1>4

(* Faithful is inductive, together with the types and Behind.              *)
LEMMA FaithfulInvariant == Spec => []Faithful
<1>1. Init => Faithful
  BY DEF Init, Faithful, FaithfulTo, NoRequest, Nothing
<1>2. TypeOK /\ Foreseen /\ Behind /\ Faithful /\ [Next]_vars => Faithful'
  <2> SUFFICES ASSUME TypeOK, Foreseen, Behind, Faithful, [Next]_vars, NEW w \in Workflows \ crossed'
               PROVE  FaithfulTo(w)'
    BY DEF Faithful
  <2> USE DEF server, conn
  <2>1. CASE HandleState
    BY <2>1, FaithfulHandle
  <2>2. ASSUME NEW f \in Fetchers, FetchStep(f) PROVE FaithfulTo(w)'
    <3>1. crossed' = crossed
      BY <2>2, FetchForms
    <3> QED
      BY <2>2, <3>1, FaithfulFetch
  (* what is cached and the requests stay what they are *)
  <2>3. ASSUME remote' = remote, fetch' = fetch, crossed' = crossed,
               last'[w] = last[w] \/ last'[w] = -1,
               hist'[w] = hist[w] \/ \E s \in States : hist'[w] = Append(hist[w], s)
        PROVE  FaithfulTo(w)'
    <3>1. w \in Workflows /\ FaithfulTo(w) /\ Recent(w) \subseteq Recent(w)'
      BY <2>3, RecentGrows DEF Faithful
    <3> QED
      BY <2>3, <3>1, FaithfulKept
  <2>4. ASSUME NEW y \in Workflows, NEW s \in States, Operate(y, s) PROVE FaithfulTo(w)'
    <3>1. hist'[w] = hist[w] \/ hist'[w] = Append(hist[w], s)
      BY <2>4 DEF Operate, TypeOK
    <3> QED
      BY <2>3, <2>4, <3>1 DEF Operate
  <2>5. ASSUME NEW y \in Workflows, NEW v \in 0 .. MaxVersion, Redeliver(y, v) PROVE FaithfulTo(w)'
    BY <2>3, <2>5 DEF Redeliver
  <2>6. CASE Overflow \/ Rotate \/ Connect \/ HandleKeyRotated \/ RejectSignature \/ Drop \/ ServeEnds
             \/ PollRound \/ Shutdown
    BY <2>3, <2>6 DEF Overflow, Rotate, Connect, HandleKeyRotated, RejectSignature, Drop, ServeEnds,
       PollRound, Shutdown
  <2>7. CASE HandleResync \/ Reconnect
    <3>1. last'[w] = last[w] \/ last'[w] = -1
      BY <2>7 DEF HandleResync, Reconnect, Nothing
    <3> QED
      BY <2>3, <2>7, <3>1 DEF HandleResync, Reconnect
  (* a thread begins to fetch *)
  <2>8. ASSUME NEW f \in Fetchers, NEW y \in Workflows, Ask(f, y), UNCHANGED <<hist, last, crossed>>,
               remote' = remote \/ remote' = Known(y)
        PROVE  FaithfulTo(w)'
    <3>1. w \in Workflows /\ FaithfulTo(w) /\ Recent(w) \subseteq Recent(w)'
      BY <2>8, RecentGrows DEF Faithful
    <3>2. \A g \in Fetchers : fetch'[g] = fetch[g] \/ fetch'[g].step \notin {"read", "write"}
      BY <2>8, AskForms
    <3>3. /\ remote'[w].version = remote[w].version /\ remote'[w].state = remote[w].state
          /\ remote[w].known => remote'[w].known
      <4>1. remote[w].known => Known(y)[w].known
        BY <3>1 DEF Known, TypeOK, Entry
      <4> QED
        BY <2>8, <3>1, <4>1, KnownType
    <3> QED
      BY <2>8, <3>1, <3>2, <3>3, FaithfulKept
  <2>9. ASSUME NEW c \in Callers, NEW y \in Workflows, CheckEmpty(c, y) PROVE FaithfulTo(w)'
    BY <2>8, <2>9 DEF CheckEmpty, Fetchers
  <2>10. ASSUME NEW y \in Workflows, PollNext(y) PROVE FaithfulTo(w)'
    BY <2>8, <2>10 DEF PollNext, Fetchers
  <2>11. CASE UNCHANGED vars
    BY <2>3, <2>11 DEF vars
  <2> QED
    BY <2>1, <2>2, <2>4, <2>5, <2>6, <2>7, <2>9, <2>10, <2>11
       DEF Next, ServerStep, ConnStep, Receive, PollStep
<1> QED
  BY <1>1, <1>2, TypeCorrect, BehindInvariant, PTL DEF Spec

(* No push, redelivery, reconnect, overflow of the channel, rotation of    *)
(* the secret or fetch takes the cached state of a workflow back to an     *)
(* earlier version, except that a thread which held an answer when a push  *)
(* was applied writes it over the push.                                    *)
THEOREM ForwardSafe == Spec => NeverStepsBack
<1> DEFINE Forward ==
  \A w \in Workflows :
    remote'[w].version >= remote[w].version \/ (w \in crossed /\ Answered(w))
<1>1. TypeOK /\ Foreseen /\ Behind /\ Faithful /\ SignedAfter /\ Abreast /\ [Next]_vars => [Forward]_vars
  <2> SUFFICES ASSUME TypeOK, Foreseen, Behind, Faithful, SignedAfter, Abreast, Next
               PROVE  Forward
    OBVIOUS
  <2>0. \A w \in Workflows : remote[w].version \in Int
    BY DEF TypeOK, Entry
  <2>1. CASE HandleState
    BY <2>1, PushForward
  <2>2. ASSUME NEW f \in Fetchers, FetchStep(f) PROVE Forward
    <3> DEFINE x == fetch[f].wf
    <3>0. x \in Workflows
      BY <2>2, FetchForms
    <3>1. CASE remote' = remote \/ remote' = Known(x)
      BY <2>0, <3>0, <3>1, KnownType
    <3>2. CASE /\ fetch[f].step = "write" /\ remote'[x].version = fetch[f].cached.version
               /\ \A w \in Workflows \ {x} : remote'[w] = remote[w]
      <4>1. x \in crossed \/ fetch[f].cached.version = remote[x].version
        BY <3>0, <3>2 DEF Faithful, FaithfulTo
      <4>2. Answered(x)
        BY <3>2 DEF Answered
      <4> QED
        BY <2>0, <3>2, <4>1, <4>2
    <3> QED
      BY <2>2, <3>1, <3>2, FetchForms
  <2>3. ASSUME NEW c \in Callers, NEW w \in Workflows, CheckEmpty(c, w) PROVE Forward
    BY <2>0, <2>3, KnownType DEF CheckEmpty
  <2>4. CASE remote' = remote
    BY <2>0, <2>4
  <2> QED
    BY <2>1, <2>2, <2>3, <2>4 DEF Next, ServerStep, ConnStep, Receive, PollStep, Operate, Redeliver,
       Overflow, Rotate, Connect, HandleKeyRotated, HandleResync, RejectSignature, Reconnect,
       Drop, ServeEnds, PollRound, PollNext, Shutdown
<1> QED
  BY <1>1, TypeCorrect, BehindInvariant, FaithfulInvariant, AbreastInvariant, PTL
     DEF Spec, NeverStepsBack

----------------------------------------------------------------------------
(* What is still to be delivered                                           *)

(* An open connection that verifies has pushed the server's view of w, or  *)
(* has it, version v, on the wire, or is about to be closed.               *)
Brings(m, w, v) ==
  \/ m.type = "resync_required"
  \/ m.type \in {"initial_state", "state_change"} /\ m.vers[w] = v

Pending ==
  link = "up" /\ key = secret =>
    \A w \in Workflows : \/ last[w] = Version(w)
                         \/ \E i \in 1 .. Len(wire) : Brings(wire[i], w, Version(w))

(* A message is added.                                                     *)
LEMMA PendingAppend ==
  ASSUME TypeOK, Pending, NEW m \in Messages, wire' = Append(wire, m), UNCHANGED <<key, last, link>>,
         \A w \in Workflows : Version(w)' = Version(w) \/ Brings(m, w, Version(w)')
  PROVE  Pending'
<1> SUFFICES ASSUME link = "up", key = secret, NEW w \in Workflows
             PROVE  last[w] = Version(w)' \/ \E i \in 1 .. Len(wire') : Brings(wire'[i], w, Version(w)')
  BY DEF Pending, secret
<1>1. /\ wire \in Seq(Messages) /\ Len(wire) \in Nat /\ Len(wire') = Len(wire) + 1
      /\ wire'[Len(wire) + 1] = m /\ \A i \in 1 .. Len(wire) : wire'[i] = wire[i]
  BY DEF TypeOK
<1>2. CASE Brings(m, w, Version(w)')
  <2>1. Len(wire) + 1 \in 1 .. Len(wire')
    BY <1>1
  <2> QED
    BY <1>1, <1>2, <2>1 DEF Brings
<1>3. CASE Version(w)' = Version(w)
  <2>1. CASE last[w] = Version(w)
    BY <1>3, <2>1
  <2>2. ASSUME NEW i \in 1 .. Len(wire), Brings(wire[i], w, Version(w))
        PROVE  \E j \in 1 .. Len(wire') : Brings(wire'[j], w, Version(w)')
    <3>1. i \in 1 .. Len(wire') /\ wire'[i] = wire[i]
      BY <1>1
    <3> QED
      BY <1>3, <2>2, <3>1 DEF Brings
  <2> QED
    BY <2>1, <2>2 DEF Pending
<1> QED
  BY <1>2, <1>3

(* A message is taken off.                                                 *)
LEMMA PendingTail ==
  ASSUME TypeOK, Pending, wire # <<>>, wire' = Tail(wire), UNCHANGED <<key, link, hist>>,
         \A w \in Workflows : /\ last[w] = Version(w) => last'[w] = Version(w)
                              /\ Brings(Head(wire), w, Version(w)) /\ key = secret => last'[w] = Version(w)
  PROVE  Pending'
<1> SUFFICES ASSUME link = "up", key = secret, NEW w \in Workflows
             PROVE  last'[w] = Version(w)' \/ \E i \in 1 .. Len(wire') : Brings(wire'[i], w, Version(w)')
  BY DEF Pending, secret
<1>1. wire \in Seq(Messages)
  BY DEF TypeOK
<1>2. /\ Head(wire) = wire[1] /\ Len(wire) = Len(wire') + 1 /\ Len(wire') \in Nat
      /\ \A i \in 1 .. Len(wire') : wire'[i] = wire[i + 1]
  BY <1>1
<1>3. Version(w)' = Version(w)
  BY DEF Version
<1>4. CASE last[w] = Version(w)
  BY <1>3, <1>4
<1>5. ASSUME NEW i \in 1 .. Len(wire), Brings(wire[i], w, Version(w))
      PROVE  last'[w] = Version(w)' \/ \E j \in 1 .. Len(wire') : Brings(wire'[j], w, Version(w)')
  <2>1. CASE i = 1
    BY <1>2, <1>3, <1>5, <2>1
  <2>2. CASE i # 1
    <3>1. i - 1 \in 1 .. Len(wire') /\ wire'[i - 1] = wire[i]
      <4>1. i - 1 \in 1 .. Len(wire') /\ (i - 1) + 1 = i
        BY <1>2, <2>2
      <4> QED
        BY <1>2, <4>1
    <3> QED
      BY <1>3, <1>5, <3>1 DEF Brings
  <2> QED
    BY <2>1, <2>2
<1> QED
  BY <1>4, <1>5 DEF Pending

(* Pending is inductive, together with the types, Behind and SignedAfter.  *)
LEMMA PendingInvariant == Spec => []Pending
<1>1. Init => Pending
  BY DEF Init, Pending
<1>2. TypeOK /\ Foreseen /\ Behind /\ SignedAfter /\ Pending /\ [Next]_vars => Pending'
  <2> SUFFICES ASSUME TypeOK, Foreseen, Behind, SignedAfter, Pending, [Next]_vars PROVE Pending'
    OBVIOUS
  <2> USE DEF server, conn
  (* the connection stays what it is *)
  <2>1. ASSUME UNCHANGED <<wire, key, last, link, hist>> PROVE Pending'
    BY <2>1 DEF Pending, Brings, Version, secret
  (* the connection is not open, or verifies no longer *)
  <2>2. ASSUME link' # "up" \/ key' # secret PROVE Pending'
    BY <2>2 DEF Pending, secret
  <2>3. ASSUME NEW y \in Workflows, NEW s \in States, Operate(y, s) PROVE Pending'
    <3>1. CASE link = "up"
      <4>0. Change(y, Version(y) + 1) \in Messages
        BY VersionType, MessageTypes
      <4>m. PICK m \in Messages : m = Change(y, Version(y) + 1)
        BY <4>0
      <4>1. m.type = "state_change" /\ m.vers[y] = Version(y) + 1
        BY <4>m DEF Change, Message, Nothing
      <4>2. wire' = Append(wire, m) /\ UNCHANGED <<key, last, link>>
        BY <2>3, <3>1, <4>m DEF Operate
      <4>3. hist'[y] = Append(hist[y], s) /\ \A w \in Workflows \ {y} : hist'[w] = hist[w]
        BY <2>3 DEF Operate, TypeOK
      <4>4. Version(y)' = Version(y) + 1 /\ \A w \in Workflows \ {y} : Version(w)' = Version(w)
        <5>1. hist[y] \in Seq(States)
          BY DEF TypeOK
        <5>2. Len(hist'[y]) = Len(hist[y]) + 1
          BY <4>3, <5>1
        <5> QED
          BY <4>3, <5>1, <5>2 DEF Version
      <4>5. Brings(m, y, Version(y)')
        BY <4>1, <4>4 DEF Brings
      <4> QED
        BY <4>1, <4>2, <4>4, <4>5, PendingAppend
    <3>2. CASE link # "up"
      BY <2>2, <2>3, <3>2 DEF Operate
    <3> QED
      BY <3>1, <3>2
  <2>4. ASSUME NEW y \in Workflows, NEW v \in 0 .. MaxVersion, Redeliver(y, v) PROVE Pending'
    <3>1. Change(y, v) \in Messages
      BY Bounds, MessageTypes
    <3>2. wire' = Append(wire, Change(y, v)) /\ UNCHANGED <<key, last, link, hist>>
      BY <2>4 DEF Redeliver
    <3>3. \A w \in Workflows : Version(w)' = Version(w)
      BY <3>2 DEF Version
    <3> QED
      BY <3>1, <3>2, <3>3, PendingAppend
  <2>5. CASE Overflow
    <3>1. Len(wire') = 1 /\ wire'[1].type = "resync_required" /\ 1 \in 1 .. 1
      BY <2>5 DEF Overflow, Message
    <3> QED
      BY <3>1 DEF Pending, Brings
  <2>6. CASE Rotate
    <3>1. key' # secret
      BY <2>6 DEF Rotate, TypeOK, secret
    <3> QED
      BY <2>2, <3>1
  <2>7. CASE Connect \/ Reconnect
    <3>1. (wire' = <<Initial>> /\ hist' = hist) \/ link' # "up"
      BY <2>7 DEF Connect, Reconnect
    <3>2. CASE wire' = <<Initial>> /\ hist' = hist
      <4>1. Len(wire') = 1 /\ wire'[1] = Initial /\ 1 \in 1 .. 1
        BY <3>2
      <4>2. \A w \in Workflows : wire'[1].type = "initial_state" /\ wire'[1].vers[w] = Version(w)'
        BY <3>2, <4>1 DEF Initial, Message, Version
      <4> QED
        BY <4>1, <4>2 DEF Pending, Brings
    <3> QED
      BY <2>2, <3>1, <3>2
  <2>8. CASE HandleState
    <3> DEFINE m == Head(wire)
               new == Fresh(m)
    <3>1. /\ wire # <<>> /\ wire' = Tail(wire) /\ UNCHANGED <<key, link, hist>>
          /\ m.type \in {"initial_state", "state_change"}
          /\ last' = [w \in Workflows |-> IF w \in new THEN m.vers[w] ELSE last[w]]
      BY <2>8 DEF HandleState, Verified
    <3>2. ASSUME NEW w \in Workflows
          PROVE  /\ last[w] = Version(w) => last'[w] = Version(w)
                 /\ Brings(m, w, Version(w)) => last'[w] = Version(w)
      <4>1. /\ w \in new <=> m.vers[w] > last[w]
            /\ w \in new => m.vers[w] \in 0 .. Version(w)
        BY <3>1, HeadForeseen DEF Fresh
      <4>2. last[w] \in Int /\ Version(w) \in Nat /\ last[w] <= Version(w)
        BY VersionType DEF Behind, TypeOK
      <4>3. Brings(m, w, Version(w)) => m.vers[w] = Version(w)
        BY <3>1 DEF Brings
      <4> HIDE DEF m, new
      <4> QED
        BY <3>1, <4>1, <4>2, <4>3
    <3> HIDE DEF new
    <3> QED
      BY <3>1, <3>2, PendingTail
  <2>9. CASE HandleKeyRotated
    <3>1. /\ wire # <<>> /\ wire' = Tail(wire) /\ UNCHANGED <<key, link, hist, last>>
          /\ \A w \in Workflows : ~Brings(Head(wire), w, Version(w))
      BY <2>9 DEF HandleKeyRotated, Verified, Brings
    <3> QED
      BY <3>1, PendingTail
  <2>10. CASE RejectSignature
    <3>1. wire # <<>> /\ wire' = Tail(wire) /\ UNCHANGED <<key, link, hist, last>> /\ Head(wire).key # secret
      BY <2>10 DEF RejectSignature
    <3>2. key # secret
      BY <3>1, SignedTail
    <3> QED
      BY <2>2, <3>1, <3>2
  <2>11. CASE HandleResync \/ Drop \/ ServeEnds
    BY <2>2, <2>11 DEF HandleResync, Drop, ServeEnds
  <2>12. CASE Shutdown
    <3>1. link' # "up"
      BY <2>12 DEF Shutdown
    <3> QED
      BY <2>2, <3>1
  <2>13. CASE \/ PollRound \/ \E w \in Workflows : PollNext(w)
              \/ \E c \in Callers, w \in Workflows : CheckEmpty(c, w)
              \/ \E f \in Fetchers : FetchStep(f)
    BY <2>1, <2>13 DEF PollRound, PollNext, CheckEmpty, FetchStep, FetchGet, FetchRead, FetchWrite
  <2>14. CASE UNCHANGED vars
    BY <2>1, <2>14 DEF vars
  <2> QED
    BY <2>3, <2>4, <2>5, <2>6, <2>7, <2>8, <2>9, <2>10, <2>11, <2>12, <2>13, <2>14
       DEF Next, ServerStep, ConnStep, Receive, PollStep
<1> QED
  BY <1>1, <1>2, TypeCorrect, BehindInvariant, AbreastInvariant, PTL DEF Spec

(* An open connection that verifies and has nothing left to deliver leaves *)
(* every workflow with the state and the version that the server has now,  *)
(* whatever was redelivered, dropped, forgotten on reconnect or fetched    *)
(* before, unless the last push of the workflow crossed the write of an    *)
(* answer.                                                                 *)
THEOREM CurrentSafe == Spec => []QuietMeansCurrent
<1>1. TypeOK /\ Faithful /\ Pending => QuietMeansCurrent
  <2> SUFFICES ASSUME TypeOK, Faithful, Pending, link = "up", wire = <<>>, secret = key,
                      NEW w \in Workflows \ crossed
               PROVE  remote[w] = Pushed(w, Version(w))
    BY DEF QuietMeansCurrent
  <2>1. last[w] = Version(w) /\ Version(w) \in Nat
    <3>1. Len(wire) = 0
      OBVIOUS
    <3> QED
      BY <3>1, VersionType DEF Pending
  <2>2. remote[w].known /\ remote[w].version = Version(w) /\ remote[w].state \in Recent(w)
    BY <2>1 DEF Faithful, FaithfulTo
  <2>3. Recent(w) = {hist[w][Version(w) + 1]}
    <3>1. {j \in 0 .. Version(w) : j >= last[w]} = {Version(w)}
      BY <2>1
    <3> QED
      BY <3>1 DEF Recent
  <2>4. remote[w] \in Entry
    BY DEF TypeOK
  <2> QED
    BY <2>2, <2>3, <2>4 DEF Entry, Pushed
<1> QED
  BY <1>1, TypeCorrect, FaithfulInvariant, PendingInvariant, PTL

=============================================================================
