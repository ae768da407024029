--------------------------- MODULE LlmCallProofs ---------------------------
(***************************************************************************)
(* Proofs about LlmCall, for any number of tasks, threads, calls and       *)
(* reservations, every limit of the two tables and every environment.      *)
(***************************************************************************)
EXTENDS LlmCall, FiniteSetTheorems, SequenceTheorems, TLAPS

(* The types, with the domains of the functions *)
Typed ==
  /\ pc \in [Tasks -> Places]
  /\ call \in [Tasks -> Call]
  /\ todo \in [Tasks -> Seq(Event)]
  /\ \A t \in Tasks : Len(todo[t]) <= 2
  /\ ambient \in [Tasks -> 0..MaxReservations]
  /\ old \in [Tasks -> BOOLEAN]
  /\ pending \in [Threads -> Seq(1..MaxCalls)]
  /\ killed \in BOOLEAN
  /\ lru \in Seq(Fingerprints) /\ Len(lru) <= LruMax /\ IsInjective(lru)
  /\ runs \in Seq(1..MaxCalls) /\ Len(runs) <= RunsMax
  /\ begun \in 0..MaxCalls /\ minted \in 0..MaxReservations /\ faults \in 0..MaxFaults

(* Numbers and reservations are handed out once.                           *)
Distinct ==
  /\ \A t \in Tasks : call[t].number <= begun /\ call[t].own <= minted
  /\ \A t, u \in Tasks : t # u /\ call[t].number # 0 => call[t].number # call[u].number
  /\ \A t, u \in Tasks : t # u /\ call[t].own # 0 => call[t].own # call[u].own
  /\ \A f \in ToSet(lru) :
       /\ f[1] \in {"response", "body"} => f[2] <= begun
       /\ f[1] = "release" => f[2] <= minted

(* The rest is about one call c, with its task at p, the events q that are *)
(* still to be tracked, and the set L of the fingerprints in the list.     *)

(* Where a call is                                                         *)
Placed(c, p) ==
  /\ p \notin {"idle", "boundary"} \/ c.reply # "none" => c.number # 0
  /\ p \in {"start", "send"} => c.own = 0
  /\ p \in {"start", "send", "provider"} => c.reply = "none"
  /\ p = "returned" => c.reply # "none"
  /\ c.own # 0 => c.kind.known /\ (c.reply = "none" => p = "provider")
  /\ c.reply = "none" => Usage(c) = {}

(* Fingerprints that only one event of the transport can have              *)
Unique == {"response", "body", "release"}

(* An event of this call, which the transport has not sent before          *)
Own(e, c, L) ==
  /\ e.fp[1] \in {"response", "body"} => e.fp[2] = c.number /\ c.reply # "none"
  /\ e.fp[1] = "release" => e.fp[2] = c.own /\ c.own # 0
  /\ e.by = "transport" /\ e.fp[1] \in Unique => e.fp \notin L
  /\ e.usage =>
       /\ c.reply # "none" /\ e.fp # NoFingerprint
       /\ e.fp = LlmFingerprint(c.number, c.id) \/ c.alias \/ c.kind.path = "requests"

(* Fingerprints that a call without a response will be the first to use    *)
Unused(c, L) ==
  c.reply = "none" =>
    /\ c.number # 0 => <<"response", c.number>> \notin L /\ <<"body", c.number>> \notin L
    /\ c.kind.path # "stream" /\ c.own # 0 => <<"release", c.own>> \notin L

Queued(c, q, L) ==
  /\ Len(q) = 2 => q[1].fp[1] \notin Unique
  /\ \A i \in DOMAIN q : Own(q[i], c, L)
  /\ c.reply = "none" /\ c.kind.path # "stream" => q = <<>>

(* A reservation is settled, its loss is recorded, or what settles it is   *)
(* still to come.                                                          *)
ToSettle(e, c) == e.res = c.own /\ e.by = "transport" /\ e.fp[1] \in Unique

Reserved(c, q) ==
  c.own # 0 =>
    \/ \E s \in c.settled : s.res = c.own
    \/ c.lost
    \/ c.reply = "usage" /\ ~c.id
    \/ c.reply \in Uncaught
    \/ c.reply = "none" /\ c.kind.path # "stream"
    \/ \E i \in DOMAIN q : ToSettle(q[i], c)

(* The same for the tokens of a response                                   *)
Accounted(c, q) ==
  c.reply = "usage" /\ c.kind.known /\ c.kind.path # "stream" =>
    \/ Usage(c) # {}
    \/ c.lost
    \/ ~c.id
    \/ c.dropped /\ c.own = 0
    \/ \E i \in DOMAIN q : ToSettle(q[i], c) /\ q[i].usage

(* Who has booked tokens is in the list, where the other observer of the   *)
(* same call finds it.                                                     *)
Booked(c, L) ==
  \/ c.alias
  \/ c.kind.path = "requests"
  \/ c.pushed
  \/ Usage(c) = {}
  \/ (\E s \in Usage(c) : Usage(c) = {s}) /\ LlmFingerprint(c.number, c.id) \in L

Followed(c, p, q, L) ==
  Placed(c, p) /\ Unused(c, L) /\ Queued(c, q, L) /\ Reserved(c, q) /\ Accounted(c, q) /\ Booked(c, L)

LlmInv ==
  Typed /\ Distinct /\ \A t \in Tasks : Followed(call[t], pc[t], todo[t], ToSet(lru))

----------------------------------------------------------------------------
(* The tables                                                              *)

LEMMA Removed ==
  ASSUME NEW S, NEW s \in Seq(S), NEW i \in 1..Len(s)
  PROVE  /\ RemoveAt(s, i) \in Seq(S) /\ Len(RemoveAt(s, i)) = Len(s) - 1
         /\ \A j \in 1..(Len(s) - 1) : RemoveAt(s, i)[j] = IF j < i THEN s[j] ELSE s[j + 1]
<1> DEFINE a == SubSeq(s, 1, i - 1)
           b == SubSeq(s, i + 1, Len(s))
<1>1. a \in Seq(S) /\ Len(a) = i - 1 /\ \A j \in 1..(i - 1) : a[j] = s[j]
  OBVIOUS
<1>2. b \in Seq(S) /\ Len(b) = Len(s) - i /\ \A j \in 1..(Len(s) - i) : b[j] = s[i + j]
  OBVIOUS
<1> HIDE DEF a, b
<1>3. /\ a \o b \in Seq(S) /\ Len(a \o b) = Len(a) + Len(b)
      /\ \A j \in 1..(Len(a) + Len(b)) :
            (a \o b)[j] = IF j <= Len(a) THEN a[j] ELSE b[j - Len(a)]
  BY <1>1, <1>2, ConcatProperties, Zenon
<1>4. /\ \A j \in 1..Len(a) : (a \o b)[j] = a[j]
      /\ \A j \in 1..Len(b) : (a \o b)[Len(a) + j] = b[j]
  BY <1>1, <1>2, <1>3, SMTT(30)
<1>5. ASSUME NEW j \in 1..(Len(s) - 1) PROVE (a \o b)[j] = IF j < i THEN s[j] ELSE s[j + 1]
  <2>1. CASE j < i
    BY <1>1, <1>4, <2>1
  <2>2. CASE ~(j < i)
    <3> DEFINE k == j - i + 1
    <3>1. k \in 1..(Len(s) - i) /\ k \in 1..Len(b) /\ i + k = j + 1 /\ Len(a) + k = j
      BY <1>1, <1>2, <2>2
    <3> HIDE DEF k
    <3> QED
      BY <1>2, <1>4, <2>2, <3>1
  <2> QED
    BY <2>1, <2>2
<1>6. Len(a) + Len(b) = Len(s) - 1
  BY <1>1, <1>2
<1> QED
  BY <1>3, <1>5, <1>6 DEF RemoveAt, a, b

(* move_to_end keeps what is in the list.                                  *)
LEMMA Moved ==
  ASSUME NEW S, NEW s \in Seq(S), NEW i \in 1..Len(s)
  PROVE  /\ MoveToEnd(s, i) \in Seq(S) /\ Len(MoveToEnd(s, i)) = Len(s)
         /\ ToSet(MoveToEnd(s, i)) = ToSet(s)
         /\ IsInjective(s) => IsInjective(MoveToEnd(s, i))
<1> DEFINE m == MoveToEnd(s, i)
<1>1. /\ m \in Seq(S) /\ Len(m) = Len(s)
      /\ \A j \in 1..Len(s) : m[j] = IF j < i THEN s[j] ELSE IF j < Len(s) THEN s[j + 1] ELSE s[i]
  <2> DEFINE r == RemoveAt(s, i)
  <2>1. /\ r \in Seq(S) /\ Len(r) = Len(s) - 1
        /\ \A j \in 1..(Len(s) - 1) : r[j] = IF j < i THEN s[j] ELSE s[j + 1]
    BY Removed
  <2> HIDE DEF r
  <2>2. /\ Append(r, s[i]) \in Seq(S) /\ Len(Append(r, s[i])) = Len(s)
        /\ \A j \in 1..Len(s) : Append(r, s[i])[j] = IF j < Len(s) THEN r[j] ELSE s[i]
    BY <2>1
  <2>3. m = Append(r, s[i])
    BY DEF MoveToEnd, r
  <2> HIDE DEF m
  <2> QED
    BY <2>1, <2>2, <2>3
<1> HIDE DEF m
<1>2. DOMAIN m = 1..Len(s) /\ DOMAIN s = 1..Len(s)
  BY <1>1
<1>3. ASSUME NEW j \in 1..Len(s) PROVE m[j] \in ToSet(s)
  <2> DEFINE k == IF j < i THEN j ELSE IF j < Len(s) THEN j + 1 ELSE i
  <2>1. k \in 1..Len(s) /\ m[j] = s[k]
    BY <1>1
  <2> HIDE DEF k
  <2> QED
    BY <1>2, <2>1 DEF ToSet
<1>4. ASSUME NEW j \in 1..Len(s) PROVE s[j] \in ToSet(m)
  <2>1. CASE j < i
    BY <1>1, <1>2, <2>1 DEF ToSet
  <2>2. CASE j = i
    <3>1. m[Len(s)] = s[i]
      BY <1>1
    <3> QED
      BY <1>2, <2>2, <3>1 DEF ToSet
  <2>3. CASE j > i
    <3>1. j - 1 \in 1..Len(s) /\ m[j - 1] = s[j]
      BY <1>1, <2>3, SMTT(30)
    <3> QED
      BY <1>2, <3>1 DEF ToSet
  <2> QED
    BY <2>1, <2>2, <2>3
<1>5. ToSet(s) \subseteq ToSet(m)
  BY <1>2, <1>4 DEF ToSet
<1>6. ASSUME IsInjective(s) PROVE IsInjective(m)
  <2>1. \A j, k \in 1..Len(s) : s[j] = s[k] => j = k
    BY <1>2, <1>6 DEF IsInjective
  <2>2. ASSUME NEW j \in 1..Len(s), NEW k \in 1..Len(s), m[j] = m[k] PROVE j = k
    <3> DEFINE from(x) == IF x < i THEN x ELSE IF x < Len(s) THEN x + 1 ELSE i
    <3>1. \A x \in 1..Len(s) : from(x) \in 1..Len(s) /\ m[x] = s[from(x)]
      BY <1>1
    <3>2. from(j) = from(k)
      BY <2>1, <2>2, <3>1
    <3> QED
      BY <3>2
  <2> QED
    BY <1>2, <2>2 DEF IsInjective
<1>7. ToSet(m) \subseteq ToSet(s)
  BY <1>2, <1>3 DEF ToSet
<1> QED
  BY <1>1, <1>5, <1>6, <1>7 DEF m

(* A new fingerprint goes to the end, and the oldest one makes room.       *)
LEMMA Remembered ==
  ASSUME lru \in Seq(Fingerprints), Len(lru) <= LruMax, IsInjective(lru),
         NEW fp \in Fingerprints, ~Seen(fp)
  PROVE  /\ Remember(fp) \in Seq(Fingerprints) /\ Len(Remember(fp)) <= LruMax
         /\ IsInjective(Remember(fp))
         /\ ToSet(Remember(fp)) \subseteq ToSet(lru) \cup {fp}
         /\ fp # NoFingerprint => fp \in ToSet(Remember(fp))
<1>0. LruMax \in Nat \ {0}
  BY BoundsNat
<1>1. CASE fp = NoFingerprint
  BY <1>1 DEF Remember
<1>2. ASSUME fp # NoFingerprint, NEW s \in Seq(Fingerprints), Len(s) < LruMax, IsInjective(s),
             ToSet(s) \subseteq ToSet(lru), Remember(fp) = Append(s, fp)
      PROVE  /\ Remember(fp) \in Seq(Fingerprints) /\ Len(Remember(fp)) <= LruMax
             /\ IsInjective(Remember(fp))
             /\ ToSet(Remember(fp)) \subseteq ToSet(lru) \cup {fp}
             /\ fp \in ToSet(Remember(fp))
  <2>1. fp \notin ToSet(s)
    BY <1>2 DEF Seen
  <2> DEFINE m == Append(s, fp)
  <2>2. /\ m \in Seq(Fingerprints) /\ Len(m) = Len(s) + 1 /\ DOMAIN m = 1..(Len(s) + 1)
        /\ \A j \in 1..Len(s) : m[j] = s[j]
        /\ m[Len(s) + 1] = fp /\ DOMAIN s = 1..Len(s)
    OBVIOUS
  <2> HIDE DEF m
  <2>3. ToSet(m) \subseteq ToSet(s) \cup {fp} /\ fp \in ToSet(m)
    BY <2>2 DEF ToSet
  <2>4. IsInjective(m)
    BY <1>2, <2>1, <2>2 DEF IsInjective, ToSet
  <2> QED
    BY <1>0, <1>2, <2>2, <2>3, <2>4 DEF m
<1>3. CASE fp # NoFingerprint /\ Len(lru) < LruMax
  BY <1>2, <1>3 DEF Remember
<1>4. CASE fp # NoFingerprint /\ ~(Len(lru) < LruMax)
  <2> DEFINE s == Tail(lru)
  <2>1. /\ s \in Seq(Fingerprints) /\ Len(s) = Len(lru) - 1 /\ Len(lru) = LruMax
        /\ DOMAIN s = 1..(Len(lru) - 1) /\ DOMAIN lru = 1..Len(lru)
        /\ \A j \in 1..(Len(lru) - 1) : s[j] = lru[j + 1]
    BY <1>0, <1>4
  <2>2. Remember(fp) = Append(s, fp)
    BY <1>4 DEF Remember
  <2> HIDE DEF s
  <2>3. IsInjective(s)
    BY <1>0, <2>1, SMTT(30) DEF IsInjective
  <2>4. ToSet(s) \subseteq ToSet(lru)
    BY <1>0, <2>1 DEF ToSet
  <2> QED
    BY <1>0, <1>2, <1>4, <2>1, <2>2, <2>3, <2>4
<1> QED
  BY <1>1, <1>2, <1>3, <1>4

----------------------------------------------------------------------------
(* One call                                                                *)

(* Calls that differ in nothing the list of fingerprints is asked for      *)
SameRequest(c, d) ==
  /\ d.number = c.number /\ d.kind = c.kind /\ d.own = c.own
  /\ d.reply = c.reply /\ d.id = c.id /\ d.alias = c.alias

(* The history variable of the list                                        *)
PushedOut(c, d, L, M) ==
  (c.pushed \/ LlmFingerprint(c.number, c.id) \in L \ M) => d.pushed

(* A step of another task adds a fingerprint that is not of this call.     *)
LEMMA FollowedElsewhere ==
  ASSUME NEW c, NEW d, NEW p, NEW q, NEW L, NEW M, NEW f,
         Followed(c, p, q, L), M \subseteq L \cup {f},
         f[1] \in {"response", "body"} => f[2] # c.number,
         f[1] = "release" => f[2] # c.own,
         SameRequest(c, d), PushedOut(c, d, L, M),
         d.settled = c.settled, d.lost = c.lost, d.dropped = c.dropped
  PROVE  Followed(d, p, q, M)
<1>0. Usage(d) = Usage(c)
  BY DEF Usage
<1>1. Placed(d, p)
  BY <1>0 DEF Followed, Placed, SameRequest
<1>2. Unused(d, M)
  BY DEF Followed, Unused, SameRequest
<1>3. \A i \in DOMAIN q : Own(q[i], d, M)
  <2> SUFFICES ASSUME NEW i \in DOMAIN q PROVE Own(q[i], d, M)
    OBVIOUS
  <2>1. Own(q[i], c, L)
    BY DEF Followed, Queued
  <2>2. q[i].by = "transport" /\ q[i].fp[1] \in Unique => q[i].fp \notin M
    BY <2>1 DEF Own, Unique
  <2> QED
    BY <2>1, <2>2 DEF Own, SameRequest
<1>4. Queued(d, q, M)
  BY <1>3 DEF Followed, Queued, SameRequest
<1>5. Reserved(d, q)
  BY DEF Followed, Reserved, SameRequest, ToSettle
<1>6. Accounted(d, q)
  BY <1>0 DEF Followed, Accounted, SameRequest, ToSettle
<1>7. Booked(d, M)
  BY <1>0 DEF Followed, Booked, SameRequest, PushedOut
<1> QED
  BY <1>1, <1>2, <1>4, <1>5, <1>6, <1>7 DEF Followed

LEMMA TailFacts ==
  ASSUME NEW q \in Seq(Event), q # <<>>, Len(q) <= 2
  PROVE  /\ Tail(q) \in Seq(Event) /\ Head(q) \in Event /\ Head(q) = q[1]
         /\ Len(Tail(q)) <= 1 /\ 1 \in DOMAIN q
         /\ \A i \in DOMAIN Tail(q) : i = 1 /\ Len(q) = 2 /\ 2 \in DOMAIN q /\ Tail(q)[i] = q[2]
         /\ \A i \in DOMAIN q : i = 1 \/ (i = 2 /\ 1 \in DOMAIN Tail(q) /\ Tail(q)[1] = q[2])
<1> DEFINE r == Tail(q)
<1>1. /\ r \in Seq(Event) /\ Len(r) = Len(q) - 1 /\ Len(q) \in 1..2
      /\ \A i \in 1..(Len(q) - 1) : r[i] = q[i + 1]
  <2>1. Len(q) \in Nat /\ Len(q) # 0
    OBVIOUS
  <2>2. r \in Seq(Event) /\ Len(r) = Len(q) - 1 /\ \A i \in 1..Len(r) : r[i] = q[i + 1]
    BY HeadTailProperties
  <2> HIDE DEF r
  <2> QED
    BY <2>1, <2>2
<1>2. Head(q) = q[1] /\ Head(q) \in Event
  OBVIOUS
<1>3. DOMAIN q = 1..Len(q) /\ DOMAIN r = 1..Len(r)
  BY <1>1
<1> HIDE DEF r
<1>4. CASE Len(q) = 1
  BY <1>1, <1>2, <1>3, <1>4 DEF r
<1>5. CASE Len(q) = 2
  <2>1. DOMAIN q = {1, 2} /\ DOMAIN r = {1} /\ r[1] = q[2] /\ Len(r) = 1
    BY <1>1, <1>3, <1>5
  <2> QED
    BY <1>1, <1>2, <1>5, <2>1 DEF r
<1> QED
  BY <1>1, <1>4, <1>5

(* An event that was sent before: the transport's were not.                *)
LEMMA FollowedDuplicate ==
  ASSUME NEW c, NEW p, NEW q \in Seq(Event), NEW L,
         q # <<>>, Len(q) <= 2, Followed(c, p, q, L), Head(q).fp \in L
  PROVE  Followed(c, p, Tail(q), L)
<1> DEFINE r == Tail(q)
<1>0. /\ r \in Seq(Event) /\ Head(q) = q[1] /\ Len(r) <= 1 /\ 1 \in DOMAIN q
      /\ \A i \in DOMAIN r : i = 1 /\ Len(q) = 2 /\ 2 \in DOMAIN q /\ r[i] = q[2]
      /\ \A i \in DOMAIN q : i = 1 \/ (i = 2 /\ 1 \in DOMAIN r /\ r[1] = q[2])
  BY TailFacts
<1> HIDE DEF r
<1>1. ~(q[1].by = "transport" /\ q[1].fp[1] \in Unique)
  BY <1>0 DEF Followed, Queued, Own
<1>2. Queued(c, r, L)
  <2>1. \A i \in DOMAIN r : Own(r[i], c, L)
    BY <1>0, Zenon DEF Followed, Queued
  <2>2. ~(c.reply = "none" /\ c.kind.path # "stream") /\ Len(r) # 2
    BY <1>0 DEF Followed, Queued
  <2> QED
    BY <2>1, <2>2 DEF Queued
<1>3. Reserved(c, r)
  BY <1>0, <1>1 DEF Followed, Reserved, ToSettle
<1>4. Accounted(c, r)
  BY <1>0, <1>1 DEF Followed, Accounted, ToSettle
<1> QED
  BY <1>2, <1>3, <1>4 DEF Followed, r

(* What became of an event: it is lost, dropped or settled.                *)
Outcome(c, d, e) ==
  \/ d.lost /\ d.settled = c.settled /\ d.dropped = c.dropped
  \/ e.res = 0 /\ d.dropped /\ d.settled = c.settled /\ d.lost = c.lost
  \/ /\ d.lost = c.lost /\ d.dropped = c.dropped
     /\ \E s : /\ d.settled = c.settled \cup {s}
               /\ s.usage = e.usage /\ (e.res # 0 => s.res = e.res)

(* An event that is new                                                    *)
LEMMA FollowedTracked ==
  ASSUME NEW c, NEW d, NEW p, NEW q \in Seq(Event), NEW L, NEW M,
         q # <<>>, Len(q) <= 2, Followed(c, p, q, L),
         Head(q).fp \notin L \/ Head(q).fp = NoFingerprint,
         M \subseteq L \cup {Head(q).fp},
         Head(q).fp # NoFingerprint => Head(q).fp \in M,
         SameRequest(c, d), PushedOut(c, d, L, M), Outcome(c, d, Head(q)),
         c.lost \in BOOLEAN
  PROVE  Followed(d, p, Tail(q), M)
<1> DEFINE r == Tail(q)
           e == q[1]
<1>0. /\ r \in Seq(Event) /\ Head(q) = e /\ Len(r) <= 1 /\ 1 \in DOMAIN q
      /\ \A i \in DOMAIN r : i = 1 /\ Len(q) = 2 /\ 2 \in DOMAIN q /\ r[i] = q[2]
      /\ \A i \in DOMAIN q : i = 1 \/ (i = 2 /\ 1 \in DOMAIN r /\ r[1] = q[2])
  BY TailFacts
<1>1. Own(e, c, L)
  BY <1>0 DEF Followed, Queued
<1>2. ~(c.reply = "none" /\ c.kind.path # "stream")
  BY <1>0 DEF Followed, Queued
<1>a. Outcome(c, d, e) /\ (e.fp \notin L \/ e.fp = NoFingerprint) /\ M \subseteq L \cup {e.fp}
      /\ (e.fp # NoFingerprint => e.fp \in M)
  BY <1>0
<1>b. Len(q) = 2 => e.fp[1] \notin Unique
  BY DEF Followed, Queued
<1> HIDE DEF r, e
<1>3. /\ Usage(c) \subseteq Usage(d)
      /\ ~e.usage => Usage(d) = Usage(c)
      /\ Usage(d) = Usage(c) \/ \E s : s.usage /\ Usage(d) = Usage(c) \cup {s}
  BY <1>a, Zenon DEF Outcome, Usage
<1>4. Placed(d, p)
  BY <1>1, <1>3 DEF Followed, Placed, SameRequest, Own
<1>5. Unused(d, M)
  BY <1>1, <1>2, <1>a DEF Followed, Unused, SameRequest, Own
<1>6. Queued(d, r, M)
  <2> SUFFICES ASSUME NEW i \in DOMAIN r PROVE Own(r[i], d, M)
    BY <1>0, <1>2 DEF Queued, SameRequest
  <2>1. Own(r[i], c, L) /\ e.fp[1] \notin Unique
    BY <1>0, <1>b DEF Followed, Queued
  <2>2. r[i].by = "transport" /\ r[i].fp[1] \in Unique => r[i].fp \notin M
    BY <1>a, <2>1 DEF Own
  <2> QED
    BY <2>1, <2>2 DEF Own, SameRequest
<1>7. Reserved(d, r)
  <2> SUFFICES ASSUME c.own # 0 PROVE Reserved(d, r)
    BY DEF Reserved, SameRequest
  <2>1. CASE ToSettle(e, c)
    BY <1>a, <2>1 DEF ToSettle, Outcome, Reserved, SameRequest
  <2>2. CASE ~ToSettle(e, c)
    <3>1. CASE \E i \in DOMAIN q : ToSettle(q[i], c)
      <4>1. 1 \in DOMAIN r /\ ToSettle(r[1], c)
        BY <1>0, <2>2, <3>1 DEF e
      <4> QED
        BY <4>1 DEF ToSettle, Reserved, SameRequest
    <3>2. CASE ~\E i \in DOMAIN q : ToSettle(q[i], c)
      <4>1. (\E s \in c.settled : s.res = c.own) \/ c.lost \/ (c.reply = "usage" /\ ~c.id) \/ c.reply \in Uncaught
        BY <1>2, <3>2 DEF Followed, Reserved
      <4> QED
        BY <1>a, <4>1 DEF Reserved, SameRequest, Outcome
    <3> QED
      BY <3>1, <3>2
  <2> QED
    BY <2>1, <2>2
<1>8. Accounted(d, r)
  <2> SUFFICES ASSUME c.reply = "usage", c.kind.known, c.kind.path # "stream" PROVE Accounted(d, r)
    BY DEF Accounted, SameRequest
  <2>1. CASE ToSettle(e, c) /\ e.usage
    <3>1. d.lost \/ (d.dropped /\ e.res = 0) \/ \E s \in d.settled : s.usage
      BY <1>a, <2>1 DEF Outcome
    <3> QED
      BY <2>1, <3>1 DEF ToSettle, Accounted, SameRequest, Usage
  <2>2. CASE ~(ToSettle(e, c) /\ e.usage)
    <3>1. CASE \E i \in DOMAIN q : ToSettle(q[i], c) /\ q[i].usage
      <4>1. 1 \in DOMAIN r /\ ToSettle(r[1], c) /\ r[1].usage
        BY <1>0, <2>2, <3>1 DEF e
      <4> QED
        BY <4>1 DEF ToSettle, Accounted, SameRequest
    <3>2. CASE ~\E i \in DOMAIN q : ToSettle(q[i], c) /\ q[i].usage
      <4>1. Usage(c) # {} \/ c.lost \/ ~c.id \/ (c.dropped /\ c.own = 0)
        BY <3>2 DEF Followed, Accounted
      <4> QED
        BY <1>3, <1>a, <4>1 DEF Accounted, SameRequest, Outcome
    <3> QED
      BY <3>1, <3>2
  <2> QED
    BY <2>1, <2>2
<1>9. Booked(d, M)
  <2> SUFFICES ASSUME ~c.alias, c.kind.path # "requests", ~d.pushed PROVE Booked(d, M)
    BY DEF Booked, SameRequest
  <2> DEFINE f == LlmFingerprint(c.number, c.id)
  <2>1. ~c.pushed /\ (f \in L => f \in M) /\ f = LlmFingerprint(d.number, d.id)
    BY DEF PushedOut, SameRequest
  <2>2. Usage(c) = {} \/ ((\E s \in Usage(c) : Usage(c) = {s}) /\ f \in L)
    BY <2>1 DEF Followed, Booked
  <2>3. e.usage => e.fp = f /\ e.fp # NoFingerprint
    BY <1>1 DEF Own
  <2> HIDE DEF f
  <2>4. CASE Usage(d) = Usage(c)
    BY <2>1, <2>2, <2>4 DEF Booked
  <2>5. CASE Usage(d) # Usage(c)
    <3>1. e.usage /\ f \notin L /\ f \in M
      BY <1>3, <1>a, <2>3, <2>5
    <3>2. \E s : Usage(d) = {s}
      BY <1>3, <2>2, <2>5, <3>1
    <3> QED
      BY <2>1, <3>1, <3>2 DEF Booked
  <2> QED
    BY <2>4, <2>5
<1> QED
  BY <1>4, <1>5, <1>6, <1>7, <1>8, <1>9 DEF Followed, r

(* The events of the transport                                             *)
LEMMA EventsTyped ==
  ASSUME NEW c \in Call, NEW id \in BOOLEAN
  PROVE  /\ LlmFingerprint(c.number, id) \in Fingerprints /\ LlmFingerprint(c.number, FALSE) \in Fingerprints
         /\ BodyFingerprint(c.number) \in Fingerprints /\ NoFingerprint \in Fingerprints
         /\ CallbackFingerprint(c) \in Fingerprints
         /\ c.own \in 0..MaxReservations
<1>0. MaxCalls \in Nat /\ MaxReservations \in Nat
  BY BoundsNat
<1>1. c.number \in 0..MaxCalls /\ c.own \in 0..MaxReservations /\ c.id \in BOOLEAN
  BY DEF Call
<1>2. c.number \in 0..(MaxCalls + MaxReservations) /\ 0 \in 0..(MaxCalls + MaxReservations)
  BY <1>0, <1>1
<1> QED
  BY <1>1, <1>2
  DEF LlmFingerprint, BodyFingerprint, NoFingerprint, CallbackFingerprint, Fingerprints

LEMMA ReleasedFacts ==
  ASSUME NEW r \in 0..MaxReservations, r # 0
  PROVE  /\ Release(r) \in Seq(Event) /\ Len(Release(r)) = 1
         /\ Release(r)[1] = [fp |-> ReleaseFingerprint(r), res |-> r, usage |-> FALSE, by |-> "transport"]
<1> DEFINE e == [fp |-> ReleaseFingerprint(r), res |-> r, usage |-> FALSE, by |-> "transport"]
<1>0. MaxCalls \in Nat /\ MaxReservations \in Nat
  BY BoundsNat
<1>1. e \in Event
  <2>1. r \in 0..(MaxCalls + MaxReservations)
    BY <1>0
  <2>2. ReleaseFingerprint(r) \in Fingerprints
    BY <2>1 DEF ReleaseFingerprint, Fingerprints
  <2> QED
    BY <2>2 DEF Event, Observers
<1>2. Release(r) = <<e>>
  BY DEF Release
<1> HIDE DEF e
<1>3. <<e>> \in Seq(Event) /\ Len(<<e>>) = 1 /\ <<e>>[1] = e
  BY <1>1
<1> QED
  BY <1>2, <1>3 DEF e

(* What is not charged, and the reservation given back                     *)
LEMMA SkippedFacts ==
  ASSUME NEW c \in Call, NEW r \in 0..MaxReservations, NEW q, q = Skipped(c) \o Release(r)
  PROVE  /\ q \in Seq(Event) /\ Len(q) = IF r = 0 THEN 1 ELSE 2
         /\ q[1].fp[1] \notin Unique /\ ~q[1].usage
         /\ r # 0 => q[2] = [fp |-> ReleaseFingerprint(r), res |-> r, usage |-> FALSE, by |-> "transport"]
<1> DEFINE s == [fp |-> IF c.kind.path = "stream" THEN NoFingerprint ELSE LlmFingerprint(c.number, FALSE),
                 res |-> 0, usage |-> FALSE, by |-> "transport"]
<1>0. MaxReservations \in Nat
  BY BoundsNat
<1>1. s \in Event /\ s.fp[1] \notin Unique /\ ~s.usage
  <2>1. s.fp \in Fingerprints
    BY EventsTyped
  <2> QED
    BY <1>0, <2>1 DEF Event, Observers, NoFingerprint, LlmFingerprint, Unique
<1>2. Skipped(c) = <<s>>
  BY DEF Skipped
<1> HIDE DEF s
<1>3. <<s>> \in Seq(Event) /\ Len(<<s>>) = 1 /\ <<s>>[1] = s
  BY <1>1
<1> DEFINE a == <<s>>
<1>4. CASE r = 0
  <2>1. Release(r) = <<>> /\ q = a \o <<>>
    BY <1>2, <1>4 DEF Release
  <2>2. q = a
    BY <1>3, <2>1, ConcatEmptySeq
  <2> QED
    BY <1>1, <1>3, <1>4, <2>2
<1>5. CASE r # 0
  <2> DEFINE b == Release(r)
  <2>1. /\ b \in Seq(Event) /\ Len(b) = 1
        /\ b[1] = [fp |-> ReleaseFingerprint(r), res |-> r, usage |-> FALSE, by |-> "transport"]
    BY <1>5, ReleasedFacts
  <2> HIDE DEF b
  <2>2. a \in Seq(Event) /\ Len(a) = 1 /\ a[1] = s
    BY <1>3
  <2>3. q = a \o b
    BY <1>2 DEF b
  <2> HIDE DEF a
  <2>4. /\ a \o b \in Seq(Event) /\ Len(a \o b) = Len(a) + Len(b)
        /\ \A j \in 1..(Len(a) + Len(b)) : (a \o b)[j] = IF j <= Len(a) THEN a[j] ELSE b[j - Len(a)]
    BY <2>1, <2>2, ConcatProperties, Zenon
  <2>5. q \in Seq(Event) /\ Len(q) = 2 /\ \A j \in 1..2 : q[j] = IF j <= 1 THEN a[j] ELSE b[j - 1]
    BY <2>1, <2>2, <2>3, <2>4
  <2>6. q[1] = s /\ q[2] = b[1]
    BY <2>2, <2>5
  <2> QED
    BY <1>1, <1>5, <2>1, <2>5, <2>6
<1> QED
  BY <1>4, <1>5

(* A call begins, moves on, and is over.                                   *)
LEMMA FollowedBegun ==
  ASSUME NEW n \in 1..MaxCalls, NEW k \in CallKinds, NEW L, NEW p \in {"start", "send"},
         <<"response", n>> \notin L, <<"body", n>> \notin L
  PROVE  Followed([NoCall EXCEPT !.number = n, !.kind = k], p, <<>>, L)
<1> DEFINE c == [NoCall EXCEPT !.number = n, !.kind = k]
<1>1. /\ c.number = n /\ c.kind = k /\ c.own = 0 /\ c.reply = "none" /\ c.settled = {}
  BY DEF NoCall
<1>2. DOMAIN <<>> = {} /\ Len(<<>>) = 0 /\ n # 0
  BY BoundsNat
<1> HIDE DEF c
<1>3. Usage(c) = {}
  BY <1>1 DEF Usage
<1> QED
  <2>1. Followed(c, p, <<>>, L)
    BY <1>1, <1>2, <1>3 DEF Followed, Placed, Unused, Queued, Reserved, Accounted, Booked
  <2> QED
    BY <2>1 DEF c

LEMMA FollowedIdle ==
  ASSUME NEW L
  PROVE  Followed(NoCall, "idle", <<>>, L)
<1>1. NoCall.number = 0 /\ NoCall.own = 0 /\ NoCall.reply = "none" /\ NoCall.settled = {}
  BY DEF NoCall
<1>2. DOMAIN <<>> = {} /\ Len(<<>>) = 0
  OBVIOUS
<1>3. Usage(NoCall) = {}
  BY <1>1 DEF Usage
<1> QED
  BY <1>1, <1>2, <1>3 DEF Followed, Placed, Unused, Queued, Reserved, Accounted, Booked

LEMMA FollowedMoved ==
  ASSUME NEW c, NEW p, NEW r, NEW q, NEW L, Followed(c, p, q, L), Placed(c, r)
  PROVE  Followed(c, r, q, L)
  BY DEF Followed

(* The request leaves, with a reservation of its own or without one.       *)
LEMMA FollowedSent ==
  ASSUME NEW c \in Call, NEW own \in 0..MaxReservations, NEW L, NEW q,
         Followed(c, "send", <<>>, L),
         own # 0 => c.kind.known /\ <<"release", own>> \notin L,
         q = IF c.kind.path = "stream" THEN Skipped(c) \o Release(own) ELSE <<>>
  PROVE  Followed([c EXCEPT !.own = own], "provider", q, L)
<1> DEFINE d == [c EXCEPT !.own = own]
<1>1. /\ d.number = c.number /\ d.kind = c.kind /\ d.own = own
      /\ d.reply = c.reply /\ d.id = c.id /\ d.alias = c.alias
      /\ d.settled = c.settled /\ d.lost = c.lost /\ d.dropped = c.dropped /\ d.pushed = c.pushed
  BY DEF Call
<1> HIDE DEF d
<1>2. Usage(d) = Usage(c) /\ c.reply = "none" /\ c.number # 0
  BY <1>1 DEF Usage, Followed, Placed
<1>3. Placed(d, "provider") /\ Unused(d, L) /\ Accounted(d, q) /\ Booked(d, L)
  BY <1>1, <1>2 DEF Followed, Placed, Unused, Accounted, Booked
<1>4. Queued(d, q, L) /\ Reserved(d, q)
  <2>1. CASE c.kind.path # "stream"
    <3>1. q = <<>> /\ DOMAIN q = {} /\ Len(q) = 0
      BY <2>1
    <3> QED
      BY <1>1, <1>2, <2>1, <3>1 DEF Queued, Reserved
  <2>2. CASE c.kind.path = "stream"
    <3> DEFINE e == [fp |-> ReleaseFingerprint(own), res |-> own, usage |-> FALSE, by |-> "transport"]
    <3>1. /\ q \in Seq(Event) /\ Len(q) = IF own = 0 THEN 1 ELSE 2
          /\ q[1].fp[1] \notin Unique /\ ~q[1].usage
          /\ own # 0 => q[2] = e
      BY <2>2, SkippedFacts
    <3>2. e.fp = <<"release", own>> /\ e.fp[1] = "release" /\ e.fp[2] = own
          /\ e.res = own /\ e.usage = FALSE /\ e.by = "transport"
      BY DEF ReleaseFingerprint
    <3> HIDE DEF e
    <3>3. 1 \in DOMAIN q /\ (own # 0 => 2 \in DOMAIN q) /\ \A i \in DOMAIN q : i = 1 \/ (i = 2 /\ own # 0)
      <4>1. DOMAIN q = 1..Len(q)
        BY <3>1
      <4> QED
        BY <3>1, <4>1
    <3>4. Own(q[1], d, L)
      BY <3>1 DEF Own, Unique
    <3>5. own # 0 => Own(q[2], d, L) /\ ToSettle(q[2], d)
      BY <1>1, <3>1, <3>2 DEF Own, Unique, ToSettle
    <3> QED
      BY <1>1, <2>2, <3>1, <3>3, <3>4, <3>5 DEF Queued, Reserved
  <2> QED
    BY <2>1, <2>2
<1> QED
  BY <1>3, <1>4 DEF Followed, d

(* The callback tracks what LangChain has read.                            *)
LEMMA FollowedCallback ==
  ASSUME NEW c \in Call, NEW L, NEW q, NEW u \in BOOLEAN,
         Followed(c, "returned", <<>>, L),
         q = << [fp |-> CallbackFingerprint(c), res |-> 0, usage |-> u, by |-> "callback"] >>
  PROVE  Followed(c, "over", q, L)
<1> DEFINE e == [fp |-> CallbackFingerprint(c), res |-> 0, usage |-> u, by |-> "callback"]
<1>1. q = <<e>> /\ e.fp = CallbackFingerprint(c) /\ e.by = "callback"
  OBVIOUS
<1> HIDE DEF e
<1>2. DOMAIN q = {1} /\ q[1] = e /\ Len(q) = 1
  BY <1>1
<1>3. c.reply # "none"
  BY DEF Followed, Placed
<1>4. Own(e, c, L)
  <2>1. \/ e.fp = LlmFingerprint(c.number, c.id)
        \/ c.alias /\ (e.fp = <<"alias", c.number>> \/ e.fp = <<"anonymous_alias", 0>>)
    BY <1>1 DEF CallbackFingerprint
  <2>2. e.fp = <<"response", c.number>> \/ e.fp = <<"anonymous", 0>>
        \/ e.fp = <<"alias", c.number>> \/ e.fp = <<"anonymous_alias", 0>>
    BY <2>1 DEF LlmFingerprint
  <2>3. e.fp # NoFingerprint /\ e.fp[1] \notin {"body", "release"}
        /\ (e.fp[1] = "response" => e.fp[2] = c.number)
    <3>1. CASE e.fp = <<"response", c.number>>
      BY <3>1 DEF NoFingerprint
    <3>2. CASE e.fp = <<"anonymous", 0>>
      BY <3>2 DEF NoFingerprint
    <3>3. CASE e.fp = <<"alias", c.number>>
      BY <3>3 DEF NoFingerprint
    <3>4. CASE e.fp = <<"anonymous_alias", 0>>
      BY <3>4 DEF NoFingerprint
    <3> QED
      BY <2>2, <3>1, <3>2, <3>3, <3>4
  <2> QED
    BY <1>1, <1>3, <2>1, <2>3 DEF Own
<1>5. Queued(c, q, L)
  BY <1>2, <1>3, <1>4 DEF Queued
<1>6. DOMAIN <<>> = {}
  OBVIOUS
<1> QED
  BY <1>3, <1>5, <1>6 DEF Followed, Placed, Reserved, Accounted

(* The outcome is there: with a body, it is settled or the reservation is  *)
(* given back, unless an uncaught exception leaves it.                     *)
LEMMA FollowedAnswered ==
  ASSUME NEW c \in Call, NEW reply \in Replies \ {"none"}, NEW id \in BOOLEAN, NEW alias \in BOOLEAN,
         NEW p \in {"returned", "over"}, NEW L,
         Followed(c, "provider", <<>>, L)
  PROVE  Followed([c EXCEPT !.reply = reply, !.id = id, !.alias = alias], p, Settle(c, reply, id), L)
<1> DEFINE d == [c EXCEPT !.reply = reply, !.id = id, !.alias = alias]
           q == Settle(c, reply, id)
<1>1. /\ d.number = c.number /\ d.kind = c.kind /\ d.own = c.own
      /\ d.reply = reply /\ d.id = id /\ d.alias = alias
      /\ d.settled = c.settled /\ d.lost = c.lost /\ d.dropped = c.dropped /\ d.pushed = c.pushed
  BY DEF Call
<1>t. /\ c.own \in 0..MaxReservations /\ c.kind.known \in BOOLEAN /\ c.lost \in BOOLEAN
      /\ c.kind.path \in {"httpx", "requests", "stream"}
  BY DEF Call, CallKinds, Paths
<1> HIDE DEF d
<1>2. /\ Usage(d) = Usage(c) /\ Usage(c) = {} /\ c.reply = "none" /\ c.number # 0
      /\ <<"response", c.number>> \notin L /\ <<"body", c.number>> \notin L
      /\ c.own # 0 => c.kind.known
      /\ c.kind.path # "stream" /\ c.own # 0 => <<"release", c.own>> \notin L
  BY <1>1 DEF Usage, Followed, Placed, Unused
<1>3. Placed(d, p) /\ Unused(d, L) /\ Booked(d, L)
  BY <1>1, <1>2 DEF Placed, Unused, Booked
<1>s. c.own # 0 /\ c.kind.path = "stream" => c.lost \/ \E s \in c.settled : s.res = c.own
  <2>1. DOMAIN <<>> = {}
    OBVIOUS
  <2> QED
    BY <1>2, <2>1 DEF Followed, Reserved, Uncaught
<1>r. ASSUME c.own # 0, c.kind.path # "stream", NEW e,
             e = [fp |-> ReleaseFingerprint(c.own), res |-> c.own, usage |-> FALSE, by |-> "transport"]
      PROVE  Own(e, d, L) /\ ToSettle(e, d)
  <2>1. e.fp = <<"release", c.own>> /\ e.fp[1] = "release" /\ e.fp[2] = c.own
        /\ e.res = c.own /\ e.usage = FALSE /\ e.by = "transport"
    BY <1>r DEF ReleaseFingerprint
  <2> QED
    BY <1>1, <1>2, <1>r, <2>1 DEF Own, Unique, ToSettle
<1>4. CASE ~c.kind.known \/ c.kind.path = "stream"
  <2>1. q = <<>> /\ DOMAIN q = {} /\ Len(q) = 0
    BY <1>4 DEF Settle
  <2> HIDE DEF q
  <2>2. Queued(d, q, L) /\ Accounted(d, q)
    BY <1>1, <1>4, <2>1 DEF Queued, Accounted
  <2>3. Reserved(d, q)
    BY <1>1, <1>2, <1>4, <1>s DEF Reserved
  <2> QED
    BY <1>3, <2>2, <2>3 DEF Followed, d, q
<1>5. CASE /\ c.kind.known /\ c.kind.path # "stream"
           /\ reply = "usage" \/ (reply = "large" /\ c.kind.path = "requests")
  <2> DEFINE e == [fp |-> IF c.kind.path = "requests" THEN BodyFingerprint(c.number)
                          ELSE LlmFingerprint(c.number, id),
                   res |-> c.own, usage |-> TRUE, by |-> "transport"]
  <2>1. q = <<e>>
    BY <1>5 DEF Settle, Emit, Uncaught
  <2>2. /\ e.fp = (IF c.kind.path = "requests" THEN <<"body", c.number>> ELSE LlmFingerprint(c.number, id))
        /\ e.res = c.own /\ e.usage = TRUE /\ e.by = "transport"
    BY DEF BodyFingerprint
  <2> HIDE DEF e, q
  <2>3. DOMAIN q = {1} /\ q[1] = e /\ Len(q) = 1
    BY <2>1
  <2>4. /\ e.fp = <<"body", c.number>> \/ e.fp = <<"response", c.number>> \/ (e.fp = <<"anonymous", 0>> /\ ~id)
        /\ c.kind.path = "requests" => e.fp = <<"body", c.number>>
        /\ c.kind.path # "requests" => e.fp = LlmFingerprint(c.number, id)
    BY <2>2 DEF LlmFingerprint
  <2>5. /\ e.fp \notin L \/ e.fp[1] \notin Unique
        /\ e.fp # NoFingerprint /\ e.fp[1] # "release"
        /\ e.fp[1] \in {"response", "body"} => e.fp[2] = c.number
        /\ e.fp[1] \in Unique \/ (~id /\ c.kind.path # "requests")
    <3>1. CASE e.fp = <<"body", c.number>>
      BY <1>2, <3>1 DEF NoFingerprint, Unique
    <3>2. CASE e.fp = <<"response", c.number>>
      BY <1>2, <3>2 DEF NoFingerprint, Unique
    <3>3. CASE e.fp = <<"anonymous", 0>> /\ ~id
      BY <2>4, <3>3 DEF NoFingerprint, Unique
    <3> QED
      BY <2>4, <3>1, <3>2, <3>3
  <2>6. Own(e, d, L)
    BY <1>1, <2>2, <2>4, <2>5 DEF Own
  <2>7. ToSettle(e, d) \/ (~id /\ c.kind.path # "requests" /\ reply = "usage")
    BY <1>1, <1>5, <2>2, <2>5 DEF ToSettle
  <2>8. Queued(d, q, L) /\ Reserved(d, q) /\ Accounted(d, q)
    BY <1>1, <2>2, <2>3, <2>6, <2>7 DEF Queued, Reserved, Accounted
  <2> QED
    BY <1>3, <2>8 DEF Followed, d, q
<1>6. CASE c.kind.known /\ c.kind.path = "httpx" /\ reply = "large"
  <2> DEFINE e == [fp |-> ReleaseFingerprint(c.own), res |-> c.own, usage |-> FALSE, by |-> "transport"]
  <2>1. q = Skipped(c) \o Release(c.own)
    BY <1>6 DEF Settle, Uncaught
  <2>2. /\ q \in Seq(Event) /\ Len(q) = IF c.own = 0 THEN 1 ELSE 2
        /\ q[1].fp[1] \notin Unique /\ ~q[1].usage
        /\ c.own # 0 => q[2] = e
    BY <1>t, <2>1, SkippedFacts
  <2> HIDE DEF q
  <2>3. (c.own # 0 => 2 \in DOMAIN q) /\ \A i \in DOMAIN q : i = 1 \/ (i = 2 /\ c.own # 0)
    <3>0. q \in Seq(Event)
      BY <2>2
    <3>1. DOMAIN q = 1..Len(q)
      BY <3>0, LenProperties
    <3> QED
      BY <2>2, <3>1
  <2>4. Own(q[1], d, L)
    BY <2>2 DEF Own, Unique
  <2>5. c.own # 0 => Own(q[2], d, L) /\ ToSettle(q[2], d)
    BY <1>6, <1>r, <2>2
  <2>7. \A i \in DOMAIN q : Own(q[i], d, L)
    BY <2>3, <2>4, <2>5
  <2>8. Queued(d, q, L)
    BY <1>1, <2>2, <2>7 DEF Queued
  <2>9. Reserved(d, q) /\ Accounted(d, q)
    BY <1>1, <1>6, <2>3, <2>5 DEF Reserved, Accounted
  <2> QED
    BY <1>3, <2>8, <2>9 DEF Followed, d, q
<1>8. CASE c.kind.known /\ c.kind.path # "stream" /\ reply \in Uncaught
  <2>1. q = <<>> /\ DOMAIN q = {} /\ Len(q) = 0 /\ reply # "usage"
    BY <1>8 DEF Settle, Uncaught
  <2> HIDE DEF q
  <2>2. Queued(d, q, L) /\ Reserved(d, q) /\ Accounted(d, q)
    BY <1>1, <1>8, <2>1 DEF Queued, Reserved, Accounted
  <2> QED
    BY <1>3, <2>2 DEF Followed, d, q
<1>7. CASE /\ c.kind.known /\ c.kind.path # "stream" /\ reply # "usage" /\ reply \notin Uncaught
           /\ ~(reply = "large" /\ c.kind.path \in {"requests", "httpx"})
  <2>1. q = Release(c.own)
    BY <1>7 DEF Settle, Uncaught
  <2> HIDE DEF q
  <2>2. CASE c.own = 0
    <3>1. q = <<>> /\ DOMAIN q = {} /\ Len(q) = 0
      BY <2>1, <2>2 DEF Release
    <3>2. Queued(d, q, L) /\ Reserved(d, q) /\ Accounted(d, q)
      BY <1>1, <1>7, <2>2, <3>1 DEF Queued, Reserved, Accounted
    <3> QED
      BY <1>3, <3>2 DEF Followed, d, q
  <2>3. CASE c.own # 0
    <3>1. /\ q \in Seq(Event) /\ Len(q) = 1
          /\ q[1] = [fp |-> ReleaseFingerprint(c.own), res |-> c.own, usage |-> FALSE, by |-> "transport"]
      BY <1>t, <2>1, <2>3, ReleasedFacts
    <3>2. DOMAIN q = {1}
      BY <3>1
    <3>3. Own(q[1], d, L) /\ ToSettle(q[1], d)
      BY <1>7, <1>r, <2>3, <3>1
    <3>4. Queued(d, q, L) /\ Reserved(d, q) /\ Accounted(d, q)
      <4>1. Len(q) # 2
        BY <3>1
      <4>2. d.reply # "none" /\ d.reply # "usage"
        BY <1>1, <1>7
      <4>3. \A i \in DOMAIN q : Own(q[i], d, L)
        BY <3>2, <3>3
      <4>4. \E i \in DOMAIN q : ToSettle(q[i], d)
        BY <3>2, <3>3
      <4> QED
        BY <4>1, <4>2, <4>3, <4>4 DEF Queued, Reserved, Accounted
    <3> QED
      BY <1>3, <3>4 DEF Followed, d, q
  <2> QED
    BY <2>2, <2>3
<1> QED
  BY <1>4, <1>5, <1>6, <1>7, <1>8, <1>t

----------------------------------------------------------------------------
(* Types                                                                   *)

LEMMA CallsTyped ==
  /\ NoCall \in Call
  /\ \A n \in 0..MaxCalls, k \in CallKinds : [NoCall EXCEPT !.number = n, !.kind = k] \in Call
  /\ \A c \in Call, r \in 0..MaxReservations : [c EXCEPT !.own = r] \in Call
  /\ \A c \in Call, reply \in Replies, id \in BOOLEAN, alias \in BOOLEAN :
        [c EXCEPT !.reply = reply, !.id = id, !.alias = alias] \in Call
  /\ \A c \in Call : [c EXCEPT !.lost = TRUE] \in Call /\ [c EXCEPT !.dropped = TRUE] \in Call
  /\ \A c \in Call, s \in [res : 1..MaxReservations, usage : BOOLEAN, by : Observers] :
        [c EXCEPT !.settled = @ \cup {s}] \in Call
  /\ \A c \in Call, b \in BOOLEAN : [c EXCEPT !.pushed = b] \in Call
<1>0. MaxCalls \in Nat /\ MaxReservations \in Nat
  BY BoundsNat
<1>1. NoCall \in Call
  BY <1>0 DEF NoCall, Call, CallKinds, Paths, Replies, Raised, Uncaught
<1>2. \A n \in 0..MaxCalls, k \in CallKinds : [NoCall EXCEPT !.number = n, !.kind = k] \in Call
  <2>1. \A c \in Call, n \in 0..MaxCalls, k \in CallKinds : [c EXCEPT !.number = n, !.kind = k] \in Call
    BY DEF Call
  <2> QED
    BY <1>1, <2>1
<1>3. \A c \in Call, r \in 0..MaxReservations : [c EXCEPT !.own = r] \in Call
  BY DEF Call
<1>4. \A c \in Call, reply \in Replies, id \in BOOLEAN, alias \in BOOLEAN :
         [c EXCEPT !.reply = reply, !.id = id, !.alias = alias] \in Call
  BY DEF Call
<1>5. \A c \in Call : [c EXCEPT !.lost = TRUE] \in Call /\ [c EXCEPT !.dropped = TRUE] \in Call
  BY DEF Call
<1>6. ASSUME NEW c \in Call, NEW s \in [res : 1..MaxReservations, usage : BOOLEAN, by : Observers]
      PROVE  [c EXCEPT !.settled = @ \cup {s}] \in Call
  <2> DEFINE T == [res : 1..MaxReservations, usage : BOOLEAN, by : Observers]
  <2>1. c.settled \subseteq T
    BY DEF Call
  <2>2. c.settled \cup {s} \in SUBSET T
    BY <2>1
  <2> DEFINE v == c.settled \cup {s}
  <2>3. [c EXCEPT !.settled = v] \in Call
    <3> HIDE DEF v
    <3> QED
      BY <2>2 DEF Call, v
  <2> QED
    BY <2>3
<1>7. \A c \in Call, b \in BOOLEAN : [c EXCEPT !.pushed = b] \in Call
  BY DEF Call
<1> QED
  BY <1>1, <1>2, <1>3, <1>4, <1>5, <1>6, <1>7

LEMMA SettleTyped ==
  ASSUME NEW c \in Call, NEW reply \in Replies, NEW id \in BOOLEAN
  PROVE  Settle(c, reply, id) \in Seq(Event) /\ Len(Settle(c, reply, id)) <= 2
<1> DEFINE e == [fp |-> IF c.kind.path = "requests" THEN BodyFingerprint(c.number)
                        ELSE LlmFingerprint(c.number, id),
                 res |-> c.own, usage |-> TRUE, by |-> "transport"]
<1>0. c.own \in 0..MaxReservations
  BY DEF Call
<1>1. e \in Event
  <2>1. e.fp \in Fingerprints
    BY EventsTyped
  <2> QED
    BY <1>0, <2>1 DEF Event, Observers
<1>2. Emit(c, id) = <<e>>
  BY DEF Emit
<1> HIDE DEF e
<1>3. Emit(c, id) \in Seq(Event) /\ Len(Emit(c, id)) <= 2
  BY <1>1, <1>2
<1>4. Skipped(c) \o Release(c.own) \in Seq(Event) /\ Len(Skipped(c) \o Release(c.own)) <= 2
  <2> DEFINE q == Skipped(c) \o Release(c.own)
  <2>1. q \in Seq(Event) /\ Len(q) = IF c.own = 0 THEN 1 ELSE 2
    BY <1>0, SkippedFacts, Zenon
  <2> HIDE DEF q
  <2>2. q \in Seq(Event) /\ Len(q) <= 2
    BY <2>1
  <2> QED
    BY <2>2 DEF q
<1>5. Release(c.own) \in Seq(Event) /\ Len(Release(c.own)) <= 2
  <2>1. CASE c.own = 0
    BY <2>1 DEF Release
  <2>2. CASE c.own # 0
    <3>1. Release(c.own) \in Seq(Event) /\ Len(Release(c.own)) = 1
      BY <1>0, <2>2, ReleasedFacts, Zenon
    <3> QED
      BY <3>1
  <2> QED
    BY <2>1, <2>2
<1>6. <<>> \in Seq(Event) /\ Len(<<>>) <= 2
  OBVIOUS
<1>7. \/ Settle(c, reply, id) = <<>>
      \/ Settle(c, reply, id) = Emit(c, id)
      \/ Settle(c, reply, id) = Skipped(c) \o Release(c.own)
      \/ Settle(c, reply, id) = Release(c.own)
  BY DEF Settle
<1> QED
  BY <1>3, <1>4, <1>5, <1>6, <1>7

(* The table of runs                                                       *)
LEMMA RunsTyped ==
  ASSUME runs \in Seq(1..MaxCalls), Len(runs) <= RunsMax, NEW n \in 1..MaxCalls, Register(n) \/ EndRun(n)
  PROVE  runs' \in Seq(1..MaxCalls) /\ Len(runs') <= RunsMax
<1>0. RunsMax \in Nat \ {0} /\ Len(runs) \in Nat
  BY BoundsNat
<1> DEFINE S == 1..MaxCalls
<1> HIDE DEF S
<1>s. runs \in Seq(S) /\ n \in S
  BY DEF S
<1>1. CASE Register(n) /\ Len(runs) >= RunsMax
  <2>1. runs' = Append(Tail(runs), n)
    BY <1>1 DEF Register
  <2>2. runs # <<>>
    BY <1>0, <1>1
  <2>3. Tail(runs) \in Seq(S) /\ Len(Tail(runs)) = Len(runs) - 1
    BY <1>s, <2>2, HeadTailProperties
  <2>4. runs' \in Seq(S) /\ Len(runs') = Len(runs)
    BY <1>0, <1>s, <2>1, <2>3
  <2> QED
    BY <2>4 DEF S
<1>2. CASE Register(n) /\ ~(Len(runs) >= RunsMax)
  <2>1. runs' = Append(runs, n)
    BY <1>2 DEF Register
  <2>2. runs' \in Seq(S) /\ Len(runs') = Len(runs) + 1
    BY <1>s, <2>1
  <2> QED
    BY <1>0, <1>2, <2>2 DEF S
<1>3. CASE EndRun(n)
  <2>1. CASE UNCHANGED runs
    BY <2>1
  <2>2. CASE \E i \in DOMAIN runs : runs[i] = n /\ runs' = RemoveAt(runs, i)
    <3>1. PICK i \in DOMAIN runs : runs' = RemoveAt(runs, i)
      BY <2>2
    <3>2. i \in 1..Len(runs)
      BY <1>s
    <3>3. runs' \in Seq(S) /\ Len(runs') = Len(runs) - 1
      BY <1>s, <3>1, <3>2, Removed
    <3> QED
      BY <1>0, <3>3 DEF S
  <2> QED
    BY <1>3, <2>1, <2>2 DEF EndRun
<1> QED
  BY <1>1, <1>2, <1>3

LEMMA ReserveTyped ==
  ASSUME Typed, NEW t \in Tasks, Reserve(t) \/ NoReserve(t)
  PROVE  /\ ambient' \in [Tasks -> 0..MaxReservations] /\ old' \in [Tasks -> BOOLEAN]
         /\ minted' \in 0..MaxReservations /\ faults' \in 0..MaxFaults /\ minted' >= minted
<1>0. MaxFaults \in Nat /\ MaxReservations \in Nat /\ minted \in 0..MaxReservations /\ faults \in 0..MaxFaults
      /\ ambient \in [Tasks -> 0..MaxReservations] /\ old \in [Tasks -> BOOLEAN]
  BY BoundsNat DEF Typed
<1>1. CASE Reserve(t)
  BY <1>0, <1>1 DEF Reserve
<1>2. CASE NoReserve(t)
  BY <1>0, <1>2 DEF NoReserve, Faults
<1> QED
  BY <1>1, <1>2

(* What each task has                                                      *)
LEMMA TypedAt ==
  ASSUME Typed, NEW t \in Tasks
  PROVE  /\ pc[t] \in Places /\ call[t] \in Call /\ todo[t] \in Seq(Event) /\ Len(todo[t]) <= 2
         /\ ambient[t] \in 0..MaxReservations /\ old[t] \in BOOLEAN
         /\ call[t].number \in 0..MaxCalls /\ call[t].own \in 0..MaxReservations
         /\ call[t].kind \in CallKinds
  BY DEF Typed, Call

(* A step that changes neither calls nor events nor the list               *)
LEMMA QuietTyped ==
  ASSUME Typed, UNCHANGED <<call, todo, lru>>, UNCHANGED killed \/ killed' \in BOOLEAN,
         UNCHANGED begun,
         pc' \in [Tasks -> Places], pending' \in [Threads -> Seq(1..MaxCalls)],
         runs' \in Seq(1..MaxCalls) /\ Len(runs') <= RunsMax,
         ambient' \in [Tasks -> 0..MaxReservations], old' \in [Tasks -> BOOLEAN],
         minted' \in 0..MaxReservations, faults' \in 0..MaxFaults
  PROVE  Typed'
  BY Zenon DEF Typed

LEMMA TypedQuietly ==
  ASSUME Typed, NEW t \in Tasks,
         Protect(t) \/ Boundary(t) \/ (OnLlmStart(t) /\ call[t].number # 0) \/ Killed(t) \/ GrowOld(t)
  PROVE  Typed' /\ UNCHANGED <<call, todo, lru, begun>> /\ minted' >= minted
<1>0. /\ pc \in [Tasks -> Places] /\ pending \in [Threads -> Seq(1..MaxCalls)]
      /\ runs \in Seq(1..MaxCalls) /\ Len(runs) <= RunsMax
      /\ ambient \in [Tasks -> 0..MaxReservations] /\ old \in [Tasks -> BOOLEAN]
      /\ minted \in 0..MaxReservations /\ faults \in 0..MaxFaults
      /\ OnThread[t] \in Threads /\ MaxCalls \in Nat /\ MaxFaults \in Nat /\ MaxReservations \in Nat
  BY OnThreadKnown, BoundsNat DEF Typed
<1>m. minted >= minted
  BY <1>0
<1>1. CASE Protect(t)
  <2>1. UNCHANGED <<call, todo, pending, killed, lru, runs, begun>>
    BY <1>1, Zenon DEF Protect
  <2>2. Reserve(t) \/ NoReserve(t)
    BY <1>1, Zenon DEF Protect
  <2>3. pc' \in [Tasks -> Places]
    BY <1>0, <1>1 DEF Protect, GoTo, Places
  <2> QED
    BY <1>0, <2>1, <2>2, <2>3, ReserveTyped, QuietTyped, Zenon
<1>2. CASE Boundary(t)
  <2>1. UNCHANGED <<call, todo, ambient, old, killed, lru, runs, begun, minted, faults>>
    BY <1>2, Zenon DEF Boundary
  <2>2. pc' \in [Tasks -> Places]
    BY <1>0, <1>2 DEF Boundary, GoTo, Places
  <2>3. pending' \in [Threads -> Seq(1..MaxCalls)]
    <3> DEFINE S == 1..MaxCalls
               x == IF pending[OnThread[t]] = <<>> THEN pending[OnThread[t]] ELSE Tail(pending[OnThread[t]])
    <3>1. pending' = [pending EXCEPT ![OnThread[t]] = x]
      BY <1>2 DEF Boundary
    <3>2. pending \in [Threads -> Seq(S)]
      BY <1>0
    <3> HIDE DEF S
    <3>3. x \in Seq(S)
      BY <1>0, <3>2
    <3> HIDE DEF x
    <3>4. pending' \in [Threads -> Seq(S)]
      BY <1>0, <3>1, <3>2, <3>3
    <3> QED
      BY <3>4 DEF S
  <2> QED
    BY <1>0, <1>m, <2>1, <2>2, <2>3, QuietTyped, Zenon
<1>3. CASE OnLlmStart(t) /\ call[t].number # 0
  <2>0. call[t].number \in 1..MaxCalls
    BY <1>0, <1>3, TypedAt
  <2>1. UNCHANGED <<call, todo, killed, lru, begun>>
    BY <1>3, Zenon DEF OnLlmStart
  <2>2. pc' \in [Tasks -> Places]
    BY <1>0, <1>3 DEF OnLlmStart, GoTo, Places
  <2>3. Reserve(t) \/ NoReserve(t)
    BY <1>3, Zenon DEF OnLlmStart
  <2>4. Register(call[t].number)
    BY <1>3, Zenon DEF OnLlmStart
  <2>5. runs' \in Seq(1..MaxCalls) /\ Len(runs') <= RunsMax
    BY <1>0, <2>0, <2>4, RunsTyped, Zenon
  <2>6. pending' \in [Threads -> Seq(1..MaxCalls)]
    <3>1. pending' = pending \/ pending' = [pending EXCEPT ![OnThread[t]] = Append(@, call[t].number)]
      BY <1>3, Zenon DEF OnLlmStart
    <3> DEFINE S == 1..MaxCalls
               x == Append(pending[OnThread[t]], call[t].number)
    <3>2. pending \in [Threads -> Seq(S)] /\ call[t].number \in S
      BY <1>0, <2>0
    <3> HIDE DEF S
    <3>3. x \in Seq(S)
      BY <1>0, <3>2
    <3>4. pending' = pending \/ pending' = [pending EXCEPT ![OnThread[t]] = x]
      BY <3>1
    <3> HIDE DEF x
    <3>5. pending' \in [Threads -> Seq(S)]
      BY <1>0, <3>2, <3>3, <3>4
    <3> QED
      BY <3>5 DEF S
  <2> QED
    BY <1>0, <2>1, <2>2, <2>3, <2>5, <2>6, ReserveTyped, QuietTyped, Zenon
<1>4. CASE Killed(t)
  <2>1. UNCHANGED <<call, todo, ambient, old, pending, killed, lru, runs, begun, minted, faults>>
    BY <1>4, Zenon DEF Killed
  <2>2. pc' \in [Tasks -> Places]
    BY <1>0, <1>4 DEF Killed, GoTo, Places
  <2> QED
    BY <1>0, <1>m, <2>1, <2>2, QuietTyped, Zenon
<1>5. CASE GrowOld(t)
  <2>1. UNCHANGED <<pc, call, todo, ambient, pending, killed, lru, runs, begun, minted>>
    BY <1>5, Zenon DEF GrowOld
  <2>2. old' \in [Tasks -> BOOLEAN] /\ faults' \in 0..MaxFaults
    BY <1>0, <1>5 DEF GrowOld, Faults
  <2> QED
    BY <1>0, <1>m, <2>1, <2>2, QuietTyped, Zenon
<1> QED
  BY <1>1, <1>2, <1>3, <1>4, <1>5

LEMMA TypedKill ==
  ASSUME Typed, Kill
  PROVE  Typed' /\ UNCHANGED <<pc, call, todo, lru, begun, minted>>
<1>0. MaxFaults \in Nat /\ faults \in 0..MaxFaults
  BY BoundsNat DEF Typed
<1>1. UNCHANGED <<pc, call, todo, ambient, old, pending, lru, runs, begun, minted>> /\ killed' = TRUE
  BY Zenon DEF Kill
<1>2. faults' \in 0..MaxFaults
  BY <1>0 DEF Kill, Faults
<1>3. killed' \in BOOLEAN
  BY <1>1
<1> QED
  BY <1>1, <1>2, <1>3, Zenon DEF Typed

----------------------------------------------------------------------------
(* Steps                                                                   *)

(* Nothing happens to a call but that its task moves on.                   *)
LEMMA QuietStep ==
  ASSUME LlmInv, Typed', UNCHANGED <<call, todo, lru, begun>>, minted' >= minted,
         \A u \in Tasks : pc'[u] = pc[u] \/ Placed(call[u], pc'[u])
  PROVE  LlmInv'
<1>1. Distinct'
  <2>1. minted \in Nat /\ minted' \in Nat /\ \A u \in Tasks : call[u].own \in Nat
    <3>1. minted \in 0..MaxReservations
      BY DEF LlmInv, Typed
    <3>2. \A u \in Tasks : call[u].own \in 0..MaxReservations
      BY TypedAt DEF LlmInv
    <3>3. minted' \in 0..MaxReservations /\ MaxReservations \in Nat
      BY BoundsNat DEF Typed
    <3> QED
      BY ONLY <3>1, <3>2, <3>3
  <2>2. MaxCalls \in Nat /\ MaxReservations \in Nat
    BY BoundsNat
  <2>3. \A f \in ToSet(lru) : f[2] \in Nat
    <3>1. ToSet(lru) \subseteq Fingerprints
      BY DEF LlmInv, Typed, ToSet
    <3> QED
      BY <2>2, <3>1 DEF Fingerprints
  <2> QED
    BY <2>1, <2>3 DEF LlmInv, Distinct
<1>2. ASSUME NEW u \in Tasks PROVE Followed(call'[u], pc'[u], todo'[u], ToSet(lru'))
  <2>1. Followed(call[u], pc[u], todo[u], ToSet(lru))
    BY DEF LlmInv
  <2>2. Followed(call[u], pc'[u], todo[u], ToSet(lru))
    BY <2>1, FollowedMoved, Zenon
  <2> QED
    BY <2>2
<1> QED
  BY <1>1, <1>2 DEF LlmInv

(* A step of one task, which leaves the list as it is                      *)
LEMMA OwnStep ==
  ASSUME LlmInv, NEW t \in Tasks, NEW c \in Call, NEW p \in Places, NEW q \in Seq(Event), Len(q) <= 2,
         call' = [call EXCEPT ![t] = c], pc' = [pc EXCEPT ![t] = p], todo' = [todo EXCEPT ![t] = q],
         lru' \in Seq(Fingerprints), Len(lru') <= LruMax, IsInjective(lru'), ToSet(lru') = ToSet(lru),
         runs' \in Seq(1..MaxCalls), Len(runs') <= RunsMax,
         pending' = pending, killed' = killed,
         ambient' \in [Tasks -> 0..MaxReservations], old' \in [Tasks -> BOOLEAN],
         begun' \in 0..MaxCalls, minted' \in 0..MaxReservations, faults' \in 0..MaxFaults,
         begun' >= begun, minted' >= minted,
         c.number \in {0, call[t].number} \/ (begun' > begun /\ c.number = begun'),
         c.own \in {0, call[t].own} \/ (minted' > minted /\ c.own = minted'),
         Followed(c, p, q, ToSet(lru))
  PROVE  LlmInv'
<1>0. /\ pc \in [Tasks -> Places] /\ call \in [Tasks -> Call] /\ todo \in [Tasks -> Seq(Event)]
      /\ begun \in Nat /\ minted \in Nat /\ begun' \in Nat /\ minted' \in Nat
      /\ \A u \in Tasks : Len(todo[u]) <= 2
  <2>1. begun \in 0..MaxCalls /\ minted \in 0..MaxReservations
    BY DEF LlmInv, Typed
  <2>2. begun \in Nat /\ minted \in Nat /\ begun' \in Nat /\ minted' \in Nat
    BY <2>1, BoundsNat
  <2> QED
    BY <2>2 DEF LlmInv, Typed
<1>1. Typed'
  <2>1. pc' \in [Tasks -> Places] /\ call' \in [Tasks -> Call] /\ todo' \in [Tasks -> Seq(Event)]
    BY <1>0, Zenon
  <2>2. \A u \in Tasks : Len(todo'[u]) <= 2
    BY <1>0
  <2> QED
    BY <2>1, <2>2, Zenon DEF LlmInv, Typed
<1>2. \A u \in Tasks : u # t => call'[u] = call[u] /\ pc'[u] = pc[u] /\ todo'[u] = todo[u]
  BY <1>0
<1>3. call'[t] = c /\ pc'[t] = p /\ todo'[t] = q
  BY <1>0
<1>n. /\ t \in Tasks
      /\ c.number \in {0, call[t].number} \/ (begun' > begun /\ c.number = begun')
      /\ c.own \in {0, call[t].own} \/ (minted' > minted /\ c.own = minted')
  OBVIOUS
<1>4. Distinct'
  <2>0. \A u \in Tasks : /\ call[u].number \in Nat /\ call[u].own \in Nat
                         /\ call[u].number <= begun /\ call[u].own <= minted
    <3>1. \A u \in Tasks : call[u].number \in 0..MaxCalls /\ call[u].own \in 0..MaxReservations
      BY TypedAt DEF LlmInv
    <3>2. \A u \in Tasks : call[u].number <= begun /\ call[u].own <= minted
      BY DEF LlmInv, Distinct
    <3>3. MaxCalls \in Nat /\ MaxReservations \in Nat
      BY BoundsNat
    <3> QED
      BY ONLY <3>1, <3>2, <3>3
  <2>m. /\ begun \in Nat /\ minted \in Nat /\ begun' \in Nat /\ minted' \in Nat
        /\ begun' >= begun /\ minted' >= minted
    BY <1>0
  <2>1. \A u \in Tasks : call'[u].number <= begun' /\ call'[u].own <= minted'
    <3>1. c.number <= begun' /\ c.own <= minted'
      BY ONLY <1>n, <2>0, <2>m
    <3>2. \A u \in Tasks : call[u].number <= begun' /\ call[u].own <= minted'
      BY ONLY <2>0, <2>m
    <3> QED
      BY ONLY <1>2, <1>3, <1>n, <3>1, <3>2
  <2>2. \A u, v \in Tasks : u # v /\ call'[u].number # 0 => call'[u].number # call'[v].number
    <3>1. \A u, v \in Tasks : u # v /\ call[u].number # 0 => call[u].number # call[v].number
      BY DEF LlmInv, Distinct
    <3>2. \A u \in Tasks : u # t /\ c.number # 0 => c.number # call[u].number
      BY ONLY <1>n, <2>0, <2>m, <3>1
    <3> QED
      BY ONLY <1>2, <1>3, <1>n, <3>1, <3>2
  <2>3. \A u, v \in Tasks : u # v /\ call'[u].own # 0 => call'[u].own # call'[v].own
    <3>1. \A u, v \in Tasks : u # v /\ call[u].own # 0 => call[u].own # call[v].own
      BY DEF LlmInv, Distinct
    <3>2. \A u \in Tasks : u # t /\ c.own # 0 => c.own # call[u].own
      BY ONLY <1>n, <2>0, <2>m, <3>1
    <3> QED
      BY ONLY <1>2, <1>3, <1>n, <3>1, <3>2
  <2>4. \A f \in ToSet(lru) : f[2] \in Nat
    <3>1. ToSet(lru) \subseteq Fingerprints
      <4>1. lru \in Seq(Fingerprints)
        BY DEF LlmInv, Typed
      <4> QED
        BY ONLY <4>1 DEF ToSet
    <3> QED
      BY <3>1, BoundsNat DEF Fingerprints
  <2>5. \A f \in ToSet(lru') : /\ f[1] \in {"response", "body"} => f[2] <= begun'
                               /\ f[1] = "release" => f[2] <= minted'
    BY <1>0, <2>4, SMTT(30) DEF LlmInv, Distinct
  <2> QED
    BY <2>1, <2>2, <2>3, <2>5 DEF Distinct
<1>5. ASSUME NEW u \in Tasks PROVE Followed(call'[u], pc'[u], todo'[u], ToSet(lru'))
  BY <1>2, <1>3 DEF LlmInv
<1> QED
  BY <1>1, <1>4, <1>5 DEF LlmInv

(* What the invariant says of the state and of one task                    *)
LEMMA InvAt ==
  ASSUME LlmInv, NEW t \in Tasks
  PROVE  /\ Followed(call[t], pc[t], todo[t], ToSet(lru))
         /\ lru \in Seq(Fingerprints) /\ Len(lru) <= LruMax /\ IsInjective(lru)
         /\ runs \in Seq(1..MaxCalls) /\ Len(runs) <= RunsMax
         /\ ambient \in [Tasks -> 0..MaxReservations] /\ old \in [Tasks -> BOOLEAN]
         /\ begun \in 0..MaxCalls /\ minted \in 0..MaxReservations /\ faults \in 0..MaxFaults
         /\ begun >= begun /\ minted >= minted
         /\ todo = [todo EXCEPT ![t] = todo[t]] /\ call = [call EXCEPT ![t] = call[t]]
         /\ pc = [pc EXCEPT ![t] = pc[t]]
         /\ <<>> \in Seq(Event) /\ Len(<<>>) <= 2
<1>1. Followed(call[t], pc[t], todo[t], ToSet(lru))
  BY DEF LlmInv
<1>2. /\ lru \in Seq(Fingerprints) /\ Len(lru) <= LruMax /\ IsInjective(lru)
      /\ runs \in Seq(1..MaxCalls) /\ Len(runs) <= RunsMax
      /\ ambient \in [Tasks -> 0..MaxReservations] /\ old \in [Tasks -> BOOLEAN]
      /\ begun \in 0..MaxCalls /\ minted \in 0..MaxReservations /\ faults \in 0..MaxFaults
  BY DEF LlmInv, Typed
<1>3. todo = [todo EXCEPT ![t] = todo[t]] /\ call = [call EXCEPT ![t] = call[t]]
      /\ pc = [pc EXCEPT ![t] = pc[t]]
  BY DEF LlmInv, Typed
<1>4. begun >= begun /\ minted >= minted
  BY <1>2, BoundsNat
<1>5. <<>> \in Seq(Event) /\ Len(<<>>) <= 2
  OBVIOUS
<1> QED
  BY <1>1, <1>2, <1>3, <1>4, <1>5

LEMMA BeginStep ==
  ASSUME LlmInv, NEW t \in Tasks, Begin(t)
  PROVE  LlmInv'
<1>0. PICK k \in Kinds :
        /\ call' = [call EXCEPT ![t] = [NoCall EXCEPT !.number = begun', !.kind = k]]
        /\ pc' = [pc EXCEPT ![t] = IF k.observed THEN "start" ELSE "send"]
  BY DEF Begin, GoTo
<1>1. /\ todo[t] = <<>> /\ UNCHANGED <<todo, ambient, old, pending, killed, lru, runs, minted, faults>>
      /\ begun < MaxCalls /\ begun' = begun + 1
  BY Zenon DEF Begin, At
<1> DEFINE c == [NoCall EXCEPT !.number = begun', !.kind = k]
           p == IF k.observed THEN "start" ELSE "send"
<1>2. k \in CallKinds /\ p \in Places /\ p \in {"start", "send"}
  BY KindsKnown DEF Places
<1>3. begun' \in 1..MaxCalls /\ begun' \in 0..MaxCalls /\ begun' > begun /\ begun' >= begun
  BY <1>1, InvAt, BoundsNat
<1>4. c \in Call /\ c.number = begun' /\ c.own = 0
  <2>1. c \in Call
    BY <1>2, <1>3, CallsTyped
  <2> QED
    BY <2>1 DEF NoCall
<1>5. <<"response", begun'>> \notin ToSet(lru) /\ <<"body", begun'>> \notin ToSet(lru)
  <2>1. begun \in Nat
    BY InvAt, BoundsNat
  <2> DEFINE f == <<"response", begun'>>
             g == <<"body", begun'>>
  <2>2. f[1] = "response" /\ f[2] = begun' /\ g[1] = "body" /\ g[2] = begun'
    OBVIOUS
  <2> HIDE DEF f, g
  <2>3. f \notin ToSet(lru) /\ g \notin ToSet(lru)
    BY <1>1, <2>1, <2>2 DEF LlmInv, Distinct
  <2> QED
    BY <2>3 DEF f, g
<1>6. Followed(c, p, <<>>, ToSet(lru))
  BY <1>2, <1>3, <1>5, FollowedBegun, Zenon
<1>7. call' = [call EXCEPT ![t] = c] /\ pc' = [pc EXCEPT ![t] = p] /\ todo' = [todo EXCEPT ![t] = <<>>]
  BY <1>0, <1>1, InvAt
<1> HIDE DEF c, p
<1> QED
  <2>1. /\ ToSet(lru') = ToSet(lru) /\ lru' = lru /\ runs' = runs /\ ambient' = ambient /\ old' = old
        /\ minted' = minted /\ faults' = faults /\ pending' = pending /\ killed' = killed
    BY <1>1
  <2> QED
    BY <1>1, <1>2, <1>3, <1>4, <1>6, <1>7, <2>1, InvAt, OwnStep, ZenonT(60)

LEMMA OverStep ==
  ASSUME LlmInv, NEW t \in Tasks, Over(t)
  PROVE  LlmInv'
<1>1. /\ todo[t] = <<>> /\ UNCHANGED <<todo, ambient, old, pending, killed, lru, runs, begun, minted, faults>>
      /\ pc' = [pc EXCEPT ![t] = "idle"] /\ call' = [call EXCEPT ![t] = NoCall]
  BY Zenon DEF Over, At, GoTo
<1>2. NoCall \in Call /\ "idle" \in Places
  BY CallsTyped DEF Places
<1>3. NoCall.number \in {0, call[t].number} /\ NoCall.own \in {0, call[t].own}
  BY DEF NoCall
<1>4. /\ ToSet(lru') = ToSet(lru) /\ lru' = lru /\ runs' = runs /\ ambient' = ambient /\ old' = old
      /\ begun' = begun /\ minted' = minted /\ faults' = faults /\ pending' = pending /\ killed' = killed
      /\ todo' = [todo EXCEPT ![t] = <<>>]
  BY <1>1, InvAt
<1> QED
  BY <1>1, <1>2, <1>3, <1>4, FollowedIdle, InvAt, OwnStep, ZenonT(60)

LEMMA OnLlmEndStep ==
  ASSUME LlmInv, NEW t \in Tasks, OnLlmEnd(t)
  PROVE  LlmInv'
<1> DEFINE u == call[t].reply # "bare"
           e == [fp |-> CallbackFingerprint(call[t]), res |-> 0, usage |-> u, by |-> "callback"]
           q == <<e>>
<1>1. /\ pc[t] = "returned" /\ todo[t] = <<>> /\ EndRun(call[t].number)
      /\ UNCHANGED <<call, ambient, old, pending, killed, lru, begun, minted, faults>>
      /\ pc' = [pc EXCEPT ![t] = "over"] /\ todo' = [todo EXCEPT ![t] = q]
  BY Zenon DEF OnLlmEnd, At, GoTo
<1>2. Followed(call[t], "returned", <<>>, ToSet(lru))
  BY <1>1, InvAt
<1>3. call[t] \in Call /\ call[t].number \in 1..MaxCalls /\ "over" \in Places /\ u \in BOOLEAN
  <2>1. call[t] \in Call /\ call[t].number \in 0..MaxCalls
    BY TypedAt DEF LlmInv
  <2>2. call[t].number # 0
    BY <1>2 DEF Followed, Placed
  <2> QED
    BY <2>1, <2>2, BoundsNat DEF Places
<1>4. Followed(call[t], "over", q, ToSet(lru))
  BY <1>2, <1>3, FollowedCallback, Zenon
<1>5. q \in Seq(Event) /\ Len(q) <= 2
  <2>0. 0 \in 0..MaxReservations
    BY BoundsNat
  <2>1. CallbackFingerprint(call[t]) \in Fingerprints
    BY <1>3, EventsTyped, Zenon
  <2>2. e \in Event
    <3> HIDE DEF u
    <3> QED
      BY <1>3, <2>0, <2>1 DEF Event, Observers
  <2> HIDE DEF e
  <2> QED
    BY <2>2
<1>6. runs' \in Seq(1..MaxCalls) /\ Len(runs') <= RunsMax
  BY <1>1, <1>3, InvAt, RunsTyped, Zenon
<1>7. /\ ToSet(lru') = ToSet(lru) /\ lru' = lru /\ ambient' = ambient /\ old' = old
      /\ begun' = begun /\ minted' = minted /\ faults' = faults /\ pending' = pending /\ killed' = killed
      /\ call' = [call EXCEPT ![t] = call[t]]
      /\ call[t].number \in {0, call[t].number} /\ call[t].own \in {0, call[t].own}
  BY <1>1, InvAt
<1> HIDE DEF q
<1> QED
  BY <1>1, <1>3, <1>4, <1>5, <1>6, <1>7, InvAt, OwnStep, ZenonT(60)

(* The request leaves.                                                     *)
LEMMA LeaveStep ==
  ASSUME LlmInv, NEW t \in Tasks, NEW own \in 0..MaxReservations,
         At(t, "send"), Leave(t, own), UNCHANGED <<pending, killed, lru, runs, begun>>,
         ambient' \in [Tasks -> 0..MaxReservations], old' \in [Tasks -> BOOLEAN],
         minted' \in 0..MaxReservations, faults' \in 0..MaxFaults, minted' >= minted,
         own # 0 => own = minted + 1 /\ minted' > minted /\ own = minted' /\ call[t].kind.known
  PROVE  LlmInv'
<1> DEFINE q == IF call[t].kind.path = "stream" THEN Skipped(call[t]) \o Release(own) ELSE <<>>
           c == [call[t] EXCEPT !.own = own]
<1>1. /\ pc[t] = "send" /\ todo[t] = <<>> /\ pc' = [pc EXCEPT ![t] = "provider"]
      /\ call' = [call EXCEPT ![t].own = own] /\ todo' = [todo EXCEPT ![t] = q]
  BY DEF At, Leave, GoTo
<1>2. call[t] \in Call /\ "provider" \in Places
  BY TypedAt DEF LlmInv, Places
<1>3. Followed(call[t], "send", <<>>, ToSet(lru))
  BY <1>1, InvAt
<1>4. own # 0 => <<"release", own>> \notin ToSet(lru)
  <2>1. minted \in Nat
    BY InvAt, BoundsNat
  <2> DEFINE f == <<"release", own>>
  <2>2. f[1] = "release" /\ f[2] = own
    OBVIOUS
  <2> HIDE DEF f
  <2>3. own # 0 => f \notin ToSet(lru)
    BY <2>1, <2>2 DEF LlmInv, Distinct
  <2> QED
    BY <2>3 DEF f
<1>5. Followed(c, "provider", q, ToSet(lru))
  BY <1>2, <1>3, <1>4, FollowedSent, Zenon
<1>6. c \in Call /\ c.number = call[t].number /\ c.own = own
  <2>1. c \in Call
    BY <1>2, CallsTyped
  <2> QED
    BY <1>2, <2>1 DEF Call
<1>7. q \in Seq(Event) /\ Len(q) <= 2
  <2>1. CASE call[t].kind.path # "stream"
    BY <2>1
  <2>2. CASE call[t].kind.path = "stream"
    <3>1. q = Skipped(call[t]) \o Release(own)
      BY <2>2
    <3> HIDE DEF q
    <3>2. q \in Seq(Event) /\ Len(q) = IF own = 0 THEN 1 ELSE 2
      BY <1>2, <3>1, SkippedFacts, Zenon
    <3> QED
      BY <3>2
  <2> QED
    BY <2>1, <2>2
<1>8. /\ ToSet(lru') = ToSet(lru) /\ lru' = lru /\ runs' = runs
      /\ begun' = begun /\ pending' = pending /\ killed' = killed
      /\ call' = [call EXCEPT ![t] = c]
      /\ c.number \in {0, call[t].number} /\ (c.own \in {0, call[t].own} \/ (minted' > minted /\ c.own = minted'))
  <2>1. call \in [Tasks -> Call]
    BY DEF LlmInv, Typed
  <2>2. [call EXCEPT ![t].own = own] = [call EXCEPT ![t] = [@ EXCEPT !.own = own]]
    BY <2>1
  <2>3. call' = [call EXCEPT ![t] = c]
    BY <1>1, <2>1, <2>2
  <2> HIDE DEF c
  <2> QED
    BY <1>6, <2>3
<1> HIDE DEF q, c
<1> QED
  BY <1>1, <1>2, <1>5, <1>6, <1>7, <1>8, InvAt, OwnStep, ZenonT(60)

LEMMA SendStep ==
  ASSUME LlmInv, NEW t \in Tasks, SendUnreserved(t) \/ Preflight(t)
  PROVE  LlmInv'
<1>0. 0 \in 0..MaxReservations /\ Typed
  BY BoundsNat DEF LlmInv
<1>1. CASE SendUnreserved(t)
  <2>1. /\ At(t, "send") /\ Leave(t, 0)
        /\ UNCHANGED <<ambient, old, pending, killed, lru, runs, begun, minted, faults>>
    BY <1>1, Zenon DEF SendUnreserved
  <2> QED
    BY <1>0, <2>1, InvAt, LeaveStep, Zenon
<1>2. CASE Preflight(t)
  <2>1. /\ At(t, "send") /\ UNCHANGED <<pending, killed, lru, runs, begun>> /\ call[t].kind.known
        /\ \/ Reserve(t) /\ Leave(t, minted')
           \/ NoReserve(t) /\ Leave(t, 0)
           \/ NoReserve(t) /\ GoTo(t, "over") /\ UNCHANGED <<call, todo>>
    BY <1>2, Zenon DEF Preflight, NeedsPreflight
  <2>2. CASE Reserve(t) /\ Leave(t, minted')
    <3>1. /\ ambient' \in [Tasks -> 0..MaxReservations] /\ old' \in [Tasks -> BOOLEAN]
          /\ minted' \in 0..MaxReservations /\ faults' \in 0..MaxFaults /\ minted' >= minted
      BY <1>0, <2>2, ReserveTyped, Zenon
    <3>2. minted' = minted + 1
      BY <2>2 DEF Reserve
    <3>3. minted' > minted
      BY <3>2, InvAt, BoundsNat
    <3> QED
      BY <2>1, <2>2, <3>1, <3>2, <3>3, LeaveStep, Zenon
  <2>3. CASE NoReserve(t) /\ Leave(t, 0)
    <3>1. /\ ambient' \in [Tasks -> 0..MaxReservations] /\ old' \in [Tasks -> BOOLEAN]
          /\ minted' \in 0..MaxReservations /\ faults' \in 0..MaxFaults /\ minted' >= minted
      BY <1>0, <2>3, ReserveTyped, Zenon
    <3> QED
      BY <1>0, <2>1, <2>3, <3>1, LeaveStep, Zenon
  <2>4. CASE NoReserve(t) /\ GoTo(t, "over") /\ UNCHANGED <<call, todo>>
    <3>1. /\ ambient' \in [Tasks -> 0..MaxReservations] /\ old' \in [Tasks -> BOOLEAN]
          /\ minted' \in 0..MaxReservations /\ faults' \in 0..MaxFaults /\ minted' >= minted
      BY <1>0, <2>4, ReserveTyped, Zenon
    <3>2. pc \in [Tasks -> Places] /\ pc' = [pc EXCEPT ![t] = "over"] /\ pc[t] = "send"
      BY <1>0, <2>1, <2>4 DEF Typed, GoTo, At
    <3>3. pc' \in [Tasks -> Places]
      BY <3>2 DEF Places
    <3>4. Typed'
      BY <1>0, <2>1, <2>4, <3>1, <3>3, Zenon DEF Typed
    <3>5. Placed(call[t], "over")
      <4>1. Placed(call[t], "send")
        BY <3>2, InvAt, Zenon DEF Followed
      <4> QED
        BY <4>1 DEF Placed
    <3>6. \A u \in Tasks : pc'[u] = pc[u] \/ Placed(call[u], pc'[u])
      BY <3>2, <3>5
    <3>7. UNCHANGED <<call, todo, lru, begun>>
      BY <2>1, <2>4
    <3> QED
      BY <3>1, <3>4, <3>6, <3>7, QuietStep, Zenon
  <2> QED
    BY <2>1, <2>2, <2>3, <2>4
<1> QED
  BY <1>1, <1>2

LEMMA ProviderStep ==
  ASSUME LlmInv, NEW t \in Tasks, Provider(t)
  PROVE  LlmInv'
<1>0. PICK reply \in Replies \ {"none"}, id \in BOOLEAN, alias \in BOOLEAN :
        /\ Faults((IF id THEN 0 ELSE 1) + (IF alias THEN 1 ELSE 0) + (IF reply \in Uncaught THEN 1 ELSE 0))
        /\ call' = [call EXCEPT ![t] = [@ EXCEPT !.reply = reply, !.id = id, !.alias = alias]]
        /\ todo' = [todo EXCEPT ![t] = Settle(call[t], reply, id)]
        /\ GoTo(t, IF reply \notin Raised /\ call[t].kind.observed THEN "returned" ELSE "over")
  BY Zenon DEF Provider
<1>1. pc[t] = "provider" /\ todo[t] = <<>>
      /\ UNCHANGED <<ambient, old, pending, killed, lru, runs, begun, minted>>
  BY Zenon DEF Provider, At
<1> DEFINE c == [call[t] EXCEPT !.reply = reply, !.id = id, !.alias = alias]
           p == IF reply \notin Raised /\ call[t].kind.observed THEN "returned" ELSE "over"
           q == Settle(call[t], reply, id)
<1>2. call[t] \in Call /\ p \in {"returned", "over"} /\ p \in Places
  BY TypedAt DEF LlmInv, Places
<1>3. Followed(call[t], "provider", <<>>, ToSet(lru))
  BY <1>1, InvAt
<1> HIDE DEF p
<1>4. Followed(c, p, q, ToSet(lru))
  BY <1>2, <1>3, FollowedAnswered, Zenon
<1>5. c \in Call /\ c.number = call[t].number /\ c.own = call[t].own
  <2>1. c \in Call
    BY <1>2, CallsTyped
  <2> QED
    BY <1>2, <2>1 DEF Call
<1>6. q \in Seq(Event) /\ Len(q) <= 2
  BY <1>2, SettleTyped
<1>7. faults' \in 0..MaxFaults
  <2>1. faults \in Nat /\ MaxFaults \in Nat
    BY InvAt, BoundsNat
  <2>2. \E n \in 0..3 : Faults(n)
    BY <1>0
  <2> QED
    BY <2>1, <2>2 DEF Faults
<1>8. /\ ToSet(lru') = ToSet(lru) /\ lru' = lru /\ runs' = runs /\ ambient' = ambient /\ old' = old
      /\ begun' = begun /\ minted' = minted /\ pending' = pending /\ killed' = killed
      /\ call' = [call EXCEPT ![t] = c] /\ todo' = [todo EXCEPT ![t] = q]
      /\ c.number \in {0, call[t].number} /\ c.own \in {0, call[t].own}
  <2>1. call' = [call EXCEPT ![t] = c] /\ todo' = [todo EXCEPT ![t] = q]
    BY <1>0
  <2> HIDE DEF c, q
  <2> QED
    BY <1>1, <1>5, <2>1
<1>9. pc' = [pc EXCEPT ![t] = p]
  BY <1>0 DEF GoTo, p
<1> HIDE DEF c, q
<1> QED
  BY <1>2, <1>4, <1>5, <1>6, <1>7, <1>8, <1>9, InvAt, OwnStep, Zenon

LEMMA DuplicateStep ==
  ASSUME LlmInv, NEW t \in Tasks, Duplicate(t)
  PROVE  LlmInv'
<1>0. PICK i \in DOMAIN lru : lru[i] = Head(todo[t]).fp /\ lru' = MoveToEnd(lru, i)
  BY Zenon DEF Duplicate
<1>1. /\ todo[t] # <<>> /\ Head(todo[t]).fp \in ToSet(lru) /\ todo' = [todo EXCEPT ![t] = Tail(@)]
      /\ UNCHANGED <<pc, call, ambient, old, pending, killed, runs, begun, minted, faults>>
  BY Zenon DEF Duplicate, Seen
<1>2. /\ call[t] \in Call /\ pc[t] \in Places /\ todo[t] \in Seq(Event) /\ Len(todo[t]) <= 2
      /\ Followed(call[t], pc[t], todo[t], ToSet(lru))
      /\ lru \in Seq(Fingerprints) /\ IsInjective(lru) /\ Len(lru) <= LruMax
  BY TypedAt, InvAt DEF LlmInv
<1> DEFINE q == Tail(todo[t])
<1>3. Followed(call[t], pc[t], q, ToSet(lru))
  BY <1>1, <1>2, FollowedDuplicate, Zenon
<1>4. q \in Seq(Event) /\ Len(q) <= 2
  <2>1. q \in Seq(Event) /\ Len(q) <= 1
    BY <1>1, <1>2, TailFacts, Zenon
  <2> HIDE DEF q
  <2> QED
    BY <2>1
<1>5. i \in 1..Len(lru)
  BY <1>2
<1>6. lru' \in Seq(Fingerprints) /\ Len(lru') = Len(lru) /\ IsInjective(lru') /\ ToSet(lru') = ToSet(lru)
  BY <1>0, <1>2, <1>5, Moved, Zenon
<1>7. /\ runs' = runs /\ ambient' = ambient /\ old' = old /\ Len(lru') <= LruMax
      /\ begun' = begun /\ minted' = minted /\ faults' = faults /\ pending' = pending /\ killed' = killed
      /\ call' = [call EXCEPT ![t] = call[t]] /\ pc' = [pc EXCEPT ![t] = pc[t]]
      /\ todo' = [todo EXCEPT ![t] = q]
      /\ call[t].number \in {0, call[t].number} /\ call[t].own \in {0, call[t].own}
  BY <1>1, <1>2, <1>6, InvAt
<1> HIDE DEF q
<1> QED
  BY <1>2, <1>3, <1>4, <1>6, <1>7, InvAt, OwnStep, Zenon

(* An event that is new may push the fingerprint of any call out of the    *)
(* list.                                                                   *)
LEMMA NewStep ==
  ASSUME LlmInv, NEW t \in Tasks, todo[t] # <<>>, NEW c \in Call, New(t, Head(todo[t]), c),
         SameRequest(call[t], c), c.pushed = call[t].pushed, Outcome(call[t], c, Head(todo[t])),
         faults' \in 0..MaxFaults
  PROVE  LlmInv'
<1> DEFINE e == Head(todo[t])
           d(u) == IF u = t THEN c ELSE call[u]
           L == ToSet(lru)
           M == ToSet(lru')
<1>1. /\ ~Seen(e.fp) /\ lru' = Remember(e.fp)
      /\ call' = [u \in Tasks |-> [d(u) EXCEPT !.pushed = @ \/ Pushed(d(u), lru')]]
      /\ ambient' = [ambient EXCEPT ![t] = IF old[t] THEN 0 ELSE @]
      /\ old' = [old EXCEPT ![t] = FALSE]
      /\ todo' = [todo EXCEPT ![t] = Tail(@)]
  BY DEF New
<1>2. UNCHANGED <<pc, pending, killed, runs, begun, minted>>
  BY Zenon DEF New
<1>3. /\ call[t] \in Call /\ todo[t] \in Seq(Event) /\ Len(todo[t]) <= 2
      /\ Followed(call[t], pc[t], todo[t], L)
      /\ lru \in Seq(Fingerprints) /\ IsInjective(lru) /\ Len(lru) <= LruMax
  BY TypedAt, InvAt DEF LlmInv
<1>4. /\ Tail(todo[t]) \in Seq(Event) /\ Len(Tail(todo[t])) <= 1 /\ e \in Event /\ e = todo[t][1]
      /\ 1 \in DOMAIN todo[t]
  BY <1>3, TailFacts, Zenon
<1> HIDE DEF e
<1>5. e.fp \in Fingerprints
  BY <1>4 DEF Event
<1>6. /\ lru' \in Seq(Fingerprints) /\ Len(lru') <= LruMax /\ IsInjective(lru')
      /\ M \subseteq L \cup {e.fp} /\ (e.fp # NoFingerprint => e.fp \in M)
  BY <1>1, <1>3, <1>5, Remembered, Zenon
<1>7. e.fp \notin L \/ e.fp = NoFingerprint
  BY <1>1 DEF Seen
<1>8. Own(e, call[t], L)
  BY <1>3, <1>4 DEF Followed, Queued
<1>9. ASSUME NEW u \in Tasks
      PROVE  /\ call'[u] \in Call /\ SameRequest(d(u), call'[u]) /\ call'[u].settled = d(u).settled
             /\ call'[u].lost = d(u).lost /\ call'[u].dropped = d(u).dropped
             /\ (d(u).pushed \/ LlmFingerprint(d(u).number, d(u).id) \in L \ M) => call'[u].pushed
  <2> DEFINE x == d(u)
             b == x.pushed \/ Pushed(x, lru')
  <2>1. x \in Call
    BY TypedAt DEF LlmInv
  <2>2. call'[u] = [x EXCEPT !.pushed = b]
    BY <1>1
  <2> HIDE DEF x
  <2>3. b \in BOOLEAN
    BY <2>1 DEF Call, Pushed
  <2>4. b <=> (x.pushed \/ LlmFingerprint(x.number, x.id) \in L \ M)
    BY DEF Pushed
  <2> HIDE DEF b
  <2>5. call'[u] \in Call
    BY <2>1, <2>2, <2>3, CallsTyped, ZenonT(60)
  <2>6. /\ call'[u].pushed = b /\ call'[u].number = x.number /\ call'[u].kind = x.kind
        /\ call'[u].own = x.own /\ call'[u].reply = x.reply /\ call'[u].id = x.id
        /\ call'[u].alias = x.alias /\ call'[u].settled = x.settled /\ call'[u].lost = x.lost
        /\ call'[u].dropped = x.dropped
    BY <2>1, <2>2 DEF Call
  <2> HIDE DEF L, M
  <2> QED
    BY <2>4, <2>5, <2>6 DEF SameRequest, x
<1>10. d(t) = c /\ \A u \in Tasks : u # t => d(u) = call[u]
  OBVIOUS
<1>11. \A u \in Tasks : SameRequest(call[u], call'[u]) /\ PushedOut(call[u], call'[u], L, M)
  <2> HIDE DEF L, M, d
  <2> QED
    BY <1>9, <1>10 DEF SameRequest, PushedOut
<1>12. Outcome(call[t], call'[t], e)
  <2>1. Outcome(call[t], c, e)
    BY DEF e
  <2>2. call'[t].settled = c.settled /\ call'[t].lost = c.lost /\ call'[t].dropped = c.dropped
    BY <1>9, <1>10
  <2> QED
    BY <2>1, <2>2 DEF Outcome
<1> HIDE DEF L, M, d
<1>13. \A u \in Tasks : u # t =>
         /\ call'[u].settled = call[u].settled /\ call'[u].lost = call[u].lost
         /\ call'[u].dropped = call[u].dropped
  BY <1>9, <1>10
<1>t. Typed'
  <2>1. call' \in [Tasks -> Call]
    <3>1. DOMAIN call' = Tasks /\ call' = [u \in Tasks |-> call'[u]]
      BY <1>1
    <3> QED
      BY <1>9, <3>1
  <2>2. todo' \in [Tasks -> Seq(Event)] /\ \A u \in Tasks : Len(todo'[u]) <= 2
    <3> DEFINE q == Tail(todo[t])
    <3>1. todo' = [todo EXCEPT ![t] = q] /\ q \in Seq(Event) /\ Len(q) <= 1
      BY <1>1, <1>4
    <3> HIDE DEF q
    <3>2. todo \in [Tasks -> Seq(Event)] /\ \A u \in Tasks : Len(todo[u]) <= 2
      BY DEF LlmInv, Typed
    <3>3. Len(q) <= 2
      BY <3>1
    <3> QED
      BY <3>1, <3>2, <3>3
  <2>3. ambient' \in [Tasks -> 0..MaxReservations] /\ old' \in [Tasks -> BOOLEAN]
    <3>1. ambient \in [Tasks -> 0..MaxReservations] /\ old \in [Tasks -> BOOLEAN] /\ 0 \in 0..MaxReservations
      BY InvAt, BoundsNat
    <3> QED
      BY <1>1, <3>1
  <2> QED
    BY <1>2, <1>6, <2>1, <2>2, <2>3, Zenon DEF LlmInv, Typed
<1>d. Distinct'
  <2>1. \A u \in Tasks : call'[u].number = call[u].number /\ call'[u].own = call[u].own
    BY <1>11 DEF SameRequest
  <2>2. begun' = begun /\ minted' = minted
    BY <1>2
  <2>3. ASSUME NEW f \in M
        PROVE  /\ f[1] \in {"response", "body"} => f[2] <= begun
               /\ f[1] = "release" => f[2] <= minted
    <3>1. f \in L \/ f = e.fp
      BY <1>6
    <3>2. call[t].number <= begun /\ call[t].own <= minted
      BY DEF LlmInv, Distinct
    <3> QED
      BY <1>8, <3>1, <3>2 DEF LlmInv, Distinct, Own, L
  <2> QED
    BY <2>1, <2>2, <2>3 DEF LlmInv, Distinct, M
<1>f. ASSUME NEW u \in Tasks PROVE Followed(call'[u], pc'[u], todo'[u], M)
  <2>0. pc' = pc
    BY <1>2
  <2>1. CASE u = t
    <3>1. todo'[t] = Tail(todo[t])
      BY <1>1 DEF LlmInv, Typed
    <3>2. call[t].lost \in BOOLEAN
      BY <1>3 DEF Call
    <3>3. Followed(call'[t], pc[t], Tail(todo[t]), M)
      BY <1>3, <1>6, <1>7, <1>11, <1>12, <3>2, FollowedTracked, Zenon DEF e
    <3> QED
      BY <2>0, <2>1, <3>1, <3>3
  <2>2. CASE u # t
    <3>1. todo'[u] = todo[u]
      BY <1>1, <2>2 DEF LlmInv, Typed
    <3>2. Followed(call[u], pc[u], todo[u], L)
      BY InvAt DEF L
    <3>3. /\ e.fp[1] \in {"response", "body"} => e.fp[2] # call[u].number
          /\ e.fp[1] = "release" => e.fp[2] # call[u].own
      <4>1. call[t].reply # "none" => call[t].number # 0
        BY <1>3 DEF Followed, Placed
      <4> QED
        BY <1>8, <2>2, <4>1 DEF LlmInv, Distinct, Own
    <3>4. Followed(call'[u], pc[u], todo[u], M)
      BY <1>6, <1>11, <1>13, <2>2, <3>2, <3>3, FollowedElsewhere, Zenon
    <3> QED
      BY <2>0, <3>1, <3>4
  <2> QED
    BY <2>1, <2>2
<1> QED
  BY <1>t, <1>d, <1>f DEF LlmInv, M

LEMMA TrackStep ==
  ASSUME LlmInv, NEW t \in Tasks, Track(t) \/ TrackFails(t)
  PROVE  LlmInv'
<1> DEFINE e == Head(todo[t])
<1>0. call[t] \in Call /\ todo[t] \in Seq(Event) /\ ambient[t] \in 0..MaxReservations /\ todo[t] # <<>>
  BY TypedAt, Zenon DEF LlmInv, Track, TrackFails
<1>1. e \in Event
  BY <1>0, HeadTailProperties
<1> HIDE DEF e
<1>2. e.res \in 0..MaxReservations /\ e.usage \in BOOLEAN /\ e.by \in Observers
  BY <1>1 DEF Event
<1>3. ASSUME NEW c, c = [call[t] EXCEPT !.lost = TRUE]
      PROVE  c \in Call /\ SameRequest(call[t], c) /\ c.pushed = call[t].pushed /\ Outcome(call[t], c, e)
  <2>1. c \in Call
    BY <1>0, <1>3, CallsTyped
  <2>2. c.lost = TRUE /\ c.settled = call[t].settled /\ c.dropped = call[t].dropped /\ c.pushed = call[t].pushed
    BY <1>0, <1>3 DEF Call
  <2>3. SameRequest(call[t], c)
    BY <1>0, <1>3 DEF Call, SameRequest
  <2> QED
    BY <2>1, <2>2, <2>3 DEF Outcome
<1>4. ASSUME NEW c, c = [call[t] EXCEPT !.dropped = TRUE], e.res = 0
      PROVE  c \in Call /\ SameRequest(call[t], c) /\ c.pushed = call[t].pushed /\ Outcome(call[t], c, e)
  <2>1. c \in Call
    BY <1>0, <1>4, CallsTyped
  <2>2. c.dropped = TRUE /\ c.settled = call[t].settled /\ c.lost = call[t].lost /\ c.pushed = call[t].pushed
    BY <1>0, <1>4 DEF Call
  <2>3. SameRequest(call[t], c)
    BY <1>0, <1>4 DEF Call, SameRequest
  <2> QED
    BY <1>4, <2>1, <2>2, <2>3 DEF Outcome
<1>5. ASSUME NEW r \in 1..MaxReservations, e.res # 0 => r = e.res, NEW c,
             c = [call[t] EXCEPT !.settled = @ \cup {[res |-> r, usage |-> e.usage, by |-> e.by]}]
      PROVE  c \in Call /\ SameRequest(call[t], c) /\ c.pushed = call[t].pushed /\ Outcome(call[t], c, e)
  <2> DEFINE s == [res |-> r, usage |-> e.usage, by |-> e.by]
             v == call[t].settled \cup {s}
  <2>1. s \in [res : 1..MaxReservations, usage : BOOLEAN, by : Observers]
    BY <1>2
  <2>2. s.res = r /\ s.usage = e.usage
    OBVIOUS
  <2>3. c = [call[t] EXCEPT !.settled = @ \cup {s}]
    BY <1>5
  <2> HIDE DEF s
  <2>4. c \in Call
    BY <1>0, <2>1, <2>3, CallsTyped
  <2>5. c = [call[t] EXCEPT !.settled = v]
    BY <2>3
  <2> HIDE DEF v
  <2>6. c.settled = v /\ c.lost = call[t].lost /\ c.dropped = call[t].dropped /\ c.pushed = call[t].pushed
    BY <1>0, <2>5 DEF Call
  <2>7. SameRequest(call[t], c)
    BY <1>0, <2>5 DEF Call, SameRequest
  <2>8. Outcome(call[t], c, e)
    <3>1. c.settled = call[t].settled \cup {s} /\ s.usage = e.usage /\ (e.res # 0 => s.res = e.res)
      BY <1>5, <2>2, <2>6 DEF v
    <3> QED
      BY <2>6, <3>1, Zenon DEF Outcome
  <2> QED
    BY <2>4, <2>6, <2>7, <2>8
<1>6. CASE Track(t)
  <2>1. New(t, e, Tracked(t, e)) /\ faults' = faults
    BY <1>6, Zenon DEF Track, e
  <2>2. \/ Tracked(t, e) = [call[t] EXCEPT !.lost = TRUE]
        \/ Tracked(t, e) = [call[t] EXCEPT !.dropped = TRUE] /\ Target(t, e) = 0
        \/ /\ Target(t, e) # 0
           /\ Tracked(t, e) =
                [call[t] EXCEPT !.settled = @ \cup {[res |-> Target(t, e), usage |-> e.usage, by |-> e.by]}]
    BY Zenon DEF Tracked
  <2>3. /\ Target(t, e) = 0 => e.res = 0
        /\ Target(t, e) # 0 => Target(t, e) \in 1..MaxReservations /\ (e.res # 0 => Target(t, e) = e.res)
    BY <1>0, <1>2, BoundsNat DEF Target
  <2> DEFINE c == Tracked(t, e)
  <2> HIDE DEF c
  <2>4. c \in Call /\ SameRequest(call[t], c) /\ c.pushed = call[t].pushed /\ Outcome(call[t], c, e)
    BY <1>3, <1>4, <1>5, <2>2, <2>3, Zenon DEF c
  <2>5. faults' \in 0..MaxFaults
    BY <2>1, InvAt
  <2> QED
    BY <1>0, <2>1, <2>4, <2>5, NewStep, Zenon DEF c, e
<1>7. CASE TrackFails(t)
  <2> DEFINE c == [call[t] EXCEPT !.lost = TRUE]
  <2>1. New(t, e, c) /\ Faults(1)
    BY <1>7, Zenon DEF TrackFails, e
  <2> HIDE DEF c
  <2>2. c \in Call /\ SameRequest(call[t], c) /\ c.pushed = call[t].pushed /\ Outcome(call[t], c, e)
    BY <1>3, Zenon DEF c
  <2>3. faults' \in 0..MaxFaults
    <3>1. faults \in Nat /\ MaxFaults \in Nat
      BY InvAt, BoundsNat
    <3> QED
      BY <2>1, <3>1 DEF Faults
  <2> QED
    BY <1>0, <2>1, <2>2, <2>3, NewStep, Zenon DEF e
<1> QED
  BY <1>6, <1>7

LEMMA QuietSteps ==
  ASSUME LlmInv, NEW t \in Tasks,
         Protect(t) \/ Boundary(t) \/ OnLlmStart(t) \/ Killed(t) \/ GrowOld(t)
  PROVE  LlmInv'
<1>0. Placed(call[t], pc[t]) /\ pc \in [Tasks -> Places] /\ Typed
  BY InvAt DEF Followed, LlmInv, Typed
<1>1. OnLlmStart(t) => call[t].number # 0
  BY <1>0 DEF OnLlmStart, At, Placed
<1>2. Typed' /\ UNCHANGED <<call, todo, lru, begun>> /\ minted' >= minted
  BY <1>0, <1>1, TypedQuietly, Zenon
<1>3. ASSUME NEW p, pc' = [pc EXCEPT ![t] = p], Placed(call[t], p)
      PROVE  LlmInv'
  <2>1. \A u \in Tasks : pc'[u] = pc[u] \/ Placed(call[u], pc'[u])
    BY <1>0, <1>3
  <2> QED
    BY <1>2, <2>1, QuietStep, Zenon
<1>4. ASSUME pc' = pc PROVE LlmInv'
  <2>1. \A u \in Tasks : pc'[u] = pc[u] \/ Placed(call[u], pc'[u])
    BY <1>4
  <2> QED
    BY <1>2, <2>1, QuietStep, Zenon
<1>5. CASE Protect(t)
  <2>1. pc[t] = "idle" /\ (pc' = pc \/ pc' = [pc EXCEPT ![t] = "boundary"])
    BY <1>5, Zenon DEF Protect, At, GoTo
  <2>2. Placed(call[t], "boundary")
    BY <1>0, <2>1 DEF Placed
  <2> QED
    BY <1>3, <1>4, <2>1, <2>2, Zenon
<1>6. CASE Boundary(t)
  <2>1. pc[t] = "boundary" /\ pc' = [pc EXCEPT ![t] = "idle"]
    BY <1>6, Zenon DEF Boundary, At, GoTo
  <2>2. Placed(call[t], "idle")
    BY <1>0, <2>1 DEF Placed
  <2> QED
    BY <1>3, <2>1, <2>2, Zenon
<1>7. CASE OnLlmStart(t)
  <2>1. pc[t] = "start" /\ pc' = [pc EXCEPT ![t] = "send"]
    BY <1>7, Zenon DEF OnLlmStart, At, GoTo
  <2>2. Placed(call[t], "send")
    BY <1>0, <2>1 DEF Placed
  <2> QED
    BY <1>3, <2>1, <2>2, Zenon
<1>8. CASE Killed(t)
  <2>1. pc[t] = "send" /\ pc' = [pc EXCEPT ![t] = "over"]
    BY <1>8, Zenon DEF Killed, At, GoTo
  <2>2. Placed(call[t], "over")
    BY <1>0, <2>1 DEF Placed
  <2> QED
    BY <1>3, <2>1, <2>2, Zenon
<1>9. CASE GrowOld(t)
  <2>1. pc' = pc
    BY <1>9, Zenon DEF GrowOld
  <2> QED
    BY <1>4, <2>1
<1> QED
  BY <1>5, <1>6, <1>7, <1>8, <1>9

LEMMA LlmInit ==
  ASSUME Init
  PROVE  LlmInv
<1>0. MaxCalls \in Nat /\ MaxReservations \in Nat /\ MaxFaults \in Nat /\ LruMax \in Nat /\ RunsMax \in Nat
  BY BoundsNat
<1>1. lru = <<>> /\ ToSet(lru) = {} /\ IsInjective(lru)
  BY DEF Init, ToSet, IsInjective
<1>2. \A S : <<>> \in Seq(S)
  OBVIOUS
<1>3. Typed
  <2>1. pc \in [Tasks -> Places] /\ call \in [Tasks -> Call] /\ todo \in [Tasks -> Seq(Event)]
        /\ pending \in [Threads -> Seq(1..MaxCalls)] /\ \A t \in Tasks : Len(todo[t]) <= 2
    <3>1. pc \in [Tasks -> Places]
      BY DEF Init, Places
    <3>2. call \in [Tasks -> Call]
      BY CallsTyped DEF Init
    <3>3. todo \in [Tasks -> Seq(Event)] /\ \A t \in Tasks : Len(todo[t]) <= 2
      BY DEF Init
    <3>4. pending \in [Threads -> Seq(1..MaxCalls)]
      BY DEF Init
    <3> QED
      BY <3>1, <3>2, <3>3, <3>4
  <2>2. ambient \in [Tasks -> 0..MaxReservations] /\ old \in [Tasks -> BOOLEAN]
    BY <1>0 DEF Init
  <2>3. /\ lru \in Seq(Fingerprints) /\ Len(lru) <= LruMax
        /\ runs \in Seq(1..MaxCalls) /\ Len(runs) <= RunsMax
    BY <1>0, <1>2 DEF Init
  <2>4. begun \in 0..MaxCalls /\ minted \in 0..MaxReservations /\ faults \in 0..MaxFaults /\ killed \in BOOLEAN
    <3>1. begun = 0 /\ minted = 0 /\ faults = 0
      BY DEF Init
    <3>2. killed \in BOOLEAN
      BY Zenon DEF Init
    <3>3. begun \in 0..MaxCalls /\ minted \in 0..MaxReservations /\ faults \in 0..MaxFaults
      BY <1>0, <3>1
    <3> QED
      BY <3>2, <3>3
  <2> QED
    BY <1>1, <2>1, <2>2, <2>3, <2>4 DEF Typed
<1>4. \A t \in Tasks : call[t] = NoCall /\ pc[t] = "idle" /\ todo[t] = <<>>
  BY DEF Init
<1>5. Distinct
  BY <1>0, <1>1, <1>4 DEF Distinct, NoCall, Init
<1>6. \A t \in Tasks : Followed(call[t], pc[t], todo[t], ToSet(lru))
  BY <1>4, FollowedIdle, Zenon
<1> QED
  BY <1>3, <1>5, <1>6 DEF LlmInv

LEMMA LlmInvHolds == Spec => []LlmInv
<1>1. Init => LlmInv
  BY LlmInit
<1>2. LlmInv /\ [Next]_vars => LlmInv'
  <2> SUFFICES ASSUME LlmInv, [Next]_vars PROVE LlmInv'
    OBVIOUS
  <2>1. CASE Kill
    <3>1. Typed' /\ UNCHANGED <<pc, call, todo, lru, begun, minted>>
      BY <2>1, TypedKill DEF LlmInv
    <3>2. minted' >= minted
      BY <3>1, BoundsNat DEF LlmInv, Typed
    <3> QED
      BY <3>1, <3>2, QuietStep, Zenon
  <2>2. ASSUME NEW t \in Tasks, TaskStep(t) PROVE LlmInv'
    BY <2>2, BeginStep, OverStep, OnLlmEndStep, SendStep, ProviderStep, DuplicateStep, TrackStep,
       QuietSteps, Zenon DEF TaskStep
  <2>3. CASE UNCHANGED vars
    <3>1. pc' = pc /\ call' = call /\ todo' = todo /\ ambient' = ambient /\ old' = old
          /\ pending' = pending /\ killed' = killed /\ lru' = lru /\ runs' = runs
          /\ begun' = begun /\ minted' = minted /\ faults' = faults
      BY <2>3 DEF vars
    <3> QED
      BY <3>1, Zenon DEF LlmInv, Typed, Distinct
  <2> QED
    BY <2>1, <2>2, <2>3 DEF Next
<1> QED
  BY <1>1, <1>2, PTL DEF Spec

----------------------------------------------------------------------------
(* Every variable keeps its type; the list of fingerprints stays within    *)
(* DEDUP_LRU_MAX and never holds one of them twice, and the callback's     *)
(* table of runs stays within _ACTIVE_RUNS_MAX, though a call that fails   *)
(* never takes its run out.                                                *)
THEOREM TypeCorrect == Spec => []TypeOK
<1>1. LlmInv => TypeOK
  BY Zenon DEF LlmInv, Typed, TypeOK
<1> QED
  BY <1>1, LlmInvHolds, PTL

(* A reservation that the transport made for a provider call is settled or *)
(* released when the call is over, unless the loss is recorded, a response *)
(* without an id was taken for another one, or the hook was left by an     *)
(* exception it does not catch.                                            *)
THEOREM ReservationSafe == Spec => []ReservationClosed
<1>1. LlmInv => ReservationClosed
  <2> SUFFICES ASSUME LlmInv, NEW t \in Tasks, At(t, "over"), call[t].own # 0
               PROVE  \/ \E s \in call[t].settled : s.res = call[t].own
                      \/ call[t].lost
                      \/ call[t].reply = "usage" /\ ~call[t].id
                      \/ call[t].reply \in Uncaught
    BY DEF ReservationClosed
  <2>1. Followed(call[t], "over", <<>>, ToSet(lru))
    BY InvAt DEF At
  <2>2. DOMAIN <<>> = {}
    OBVIOUS
  <2> QED
    BY <2>1, <2>2 DEF Followed, Placed, Reserved
<1> QED
  BY <1>1, LlmInvHolds, PTL

(* Tokens that the transport could read are booked by one of the two       *)
(* observers, unless the loss is recorded, the response has no id, or the  *)
(* call had no reservation to book them on.                                *)
THEOREM UsageSafe == Spec => []UsageAccounted
<1>1. LlmInv => UsageAccounted
  <2> SUFFICES ASSUME LlmInv, NEW t \in Tasks, At(t, "over"), call[t].reply = "usage",
                      call[t].kind.known, call[t].kind.path # "stream"
               PROVE  \/ Usage(call[t]) # {}
                      \/ call[t].lost
                      \/ ~call[t].id
                      \/ call[t].dropped /\ call[t].own = 0
    BY DEF UsageAccounted
  <2>1. Followed(call[t], "over", <<>>, ToSet(lru))
    BY InvAt DEF At
  <2>2. DOMAIN <<>> = {}
    OBVIOUS
  <2> QED
    BY <2>1, <2>2 DEF Followed, Accounted
<1> QED
  BY <1>1, LlmInvHolds, PTL

(* Two observers see a call and its tokens are booked once: who comes      *)
(* second finds the fingerprint of the first, unless it has been pushed    *)
(* out of the list or the two do not compute the same one.                 *)
THEOREM BookedSafe == Spec => []UsageBookedOnce
<1>1. LlmInv => UsageBookedOnce
  <2> SUFFICES ASSUME LlmInv, NEW t \in Tasks, ~call[t].alias, call[t].kind.path # "requests", ~call[t].pushed
               PROVE  Cardinality(Usage(call[t])) <= 1
    BY DEF UsageBookedOnce
  <2>1. Usage(call[t]) = {} \/ \E s \in Usage(call[t]) : Usage(call[t]) = {s}
    BY InvAt DEF Followed, Booked
  <2>2. Cardinality({}) = 0 /\ \A s : Cardinality({s}) = 1
    BY FS_EmptySet, FS_Singleton, Zenon
  <2> DEFINE n == Cardinality(Usage(call[t]))
  <2>3. n = 0 \/ n = 1
    BY <2>1, <2>2, Zenon
  <2> HIDE DEF n
  <2>4. n <= 1
    BY <2>3
  <2> QED
    BY <2>4 DEF n
<1> QED
  BY <1>1, LlmInvHolds, PTL

=============================================================================
