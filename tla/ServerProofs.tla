---------------------------- MODULE ServerProofs ----------------------------
(***************************************************************************)
(* Theorems about the server for every number of connections, addresses    *)
(* and permits, every limit, window, interval and timeout.                 *)
(***************************************************************************)
EXTENDS Server, FiniteSetTheorems, TLAPS

-----------------------------------------------------------------------------
(* Types. *)

LEMMA InitTyped == Init => TypeOK
<1> SUFFICES ASSUME Init PROVE TypeOK
  OBVIOUS
<1> USE DEF Init
<1>1. ClockTypeOK
  BY ClockAssumption DEF ClockInit, ClockTypeOK
<1>2. LimiterTypeOK
  BY FS_EmptySet DEF LimiterInit, LimiterTypeOK
<1>3. HeartbeatTypeOK
  BY DEF HeartbeatInit, HeartbeatTypeOK
<1>4. QED
  BY <1>1, <1>2, <1>3, ServerAssumption DEF TypeOK, Slots, Tracked

\* A counter that is counted up stays within its width.
LEMMA Counts ==
  ASSUME NEW c \in 0..(Modulus - 1)
  PROVE  (c + 1) % Modulus \in 0..(Modulus - 1)
BY CounterAssumption

LEMMA RetainTyped ==
  ASSUME NEW m \in [Keys -> Entry \cup {Absent}]
  PROVE  Retain(m) \in [Keys -> Entry \cup {Absent}]
BY DEF Retain

LEMMA AdmitTyped ==
  ASSUME ClockTypeOK, LimiterTypeOK, NEW k \in Keys, Admit(k)
  PROVE  /\ admitted' \in [Keys -> SUBSET ((0..MaxTime) \X Nat)]
         /\ \A j \in Keys : IsFiniteSet(admitted'[j])
<1>1. IsFiniteSet(admitted[k]) /\ Cardinality(admitted[k]) \in Nat
  BY FS_CardinalityType DEF LimiterTypeOK
<1> DEFINE more == admitted[k] \cup {<<clock, Cardinality(admitted[k])>>}
<1>2. more \in SUBSET ((0..MaxTime) \X Nat)
  BY <1>1 DEF ClockTypeOK, LimiterTypeOK
<1>3. IsFiniteSet(more)
  BY <1>1, FS_AddElement
<1>4. admitted' = [admitted EXCEPT ![k] = more]
  BY DEF Admit
<1> HIDE DEF more
<1>5. QED
  BY <1>2, <1>3, <1>4 DEF LimiterTypeOK

LEMMA CheckTyped ==
  ASSUME ClockTypeOK, LimiterTypeOK, NEW k \in Keys, Check(k)
  PROVE  LimiterTypeOK' /\ ClockTypeOK'
<1>1. CASE CheckRestart(k)
  <2>1. [count |-> 1, start |-> clock] \in Entry
    BY CounterAssumption DEF ClockTypeOK, Entry
  <2>2. store' \in [Keys -> Entry \cup {Absent}]
    BY <1>1, <2>1 DEF CheckRestart, LimiterTypeOK
  <2>3. admitted' \in [Keys -> SUBSET ((0..MaxTime) \X Nat)] /\ \A j \in Keys : IsFiniteSet(admitted'[j])
    BY <1>1, AdmitTyped DEF CheckRestart
  <2>4. QED
    BY <1>1, <2>2, <2>3 DEF LimiterTypeOK, ClockTypeOK, CheckRestart
<1>2. CASE CheckCount(k)
  <2> DEFINE old == IF store[k] = Absent THEN [count |-> 0, start |-> clock] ELSE store[k]
             new == [old EXCEPT !.count = (@ + 1) % Modulus]
  <2>1. old \in Entry
    BY CounterAssumption DEF ClockTypeOK, LimiterTypeOK, Entry
  <2>2. new \in Entry
    <3> HIDE DEF old
    <3>1. (old.count + 1) % Modulus \in 0..(Modulus - 1)
      BY <2>1, Counts DEF Entry
    <3>2. QED
      BY <2>1, <3>1 DEF Entry
  <2>3. [store EXCEPT ![k] = new] \in [Keys -> Entry \cup {Absent}]
    <3> HIDE DEF new
    <3> QED
      BY <2>2 DEF LimiterTypeOK
  <2>4. store' \in [Keys -> Entry \cup {Absent}]
    <3>1. store' = Retain([store EXCEPT ![k] = new])
      BY <1>2 DEF CheckCount
    <3> HIDE DEF new
    <3>2. QED
      BY <2>3, <3>1, RetainTyped
  <2>5. admitted' \in [Keys -> SUBSET ((0..MaxTime) \X Nat)] /\ \A j \in Keys : IsFiniteSet(admitted'[j])
    <3>1. Admit(k) \/ UNCHANGED admitted
      BY <1>2 DEF CheckCount
    <3>2. QED
      BY <3>1, AdmitTyped DEF LimiterTypeOK
  <2>6. QED
    BY <1>2, <2>4, <2>5 DEF LimiterTypeOK, ClockTypeOK, CheckCount
<1>3. QED
  BY <1>1, <1>2 DEF Check

LEMMA OpenTyped ==
  ASSUME ClockTypeOK, HeartbeatTypeOK, NEW s \in Sessions, OpenSession(s)
  PROVE  HeartbeatTypeOK'
<1>1. PICK prompt \in BOOLEAN :
        beat' = [beat EXCEPT ![s] = [up |-> TRUE, prompt |-> prompt, next |-> clock + Interval,
                                     oldest |-> clock + Interval, pong |-> clock]]
  BY DEF OpenSession
<1>2. [up |-> TRUE, prompt |-> prompt, next |-> clock + Interval,
       oldest |-> clock + Interval, pong |-> clock] \in Beating
  BY HeartbeatAssumption, ClockAssumption DEF ClockTypeOK, Beating
<1>3. QED
  BY <1>1, <1>2 DEF HeartbeatTypeOK

\* Each step of the heartbeat changes one session that is there.
LEMMA BeatTyped ==
  ASSUME ClockTypeOK, HeartbeatTypeOK, HeartbeatNext
  PROVE  HeartbeatTypeOK'
<1>1. PICK s \in Sessions : BeatDrops(s) \/ BeatPings(s) \/ MarkPong(s)
  BY DEF HeartbeatNext
<1>2. Up(s) /\ beat[s] \in Beating
  BY <1>1 DEF BeatDrops, BeatPings, MarkPong, Due, Up, HeartbeatTypeOK
<1>3. CASE BeatDrops(s)
  <2>1. [beat[s] EXCEPT !.up = FALSE] \in Beating
    BY <1>2 DEF Beating
  <2>2. QED
    BY <1>3, <2>1 DEF BeatDrops, HeartbeatTypeOK
<1>4. CASE BeatPings(s)
  <2>1. [beat[s] EXCEPT !.next = @ + Interval] \in Beating
    BY <1>2, HeartbeatAssumption DEF Beating
  <2>2. QED
    BY <1>4, <2>1 DEF BeatPings, HeartbeatTypeOK
<1>5. CASE MarkPong(s)
  <2>1. [beat[s] EXCEPT !.oldest = @ + Interval, !.pong = clock] \in Beating
    <3> DEFINE b == beat[s]
    <3>1. b \in Beating /\ b.oldest + Interval \in Nat /\ clock \in Nat
      BY <1>2, HeartbeatAssumption, ClockAssumption DEF Beating, ClockTypeOK
    <3> HIDE DEF b
    <3>2. [b EXCEPT !.oldest = @ + Interval, !.pong = clock] \in Beating
      BY <3>1 DEF Beating
    <3>3. QED
      BY <3>2 DEF b
  <2>2. beat' = [beat EXCEPT ![s] = [beat[s] EXCEPT !.oldest = @ + Interval, !.pong = clock]]
    BY <1>5 DEF MarkPong
  <2>3. QED
    BY <2>1, <2>2 DEF HeartbeatTypeOK
<1>6. QED
  BY <1>1, <1>3, <1>4, <1>5

\* Only a connection that was accepted occupies the loop, and whatever has left
\* the backlog has an address.
Occupied ==
  /\ loop \in {"check", "refuse"} => current \in Slots /\ conn[current] = "accepted"
  /\ \A c \in Slots : conn[c] # "none" => peer[c] \in Keys

LEMMA InitOccupied == Init => Occupied
BY DEF Init, Occupied

LEMMA OccupiedStep ==
  ASSUME TypeOK, Occupied, [Next]_vars
  PROVE  Occupied'
<1> USE DEF Slots, Tracked
<1>0. /\ conn \in [Sessions -> {"none", "backlog", "accepted"} \cup Tracked]
      /\ peer \in [Sessions -> Keys \cup {Absent}]
  BY DEF TypeOK
<1>1. ASSUME NEW c \in Slots, Arrive(c)
      PROVE  Occupied'
  BY <1>0, <1>1 DEF Arrive, Occupied
<1>2. ASSUME NEW c \in Slots, Accept(c)
      PROVE  Occupied'
  BY <1>0, <1>2 DEF Accept, Occupied
<1>3. ASSUME NEW c \in Slots, AcceptAtLimit(c)
      PROVE  Occupied'
  BY <1>0, <1>3 DEF AcceptAtLimit, Occupied
<1>4. ASSUME NEW c \in Slots, Handshake(c)
      PROVE  Occupied'
  BY <1>0, <1>4 DEF Handshake, Occupied
<1>5. ASSUME NEW c \in Slots, Upgrade(c)
      PROVE  Occupied'
  BY <1>0, <1>5 DEF Upgrade, Occupied
<1>6. ASSUME NEW c \in Slots, End(c)
      PROVE  Occupied'
  BY <1>0, <1>6 DEF End, Occupied
<1>7. CASE CheckAllows
  BY <1>0, <1>7 DEF CheckAllows, Occupied
<1>8. CASE CheckRefuses
  BY <1>0, <1>8 DEF CheckRefuses, Occupied
<1>9. CASE Refuse
  BY <1>0, <1>9 DEF Refuse, Occupied
<1>10. CASE AcceptFails \/ Signal \/ StreamEnd \/ Heartbeats \/ Tick \/ ShutDown \/ Stop
           \/ (\E c \in Slots : StreamStart(c)) \/ UNCHANGED vars
  BY <1>10 DEF AcceptFails, Signal, StreamEnd, Heartbeats, Tick, ShutDown, Stop, StreamStart, vars, serverVars, Occupied
<1>11. QED
  BY <1>1, <1>2, <1>3, <1>4, <1>5, <1>6, <1>7, <1>8, <1>9, <1>10 DEF Next, Loop

LEMMA TypedStep ==
  ASSUME TypeOK, Occupied, [Next]_vars
  PROVE  TypeOK'
<1> USE DEF Slots, Tracked
<1>0. /\ ClockTypeOK /\ LimiterTypeOK /\ HeartbeatTypeOK
      /\ permits \in Nat /\ streams \in Nat /\ arrivals \in Nat
      /\ conn \in [Sessions -> {"none", "backlog", "accepted"} \cup Tracked]
      /\ peer \in [Sessions -> Keys \cup {Absent}]
  BY DEF TypeOK
<1>1. ClockTypeOK'
  <2>1. CASE Tick
    BY <1>0, <2>1, ClockAssumption DEF Tick, Advance, ClockTypeOK
  <2>2. CASE UNCHANGED clock
    BY <1>0, <2>2 DEF ClockTypeOK
  <2>3. QED
    BY <2>1, <2>2 DEF Next, Loop, Arrive, Accept, AcceptAtLimit, AcceptFails, CheckAllows, CheckRefuses, Check,
       CheckRestart, CheckCount, Refuse, Handshake, Upgrade, End, StreamStart, StreamEnd, ShutDown, Stop, Signal,
       Heartbeats, vars
<1>2. LimiterTypeOK'
  <2>1. CASE CheckAllows \/ CheckRefuses
    <3>1. peer[current] \in Keys /\ Check(peer[current])
      BY <2>1 DEF CheckAllows, CheckRefuses, Occupied
    <3>2. QED
      BY <1>0, <3>1, CheckTyped
  <2>2. CASE UNCHANGED limiterVars
    BY <1>0, <2>2 DEF LimiterTypeOK, limiterVars
  <2>3. QED
    BY <2>1, <2>2 DEF Next, Loop, Arrive, Accept, AcceptAtLimit, AcceptFails, Refuse, Handshake, Upgrade, End,
       StreamStart, StreamEnd, ShutDown, Stop, Signal, Heartbeats, Tick, vars
<1>3. HeartbeatTypeOK'
  <2>1. ASSUME NEW c \in Slots, Upgrade(c)
        PROVE  HeartbeatTypeOK'
    BY <1>0, <2>1, OpenTyped DEF Upgrade
  <2>2. ASSUME NEW c \in Slots, End(c)
        PROVE  HeartbeatTypeOK'
    BY <1>0, <2>2 DEF End, CloseSession, HeartbeatTypeOK
  <2>3. CASE Heartbeats
    BY <1>0, <2>3, BeatTyped DEF Heartbeats
  <2>4. CASE UNCHANGED beat
    BY <1>0, <2>4 DEF HeartbeatTypeOK
  <2>5. QED
    BY <2>1, <2>2, <2>3, <2>4 DEF Next, Loop, Arrive, Accept, AcceptAtLimit, AcceptFails, CheckAllows, CheckRefuses,
       Refuse, Handshake, StreamStart, StreamEnd, ShutDown, Stop, Signal, Tick, vars
<1>4. (tls \in BOOLEAN /\ signalled \in BOOLEAN /\ cancelled \in BOOLEAN)'
  BY DEF TypeOK, Next, Loop, Arrive, Accept, AcceptAtLimit, AcceptFails, CheckAllows, CheckRefuses, Refuse, Handshake,
     Upgrade, End, StreamStart, StreamEnd, ShutDown, Stop, Signal, Heartbeats, Tick, vars, serverVars
<1>5. (/\ loop \in {"select", "check", "refuse", "draining", "stopped", "failed"}
       /\ current \in Slots \cup {NoSession})'
  BY DEF TypeOK, Next, Loop, Arrive, Accept, AcceptAtLimit, AcceptFails, CheckAllows, CheckRefuses, Refuse, Handshake,
     Upgrade, End, StreamStart, StreamEnd, ShutDown, Stop, Signal, Heartbeats, Tick, vars, serverVars
<1>6. (conn \in [Slots -> {"none", "backlog", "accepted"} \cup Tracked])'
  BY <1>0 DEF Next, Loop, Arrive, Accept, AcceptAtLimit, AcceptFails, CheckAllows, CheckRefuses, Refuse, Handshake,
     Upgrade, End, StreamStart, StreamEnd, ShutDown, Stop, Signal, Heartbeats, Tick, vars, serverVars
<1>7. (peer \in [Slots -> Keys \cup {Absent}])'
  BY <1>0 DEF Next, Loop, Arrive, Accept, AcceptAtLimit, AcceptFails, CheckAllows, CheckRefuses, Refuse, Handshake,
     Upgrade, End, StreamStart, StreamEnd, ShutDown, Stop, Signal, Heartbeats, Tick, vars, serverVars
<1>8. (permits \in Nat /\ streams \in Nat /\ arrivals \in Nat)'
  BY <1>0 DEF Next, Loop, Arrive, Accept, AcceptAtLimit, AcceptFails, CheckAllows, CheckRefuses, Refuse, Handshake,
     Upgrade, End, StreamStart, StreamEnd, ShutDown, Stop, Signal, Heartbeats, Tick, vars, serverVars
<1>9. QED
  BY <1>1, <1>2, <1>3, <1>4, <1>5, <1>6, <1>7, <1>8 DEF TypeOK

\* The state of the server is well formed in every run: counters stay within
\* their width, windows within the time that has passed, and the loop's slot,
\* the stages and the permits are what run_server can make them (lib.rs:1091).
THEOREM TypeInvariant == Spec => []TypeOK
<1>1. Init => TypeOK /\ Occupied
  BY InitTyped, InitOccupied
<1>2. TypeOK /\ Occupied /\ [Next]_vars => (TypeOK /\ Occupied)'
  BY TypedStep, OccupiedStep
<1>3. QED
  BY <1>1, <1>2, PTL DEF Spec

-----------------------------------------------------------------------------
(* Permits. *)

LEMMA HoldersFinite ==
  ASSUME Occupied
  PROVE  Holders \subseteq Slots /\ IsFiniteSet(Holders)
<1>1. Holders \subseteq Slots
  BY DEF Holders, Occupied
<1>2. QED
  BY <1>1, SlotsAssumption, FS_Subset DEF Slots

\* Only four steps change who holds a permit or how many are left.
LEMMA HoldersKept ==
  ASSUME TypeOK, Occupied, [Next]_vars,
         \A c \in Slots : ~Accept(c) /\ ~End(c),
         ~Refuse
  PROVE  Holders' = Holders /\ permits' = permits
<1> USE DEF Slots, Tracked
<1>0. conn \in [Sessions -> {"none", "backlog", "accepted"} \cup Tracked]
  BY DEF TypeOK
<1>1. ASSUME NEW c \in Slots, Arrive(c) \/ AcceptAtLimit(c) \/ Handshake(c) \/ Upgrade(c)
      PROVE  Holders' = Holders /\ permits' = permits
  <2>1. c \in Sessions /\ loop' = loop /\ current' = current /\ permits' = permits
    BY <1>1 DEF Arrive, AcceptAtLimit, Handshake, Upgrade
  <2>2. \A d \in Sessions : conn'[d] \in Tracked <=> conn[d] \in Tracked
    BY <1>0, <1>1 DEF Arrive, AcceptAtLimit, Handshake, Upgrade
  <2>3. QED
    BY <2>1, <2>2 DEF Holders
<1>2. CASE CheckAllows
  <2>1. loop = "check" /\ loop' = "select" /\ permits' = permits /\ current \in Sessions
    BY <1>2 DEF CheckAllows, Occupied
  <2>2. \A d \in Sessions : conn'[d] \in Tracked <=> conn[d] \in Tracked \/ d = current
    BY <1>0, <1>2, <2>1 DEF CheckAllows
  <2>3. QED
    BY <2>1, <2>2 DEF Holders
<1>3. CASE CheckRefuses
  BY <1>3 DEF CheckRefuses, Holders
<1>4. CASE AcceptFails \/ ShutDown \/ Stop
  BY <1>4 DEF AcceptFails, ShutDown, Stop, Holders
<1>5. CASE Signal \/ StreamEnd \/ Heartbeats \/ Tick \/ (\E c \in Slots : StreamStart(c)) \/ UNCHANGED vars
  BY <1>5 DEF Signal, StreamEnd, Heartbeats, Tick, StreamStart, vars, serverVars, Holders
<1>6. QED
  BY <1>1, <1>2, <1>3, <1>4, <1>5 DEF Next, Loop

LEMMA PermitsStep ==
  ASSUME TypeOK, Occupied, PermitsKept, [Next]_vars
  PROVE  PermitsKept'
<1> USE DEF Slots, Tracked
<1>0. /\ conn \in [Sessions -> {"none", "backlog", "accepted"} \cup Tracked]
      /\ permits \in Nat /\ MaxConnections \in Nat
      /\ IsFiniteSet(Holders) /\ Cardinality(Holders) \in Nat
  BY HoldersFinite, FS_CardinalityType, ServerAssumption DEF TypeOK
<1>1. ASSUME NEW c \in Slots, Accept(c)
      PROVE  PermitsKept'
  <2>1. Holders' = Holders \cup {c} /\ c \notin Holders
    <3>1. loop = "select" /\ loop' = "check" /\ current' = c /\ conn[c] = "backlog"
      BY <1>1 DEF Accept
    <3>2. \A d \in Sessions : conn'[d] \in Tracked <=> conn[d] \in Tracked
      BY <1>0, <1>1 DEF Accept
    <3>3. QED
      BY <3>1, <3>2 DEF Holders
  <2>2. Cardinality(Holders') = Cardinality(Holders) + 1
    BY <1>0, <2>1, FS_AddElement
  <2>3. permits' = permits - 1
    BY <1>1 DEF Accept
  <2>4. QED
    BY <1>0, <2>2, <2>3 DEF PermitsKept
<1>2. ASSUME NEW c \in Holders, Holders' = Holders \ {c}, permits' = permits + 1
      PROVE  PermitsKept'
  <2>1. Cardinality(Holders') = Cardinality(Holders) - 1
    BY <1>0, <1>2, FS_RemoveElement
  <2>2. QED
    BY <1>0, <1>2, <2>1 DEF PermitsKept
<1>3. ASSUME NEW c \in Slots, End(c)
      PROVE  PermitsKept'
  <2>1. /\ conn[c] \in Tracked /\ loop' = loop /\ current' = current /\ permits' = permits + 1
        /\ loop \in {"check", "refuse"} => current # c
    BY <1>3 DEF End, Occupied
  <2>2. \A d \in Sessions : conn'[d] \in Tracked <=> conn[d] \in Tracked /\ d # c
    BY <1>0, <1>3 DEF End
  <2>3. c \in Holders /\ Holders' = Holders \ {c}
    BY <2>1, <2>2 DEF Holders
  <2>4. QED
    BY <1>2, <2>1, <2>3
<1>4. CASE Refuse
  <2>1. /\ loop = "refuse" /\ loop' = "select" /\ permits' = permits + 1
        /\ current \in Sessions /\ conn[current] = "accepted"
    BY <1>4 DEF Refuse, Occupied
  <2>2. \A d \in Sessions : conn'[d] \in Tracked <=> conn[d] \in Tracked
    BY <1>0, <1>4, <2>1 DEF Refuse
  <2>3. current \in Holders /\ Holders' = Holders \ {current}
    BY <2>1, <2>2 DEF Holders
  <2>4. QED
    BY <1>2, <2>1, <2>3
<1>5. CASE ~Refuse /\ \A c \in Slots : ~Accept(c) /\ ~End(c)
  BY <1>5, HoldersKept DEF PermitsKept
<1>6. QED
  BY <1>1, <1>3, <1>4, <1>5

LEMMA InitPermits == Init => PermitsKept
<1> SUFFICES ASSUME Init PROVE PermitsKept
  OBVIOUS
<1>1. Holders = {}
  BY DEF Init, Holders, Tracked
<1>2. Cardinality(Holders) = 0
  BY <1>1, FS_EmptySet
<1>3. QED
  BY <1>2, ServerAssumption DEF Init, PermitsKept

\* However many connections come, are refused, fail in their handshake or end
\* with a panic, each permit of the semaphore is either free or held by exactly
\* one connection (lib.rs:1091-1145).
THEOREM PermitsAreKept == Spec => []PermitsKept
<1>1. Init => TypeOK /\ Occupied /\ PermitsKept
  BY InitTyped, InitOccupied, InitPermits
<1>2. TypeOK /\ Occupied /\ PermitsKept /\ [Next]_vars => (TypeOK /\ Occupied /\ PermitsKept)'
  BY TypedStep, OccupiedStep, PermitsStep
<1>3. QED
  BY <1>1, <1>2, PTL DEF Spec

-----------------------------------------------------------------------------
(* Rate limiter. *)

Limit == IF MaxRequests = 0 THEN 1 ELSE MaxRequests

\* Where the window of an address with entry e began, or would if it made a
\* request now, and how many requests are counted in it.
Begun(e, now) == IF e = Absent THEN now ELSE e.start
Counted(e) == IF e = Absent THEN 0 ELSE e.count

\* What was admitted from an instant on, before another, and up to another.
From(A, t) == {a \in A : t <= a[1]}
Between(A, t, u) == {a \in A : t <= a[1] /\ a[1] < u}
Within(A, t, u) == {a \in A : t <= a[1] /\ a[1] <= u}

\* Each admission has a number of its own, and none is of the future.
Told(A, now) ==
  /\ IsFiniteSet(A)
  /\ \A a \in A : a[1] \in Nat /\ a[2] \in Nat /\ a[1] <= now /\ a[2] < Cardinality(A)

\* The window that is open, from the instant b on: nothing was admitted after
\* its end, and as many in it as are counted, up to the limit.
Open(A, b, n) ==
  /\ \A a \in A : a[1] <= b + Window
  /\ Cardinality(From(A, b)) <= n
  /\ Cardinality(From(A, b)) <= Limit
  /\ Cardinality(From(A, b)) >= n \/ Cardinality(From(A, b)) >= MaxRequests

\* Those before it: an interval of the window's length that reaches the open
\* window meets one other at most.
Closed(A, b) == \A t \in Nat : b <= t + Window => Cardinality(Between(A, t, b)) <= Limit

Limited(A) == \A t \in Nat : Cardinality(Within(A, t, t + Window)) <= 2 * Limit

Fixed(A, e, now) ==
  /\ Begun(e, now) <= now
  /\ Told(A, now)
  /\ Open(A, Begun(e, now), Counted(e))
  /\ Closed(A, Begun(e, now))
  /\ Limited(A)

Windows == \A k \in Keys : Fixed(admitted[k], store[k], clock)

LEMMA LimiterNumbers ==
  /\ MaxRequests \in Nat /\ Window \in Nat
  /\ Limit \in Nat /\ Limit >= 1 /\ Limit >= MaxRequests
BY LimiterAssumption DEF Limit

LEMMA EntryTyped ==
  ASSUME NEW e \in Entry \cup {Absent}, NEW now \in Nat
  PROVE  Begun(e, now) \in Nat /\ Counted(e) \in Nat
BY ClockAssumption, CounterAssumption DEF Begun, Counted, Entry

\* Only an entry whose window is over is forgotten.
LEMMA Retains ==
  ASSUME NEW m \in [Keys -> Entry \cup {Absent}], NEW j \in Keys
  PROVE  Retain(m)[j] = m[j] \/ (Retain(m)[j] = Absent /\ Expired(m[j]))
BY DEF Retain

LEMMA Smaller ==
  ASSUME NEW S, IsFiniteSet(S), NEW T, T \subseteq S
  PROVE  /\ IsFiniteSet(T) /\ Cardinality(T) \in Nat /\ Cardinality(S) \in Nat
         /\ Cardinality(T) <= Cardinality(S)
BY FS_Subset, FS_CardinalityType

\* The admissions of an interval are finitely many.
LEMMA Countable ==
  ASSUME NEW A, IsFiniteSet(A), NEW t, NEW u
  PROVE  /\ IsFiniteSet(From(A, t)) /\ Cardinality(From(A, t)) \in Nat
         /\ IsFiniteSet(Between(A, t, u)) /\ Cardinality(Between(A, t, u)) \in Nat
         /\ IsFiniteSet(Within(A, t, u)) /\ Cardinality(Within(A, t, u)) \in Nat
         /\ Cardinality(A) \in Nat
<1>1. From(A, t) \subseteq A /\ Between(A, t, u) \subseteq A /\ Within(A, t, u) \subseteq A
  BY DEF From, Between, Within
<1>2. QED
  BY <1>1, Smaller

LEMMA FixedFirst == Fixed({}, Absent, 0)
<1>1. \A t, u : From({}, t) = {} /\ Between({}, t, u) = {} /\ Within({}, t, u) = {}
  BY DEF From, Between, Within
<1>2. Cardinality({}) = 0 /\ IsFiniteSet({})
  BY FS_EmptySet
<1>3. Begun(Absent, 0) = 0 /\ Counted(Absent) = 0
  BY DEF Begun, Counted
<1>4. Told({}, 0) /\ Open({}, 0, 0)
  BY <1>1, <1>2, LimiterNumbers DEF Told, Open
<1>5. Closed({}, 0) /\ Limited({})
  <2>1. \A t, u : Cardinality(Between({}, t, u)) = 0 /\ Cardinality(Within({}, t, u)) = 0
    BY <1>1, <1>2
  <2>2. 0 <= Limit /\ 0 <= 2 * Limit
    BY LimiterNumbers
  <2>3. QED
    BY <2>1, <2>2 DEF Closed, Limited
<1>6. QED
  BY <1>3, <1>4, <1>5 DEF Fixed

\* A window that is over: an address without an entry has none open, and what was
\* admitted of it lies in two windows of the past.
LEMMA WindowOver ==
  ASSUME NEW A, NEW b \in Nat, NEW n \in Nat, NEW now \in Nat, Told(A, now),
         Open(A, b, n), b + Window < now
  PROVE  Open(A, now, 0) /\ Closed(A, now)
<1>1. \A a \in A : a[1] \in Nat /\ a[1] <= b + Window /\ a[1] < now
  BY LimiterNumbers DEF Told, Open
<1>2. Open(A, now, 0)
  <2>1. From(A, now) = {}
    BY <1>1 DEF From
  <2>2. Cardinality(From(A, now)) = 0
    BY <2>1, FS_EmptySet
  <2>3. QED
    BY <1>1, <2>2, LimiterNumbers DEF Open
<1>3. ASSUME NEW t \in Nat, now <= t + Window
      PROVE  Cardinality(Between(A, t, now)) <= Limit
  <2>1. IsFiniteSet(From(A, b)) /\ Cardinality(From(A, b)) <= Limit
    BY Countable DEF Told, Open
  <2>2. b <= t
    BY <1>3, LimiterNumbers
  <2>3. Between(A, t, now) \subseteq From(A, b)
    BY <1>1, <2>2 DEF Between, From
  <2>4. /\ Cardinality(Between(A, t, now)) \in Nat /\ Cardinality(From(A, b)) \in Nat
        /\ Cardinality(Between(A, t, now)) <= Cardinality(From(A, b))
    BY <2>1, <2>3, Smaller
  <2>5. QED
    BY <2>1, <2>4, LimiterNumbers
<1>4. QED
  BY <1>2, <1>3 DEF Closed

\* An entry is forgotten when its window is over.
LEMMA FixedForgotten ==
  ASSUME NEW A, NEW e \in Entry, NEW now \in Nat, Fixed(A, e, now), now - e.start > Window
  PROVE  Fixed(A, Absent, now)
<1>1. Begun(e, now) = e.start /\ e.start \in Nat /\ Counted(e) \in Nat
  BY EntryTyped, AbsentAssumption, ClockAssumption DEF Begun, Entry
<1>2. Told(A, now) /\ Open(A, e.start, Counted(e)) /\ Limited(A)
  BY <1>1 DEF Fixed
<1>3. Open(A, now, 0) /\ Closed(A, now)
  BY <1>1, <1>2, WindowOver, LimiterNumbers
<1>4. Begun(Absent, now) = now /\ Counted(Absent) = 0
  BY DEF Begun, Counted
<1>5. QED
  BY <1>2, <1>3, <1>4 DEF Fixed

\* Time goes on.
LEMMA FixedLater ==
  ASSUME NEW A, NEW e \in Entry \cup {Absent}, NEW now \in Nat, Fixed(A, e, now)
  PROVE  Fixed(A, e, now + 1)
<1> USE LimiterNumbers
<1>1. Told(A, now + 1)
  BY DEF Fixed, Told
<1>2. CASE e # Absent
  <2>1. Begun(e, now + 1) = Begun(e, now) /\ Begun(e, now) \in Nat
    BY <1>2, EntryTyped DEF Begun
  <2>2. QED
    BY <1>1, <2>1 DEF Fixed
<1>3. CASE e = Absent
  <2>1. Begun(e, now) = now /\ Begun(e, now + 1) = now + 1 /\ Counted(e) = 0
    BY <1>3 DEF Begun, Counted
  <2>2. Told(A, now) /\ Open(A, now, 0) /\ Closed(A, now) /\ Limited(A)
    BY <2>1 DEF Fixed
  <2>3. From(A, now) = {}
    <3>1. IsFiniteSet(From(A, now)) /\ Cardinality(From(A, now)) = 0
      BY <2>2, Countable DEF Told, Open
    <3>2. QED
      BY <3>1, FS_EmptySet
  <2>4. \A a \in A : a[1] \in Nat /\ a[1] < now
    BY <2>2, <2>3 DEF Told, From
  <2>5. Open(A, now + 1, 0)
    <3>1. From(A, now + 1) = {}
      BY <2>4 DEF From
    <3>2. Cardinality(From(A, now + 1)) = 0
      BY <3>1, FS_EmptySet
    <3>3. QED
      BY <2>4, <3>2 DEF Open
  <2>6. Closed(A, now + 1)
    <3>1. \A t \in Nat : Between(A, t, now + 1) = Between(A, t, now)
      BY <2>4 DEF Between
    <3>2. \A t \in Nat : now + 1 <= t + Window => now <= t + Window
      OBVIOUS
    <3>3. QED
      BY <2>2, <3>1, <3>2 DEF Closed
  <2>7. QED
    BY <1>1, <2>1, <2>2, <2>5, <2>6 DEF Fixed
<1>4. QED
  BY <1>2, <1>3

\* A request is counted in the window that began at b, in which n were counted
\* before, and admitted or not.
LEMMA FixedCounts ==
  ASSUME NEW A, NEW b \in Nat, NEW n \in Nat, NEW now \in Nat, b <= now, now <= b + Window,
         Told(A, now), Open(A, b, n), Closed(A, b), Limited(A),
         NEW B,
         \/ B = A /\ n + 1 > MaxRequests
         \/ B = A \cup {<<now, Cardinality(A)>>} /\ n + 1 <= Limit
  PROVE  Told(B, now) /\ Open(B, b, n + 1) /\ Closed(B, b) /\ Limited(B)
<1> USE LimiterNumbers
<1> DEFINE x == <<now, Cardinality(A)>>
<1>1. IsFiniteSet(A) /\ Cardinality(A) \in Nat
  BY Countable DEF Told
<1>2. x \notin A /\ x[1] = now /\ x[2] = Cardinality(A)
  BY <1>1 DEF Told
<1>3. CASE B = A /\ n + 1 > MaxRequests
  <2>1. Open(B, b, n + 1)
    <3>1. Cardinality(From(A, b)) \in Nat
      BY <1>1, Countable
    <3>2. QED
      BY <1>3, <3>1 DEF Open
  <2>2. QED
    BY <1>3, <2>1
<1>4. CASE B = A \cup {x} /\ n + 1 <= Limit
  <2>0. IsFiniteSet(B) /\ Cardinality(B) = Cardinality(A) + 1
    BY <1>1, <1>2, <1>4, FS_AddElement
  <2>1. Told(B, now)
    BY <1>1, <1>2, <1>4, <2>0 DEF Told
  <2>2. From(B, b) = From(A, b) \cup {x} /\ x \notin From(A, b)
    BY <1>2, <1>4 DEF From
  <2>3. /\ IsFiniteSet(From(A, b)) /\ Cardinality(From(A, b)) \in Nat
        /\ Cardinality(From(B, b)) = Cardinality(From(A, b)) + 1
    BY <1>1, <2>2, Countable, FS_AddElement
  <2>4. \A a \in B : a[1] \in Nat /\ a[1] <= b + Window
    BY <1>2, <1>4 DEF Told, Open
  <2>5. Open(B, b, n + 1)
    BY <1>4, <2>3, <2>4 DEF Open
  <2>6. \A t \in Nat : Between(B, t, b) = Between(A, t, b)
    BY <1>2, <1>4 DEF Between
  <2>7. Closed(B, b)
    BY <2>6 DEF Closed
  <2>8. ASSUME NEW t \in Nat
        PROVE  Cardinality(Within(B, t, t + Window)) <= 2 * Limit
    <3>1. CASE t + Window < b
      <4>1. Within(B, t, t + Window) = Within(A, t, t + Window)
        BY <1>2, <1>4, <3>1 DEF Within
      <4>2. QED
        BY <4>1 DEF Limited
    <3>2. CASE b <= t + Window
      <4> DEFINE old == Between(B, t, b)
                 new == From(B, b)
      <4>1. /\ IsFiniteSet(old) /\ Cardinality(old) \in Nat /\ Cardinality(old) <= Limit
            /\ IsFiniteSet(new) /\ Cardinality(new) \in Nat /\ Cardinality(new) <= Limit
        BY <2>0, <2>5, <2>7, <3>2, Countable DEF Closed, Open
      <4>2. Within(B, t, t + Window) \subseteq old \cup new
        BY <2>4 DEF Within, Between, From
      <4>3. old \cap new = {}
        BY <2>4 DEF Between, From
      <4> HIDE DEF old, new
      <4>4. IsFiniteSet(old \cup new) /\ Cardinality(old \cup new) = Cardinality(old) + Cardinality(new)
        <5>1. Cardinality(old \cap new) = 0
          BY <4>3, FS_EmptySet
        <5>2. QED
          BY <4>1, <5>1, FS_Union
      <4>5. /\ Cardinality(Within(B, t, t + Window)) \in Nat
            /\ Cardinality(Within(B, t, t + Window)) <= Cardinality(old \cup new)
        BY <4>2, <4>4, Smaller
      <4>6. QED
        BY <4>1, <4>4, <4>5
    <3>3. QED
      BY <3>1, <3>2
  <2>9. QED
    BY <2>1, <2>5, <2>7, <2>8 DEF Limited
<1>5. QED
  BY <1>3, <1>4

\* What a check does to its own address and to the others.
LEMMA CheckFixes ==
  ASSUME ClockTypeOK, LimiterTypeOK, Windows, NEW k \in Keys, Check(k)
  PROVE  Windows'
<1> USE LimiterNumbers
<1>0. /\ clock \in Nat /\ clock' = clock
      /\ store \in [Keys -> Entry \cup {Absent}] /\ admitted \in [Keys -> SUBSET ((0..MaxTime) \X Nat)]
      /\ \A j \in Keys : Fixed(admitted[j], store[j], clock)
  BY ClockAssumption DEF ClockTypeOK, LimiterTypeOK, Windows, Check, CheckRestart, CheckCount
<1> DEFINE x == <<clock, Cardinality(admitted[k])>>
<1>1. CASE CheckRestart(k)
  <2> DEFINE e == store[k]
             new == [count |-> 1, start |-> clock]
  <2>1. e \in Entry /\ e.start \in Nat /\ clock - e.start > Window /\ e # Absent
    BY <1>0, <1>1, ClockAssumption DEF CheckRestart, Expired, Entry
  <2>2. new \in Entry /\ new # Absent /\ new.start = clock /\ new.count = 1
    BY CounterAssumption, AbsentAssumption DEF ClockTypeOK, Entry
  <2>3. store' = [store EXCEPT ![k] = new] /\ admitted' = [admitted EXCEPT ![k] = @ \cup {x}]
    BY <1>1 DEF CheckRestart, Admit
  <2>4. Fixed(admitted[k], Absent, clock)
    BY <1>0, <2>1, FixedForgotten
  <2>5. Begun(Absent, clock) = clock /\ Counted(Absent) = 0 /\ Begun(new, clock) = clock /\ Counted(new) = 1
    BY <2>2 DEF Begun, Counted
  <2> HIDE DEF new
  <2>6. /\ Told(admitted[k], clock) /\ Open(admitted[k], clock, 0) /\ Closed(admitted[k], clock)
        /\ Limited(admitted[k])
    BY <2>4, <2>5 DEF Fixed
  <2>7. /\ Told(admitted'[k], clock) /\ Open(admitted'[k], clock, 1) /\ Closed(admitted'[k], clock)
        /\ Limited(admitted'[k])
    <3>1. admitted'[k] = admitted[k] \cup {x} /\ 0 + 1 <= Limit /\ 0 + 1 = 1 /\ clock <= clock + Window
      BY <1>0, <2>3
    <3>2. QED
      BY <1>0, <2>6, <3>1, FixedCounts
  <2>8. Fixed(admitted'[k], store'[k], clock)
    BY <1>0, <2>3, <2>5, <2>7 DEF Fixed
  <2>9. \A j \in Keys \ {k} : admitted'[j] = admitted[j] /\ store'[j] = store[j]
    BY <1>0, <2>3
  <2>10. QED
    BY <1>0, <2>8, <2>9 DEF Windows
<1>2. CASE CheckCount(k)
  <2> DEFINE old == IF store[k] = Absent THEN [count |-> 0, start |-> clock] ELSE store[k]
             new == [old EXCEPT !.count = (@ + 1) % Modulus]
  <2>1. old \in Entry /\ old # Absent
    BY <1>0, CounterAssumption, AbsentAssumption DEF ClockTypeOK, Entry
  <2>2. /\ old.count = Counted(store[k]) /\ old.start = Begun(store[k], clock)
        /\ old.count \in Nat /\ old.start \in Nat
    BY <2>1, ClockAssumption, CounterAssumption DEF Counted, Begun, Entry
  <2>3. old.start <= clock /\ clock <= old.start + Window
    <3>1. Begun(store[k], clock) <= clock
      BY <1>0 DEF Fixed
    <3>2. store[k] # Absent => clock - store[k].start <= Window
      <4>1. CASE store[k] # Absent
        <5>1. store[k].start \in Nat /\ ~(clock - store[k].start > Window)
          BY <1>0, <1>2, <4>1, ClockAssumption DEF CheckCount, Expired, Entry
        <5>2. QED
          BY <1>0, <5>1
      <4>2. QED
        BY <4>1
    <3>3. QED
      BY <1>0, <2>2, <3>1, <3>2 DEF Begun
  <2> HIDE DEF old
  <2>4. /\ old.count < MaxCount
        /\ store' = Retain([store EXCEPT ![k] = new])
        /\ IF new.count <= MaxRequests THEN Admit(k) ELSE UNCHANGED admitted
    <3> HIDE DEF new
    <3>1. QED
      BY <1>2 DEF CheckCount, old, new
  <2>5. new \in Entry /\ new.start = old.start /\ new.count = old.count + 1
    <3>1. (old.count + 1) % Modulus = old.count + 1 /\ old.count + 1 \in 0..(Modulus - 1)
      BY <2>2, <2>4, CounterAssumption
    <3>2. QED
      BY <2>1, <3>1 DEF Entry
  <2> HIDE DEF new
  <2>6. new # Absent /\ Counted(new) = old.count + 1 /\ Begun(new, clock) = old.start
    BY <2>5, AbsentAssumption DEF Counted, Begun
  <2>7. /\ store'[k] = new
        /\ \A j \in Keys \ {k} : store'[j] = store[j] \/ (store'[j] = Absent /\ Expired(store[j]))
    <3> DEFINE m == [store EXCEPT ![k] = new]
    <3>1. ~Expired(new)
      BY <1>0, <2>2, <2>3, <2>5 DEF Expired
    <3>2. /\ m \in [Keys -> Entry \cup {Absent}] /\ m[k] = new
          /\ \A j \in Keys \ {k} : m[j] = store[j]
      BY <1>0, <2>5
    <3>3. store' = Retain(m)
      BY <2>4
    <3> HIDE DEF m
    <3>4. \A j \in Keys : store'[j] = m[j] \/ (store'[j] = Absent /\ Expired(m[j]))
      BY <3>2, <3>3, Retains
    <3>5. QED
      BY <3>1, <3>2, <3>4
  <2>8. /\ Told(admitted[k], clock) /\ Open(admitted[k], old.start, old.count) /\ Closed(admitted[k], old.start)
        /\ Limited(admitted[k])
    BY <1>0, <2>2 DEF Fixed
  <2>9. /\ \/ admitted'[k] = admitted[k] /\ old.count + 1 > MaxRequests
           \/ admitted'[k] = admitted[k] \cup {x} /\ old.count + 1 <= Limit
        /\ \A j \in Keys \ {k} : admitted'[j] = admitted[j]
    <3>1. CASE new.count <= MaxRequests /\ Admit(k)
      BY <1>0, <2>2, <2>5, <3>1 DEF Admit
    <3>2. CASE ~(new.count <= MaxRequests) /\ admitted' = admitted
      BY <1>0, <2>2, <2>5, <3>2
    <3>3. QED
      BY <2>4, <3>1, <3>2
  <2>10. /\ Told(admitted'[k], clock) /\ Open(admitted'[k], old.start, old.count + 1)
         /\ Closed(admitted'[k], old.start) /\ Limited(admitted'[k])
    BY <1>0, <2>2, <2>3, <2>8, <2>9, FixedCounts
  <2>11. Fixed(admitted'[k], store'[k], clock)
    BY <2>3, <2>6, <2>7, <2>10 DEF Fixed
  <2>12. ASSUME NEW j \in Keys \ {k}
         PROVE  Fixed(admitted'[j], store'[j], clock)
    <3>1. CASE store'[j] = store[j]
      BY <1>0, <2>9, <3>1
    <3>2. CASE store'[j] = Absent /\ Expired(store[j])
      <4>1. store[j] \in Entry /\ clock - store[j].start > Window
        BY <1>0, <3>2 DEF Expired
      <4>2. Fixed(admitted[j], Absent, clock)
        BY <1>0, <4>1, FixedForgotten
      <4>3. QED
        BY <2>9, <3>2, <4>2
    <3>3. QED
      BY <2>7, <3>1, <3>2
  <2>13. QED
    BY <1>0, <2>11, <2>12 DEF Windows
<1>3. QED
  BY <1>1, <1>2 DEF Check

LEMMA InitWindows == Init => Windows
BY FixedFirst DEF Init, LimiterInit, ClockInit, Windows

LEMMA WindowsStep ==
  ASSUME TypeOK, Occupied, Windows, [Next]_vars
  PROVE  Windows'
<1>0. ClockTypeOK /\ LimiterTypeOK
  BY DEF TypeOK
<1>1. CASE CheckAllows \/ CheckRefuses
  <2>1. peer[current] \in Keys /\ Check(peer[current])
    BY <1>1 DEF CheckAllows, CheckRefuses, Occupied
  <2>2. QED
    BY <1>0, <2>1, CheckFixes
<1>2. CASE Tick
  <2>1. clock' = clock + 1 /\ store' = store /\ admitted' = admitted /\ clock \in Nat
    BY <1>0, <1>2, ClockAssumption DEF Tick, Advance, limiterVars, ClockTypeOK
  <2>2. ASSUME NEW k \in Keys
        PROVE  Fixed(admitted[k], store[k], clock + 1)
    <3>1. store[k] \in Entry \cup {Absent} /\ Fixed(admitted[k], store[k], clock)
      BY <1>0 DEF LimiterTypeOK, Windows
    <3>2. QED
      BY <2>1, <3>1, FixedLater
  <2>3. QED
    BY <2>1, <2>2 DEF Windows
<1>3. CASE UNCHANGED <<clock, limiterVars>>
  BY <1>3 DEF Windows, limiterVars
<1>4. QED
  BY <1>1, <1>2, <1>3 DEF Next, Loop, Arrive, Accept, AcceptAtLimit, AcceptFails, Refuse, Handshake, Upgrade, End,
     StreamStart, StreamEnd, ShutDown, Stop, Signal, Heartbeats, vars

LEMMA WindowsInvariant == Spec => [](TypeOK /\ Occupied /\ Windows)
<1>1. Init => TypeOK /\ Occupied /\ Windows
  BY InitTyped, InitOccupied, InitWindows
<1>2. TypeOK /\ Occupied /\ Windows /\ [Next]_vars => (TypeOK /\ Occupied /\ Windows)'
  BY TypedStep, OccupiedStep, WindowsStep
<1>3. QED
  BY <1>1, <1>2, PTL DEF Spec

\* No address is admitted more often than twice the limit in any interval of the
\* window's length, wherever the interval begins, whatever the other addresses
\* ask and however often entries are forgotten (rate_limiter.rs:48-76).
THEOREM TwoWindowsAtMost == Spec => []AtMostTwoWindows
<1>1. TypeOK /\ Windows => AtMostTwoWindows
  <2> SUFFICES ASSUME TypeOK, Windows, NEW k \in Keys, NEW t \in 0..MaxTime
               PROVE  AdmittedIn(k, t, t + Window) <= 2 * Limit
    BY DEF AtMostTwoWindows, Limit
  <2>1. Limited(admitted[k]) /\ t \in Nat
    BY ClockAssumption DEF Windows, Fixed
  <2>2. QED
    BY <2>1 DEF Limited, AdmittedIn, Within
<1>2. QED
  BY <1>1, WindowsInvariant, PTL

\* A check that admits nobody but counts found the limit used up.
LEMMA RefusalJustified ==
  ASSUME TypeOK, Occupied, Windows, [Next]_vars, NEW j \in Keys,
         store'[j] \notin {store[j], Absent}, admitted'[j] = admitted[j]
  PROVE  AdmittedIn(j, IF clock < Window THEN 0 ELSE clock - Window, clock) >= MaxRequests
<1> USE LimiterNumbers
<1>0. /\ ClockTypeOK /\ LimiterTypeOK /\ clock \in Nat
      /\ store \in [Keys -> Entry \cup {Absent}] /\ admitted \in [Keys -> SUBSET ((0..MaxTime) \X Nat)]
      /\ \A k \in Keys : Fixed(admitted[k], store[k], clock)
  BY ClockAssumption DEF TypeOK, ClockTypeOK, LimiterTypeOK, Windows
<1>1. PICK k \in Keys : Check(k)
  <2>1. CASE CheckAllows \/ CheckRefuses
    BY <2>1 DEF CheckAllows, CheckRefuses, Occupied
  <2>2. store' # store
    OBVIOUS
  <2>3. QED
    BY <2>1, <2>2 DEF Next, Loop, Arrive, Accept, AcceptAtLimit, AcceptFails, Refuse, Handshake, Upgrade, End,
       StreamStart, StreamEnd, ShutDown, Stop, Signal, Heartbeats, Tick, vars, limiterVars
<1>2. CASE CheckRestart(k)
  <2>1. k = j
    BY <1>0, <1>2 DEF CheckRestart
  <2>2. admitted'[j] = admitted[j] \cup {<<clock, Cardinality(admitted[j])>>}
    BY <1>0, <1>2, <2>1 DEF CheckRestart, Admit
  <2>3. <<clock, Cardinality(admitted[j])>> \notin admitted[j]
    <3>1. Told(admitted[j], clock) /\ Cardinality(admitted[j]) \in Nat
      BY <1>0, Countable DEF Fixed, Told
    <3>2. QED
      BY <3>1 DEF Told
  <2>4. QED
    BY <2>2, <2>3
<1>3. CASE CheckCount(k)
  <2> DEFINE old == IF store[k] = Absent THEN [count |-> 0, start |-> clock] ELSE store[k]
             new == [old EXCEPT !.count = (@ + 1) % Modulus]
  <2>1. k = j
    BY <1>0, <1>3 DEF CheckCount, Retain
  <2>2. old \in Entry
    BY <1>0, CounterAssumption DEF ClockTypeOK, Entry
  <2>3. /\ old.count = Counted(store[j]) /\ old.start = Begun(store[j], clock)
        /\ old.count \in Nat /\ old.start \in Nat
    BY <2>1, <2>2, ClockAssumption, CounterAssumption DEF Counted, Begun, Entry
  <2>4. old.start + Window >= clock
    <3>1. CASE store[j] = Absent
      BY <1>0, <2>3, <3>1 DEF Begun
    <3>2. CASE store[j] # Absent
      BY <1>0, <1>3, <2>1, <2>3, <3>2 DEF CheckCount, Expired, Begun
    <3>3. QED
      BY <3>1, <3>2
  <2> HIDE DEF old
  <2>5. old.count < MaxCount /\ (new.count <= MaxRequests => Admit(k))
    BY <1>3 DEF CheckCount, old
  <2>6. new.count = old.count + 1
    <3>1. (old.count + 1) % Modulus = old.count + 1
      BY <2>3, <2>5, CounterAssumption
    <3>2. QED
      BY <2>2, <3>1 DEF Entry
  <2> HIDE DEF new
  <2>7. Told(admitted[j], clock) /\ Open(admitted[j], old.start, old.count)
    BY <1>0, <2>3 DEF Fixed
  <2>8. ~Admit(k)
    <3>1. <<clock, Cardinality(admitted[j])>> \notin admitted[j]
      <4>1. Cardinality(admitted[j]) \in Nat
        BY <2>7, Countable DEF Told
      <4>2. QED
        BY <2>7, <4>1 DEF Told
    <3>2. QED
      BY <1>0, <2>1, <3>1 DEF Admit
  <2>9. Cardinality(From(admitted[j], old.start)) >= MaxRequests
    <3>1. Cardinality(From(admitted[j], old.start)) \in Nat
      BY <2>7, Countable DEF Told
    <3>2. old.count + 1 > MaxRequests
      BY <2>3, <2>5, <2>6, <2>8
    <3>3. QED
      BY <2>3, <2>7, <3>1, <3>2 DEF Open
  <2> DEFINE from == IF clock < Window THEN 0 ELSE clock - Window
  <2>10. From(admitted[j], old.start) \subseteq Within(admitted[j], from, clock)
    <3>1. from <= old.start /\ from \in Nat
      BY <1>0, <2>3, <2>4
    <3>2. \A a \in admitted[j] : a[1] \in Nat /\ a[1] <= clock
      BY <2>7 DEF Told
    <3> HIDE DEF from
    <3>3. QED
      BY <2>3, <3>1, <3>2 DEF From, Within
  <2>11. Cardinality(Within(admitted[j], from, clock)) >= MaxRequests
    <3> HIDE DEF from
    <3>1. IsFiniteSet(Within(admitted[j], from, clock))
      BY <2>7, Countable DEF Told
    <3>2. /\ Cardinality(From(admitted[j], old.start)) \in Nat
          /\ Cardinality(Within(admitted[j], from, clock)) \in Nat
          /\ Cardinality(From(admitted[j], old.start)) <= Cardinality(Within(admitted[j], from, clock))
      BY <2>10, <3>1, Smaller
    <3>3. QED
      BY <2>9, <3>2
  <2>12. QED
    BY <2>11 DEF AdmittedIn, Within
<1>4. QED
  BY <1>1, <1>2, <1>3 DEF Check

\* A client is refused only if as many of its requests as the limit allows were
\* admitted within the last window: neither a counter left from a window that is
\* over nor the traffic of other addresses refuses anybody (rate_limiter.rs:60-76).
THEOREM RefusalsJustified == Spec => RefusedOnlyOverLimit
<1>1. TypeOK /\ Occupied /\ Windows /\ [Next]_vars
        => [\A k \in Keys :
              /\ store'[k] \notin {store[k], Absent}
              /\ admitted'[k] = admitted[k]
              => AdmittedIn(k, IF clock < Window THEN 0 ELSE clock - Window, clock) >= MaxRequests]_limiterVars
  BY RefusalJustified
<1>2. QED
  BY <1>1, WindowsInvariant, PTL DEF Spec, RefusedOnlyOverLimit

-----------------------------------------------------------------------------
(* Heartbeat. *)

\* A whole number of intervals is none at all, or one more than some other.
LEMMA Intervals ==
  ASSUME NEW k \in Nat
  PROVE  /\ k * Interval \in Nat
         /\ (k + 1) * Interval = k * Interval + Interval
         /\ k > 0 => k - 1 \in Nat /\ (k - 1) * Interval = k * Interval - Interval /\ k * Interval >= Interval
         /\ k = 0 => k * Interval = 0
<1> DEFINE I == Interval
<1>1. I \in Nat /\ I > 0
  BY HeartbeatAssumption
<1> HIDE DEF I
<1>2. k * I \in Nat /\ (k + 1) * I = k * I + I /\ (k = 0 => k * I = 0)
  BY <1>1
<1>3. ASSUME k > 0
      PROVE  k - 1 \in Nat /\ (k - 1) * I = k * I - I /\ k * I >= I
  <2>1. PICK j \in Nat : k = j + 1
    BY <1>3
  <2>2. j * I \in Nat /\ k * I = j * I + I
    BY <1>1, <2>1
  <2>3. QED
    BY <1>1, <2>1, <2>2
<1>4. QED
  BY <1>2, <1>3 DEF I

\* What the instants known of a session b have now to do with each other: the pings
\* not answered are whole intervals apart, the oldest followed the last pong
\* within an interval, and a prompt client is not late with it.
InTime(b, now) ==
  /\ b.pong <= now
  /\ now <= b.next
  /\ b.next <= now + Interval
  /\ \E k \in Nat : b.next = b.oldest + k * Interval
  /\ b.oldest <= b.pong + Interval
  /\ b.next <= b.pong + 2 * Interval + Timeout
  /\ b.prompt /\ b.oldest < b.next => now <= b.oldest + Timeout

Timing ==
  /\ \A s \in Sessions : Up(s) => InTime(beat[s], clock)
  /\ PromptKept

LEMMA InitTiming == Init => Timing
BY DEF Init, HeartbeatInit, Timing, PromptKept, Up

LEMMA TimingOpens ==
  ASSUME ClockTypeOK, HeartbeatTypeOK, Timing, NEW s \in Sessions, OpenSession(s), UNCHANGED clock
  PROVE  Timing'
<1>1. PICK prompt \in BOOLEAN :
        beat' = [beat EXCEPT ![s] = [up |-> TRUE, prompt |-> prompt, next |-> clock + Interval,
                                     oldest |-> clock + Interval, pong |-> clock]]
  BY DEF OpenSession
<1> DEFINE b == [up |-> TRUE, prompt |-> prompt, next |-> clock + Interval,
                 oldest |-> clock + Interval, pong |-> clock]
<1>2. clock \in Nat /\ clock' = clock /\ Interval \in Nat /\ Timeout \in Nat
  BY HeartbeatAssumption, ClockAssumption DEF ClockTypeOK
<1>3. b.up /\ b.next = clock + Interval /\ b.oldest = clock + Interval /\ b.pong = clock
  OBVIOUS
<1> HIDE DEF b
<1>4. 0 \in Nat /\ b.next = b.oldest + 0 * Interval
  BY <1>2, <1>3, Intervals
<1>5. InTime(b, clock')
  BY <1>2, <1>3, <1>4 DEF InTime
<1>6. beat' = [beat EXCEPT ![s] = b]
  BY <1>1 DEF b
<1>7. QED
  BY <1>2, <1>3, <1>5, <1>6 DEF Timing, PromptKept, Up, InTime, HeartbeatTypeOK

LEMMA TimingBeats ==
  ASSUME ClockTypeOK, HeartbeatTypeOK, Timing, HeartbeatNext, UNCHANGED clock
  PROVE  Timing'
<1>1. PICK s \in Sessions : BeatDrops(s) \/ BeatPings(s) \/ MarkPong(s)
  BY DEF HeartbeatNext
<1> DEFINE b == beat[s]
<1>2. /\ Up(s) /\ b \in Beating /\ InTime(b, clock)
      /\ beat \in [Sessions -> Beating \cup {NoSession}]
  BY <1>1 DEF BeatDrops, BeatPings, MarkPong, Due, Up, HeartbeatTypeOK, Timing
<1>3. /\ clock \in Nat /\ Interval \in Nat /\ Interval > 0 /\ Timeout \in Nat
      /\ b.next \in Nat /\ b.oldest \in Nat /\ b.pong \in Nat /\ b.prompt \in BOOLEAN
      /\ clock' = clock /\ b # NoSession /\ b.up
  BY <1>2, HeartbeatAssumption, ClockAssumption DEF ClockTypeOK, Beating, Up
<1>4. PICK k \in Nat : b.next = b.oldest + k * Interval
  BY <1>2 DEF InTime
<1>pings. /\ b.oldest <= b.next
          /\ b.oldest < b.next => k > 0
  <2> DEFINE past == k * Interval
  <2>1. past \in Nat /\ (k = 0 => past = 0)
    BY Intervals
  <2>2. b.next = b.oldest + past
    BY <1>4
  <2> HIDE DEF past, b
  <2>3. QED
    BY ONLY k \in Nat, <1>3, <2>1, <2>2
<1>5. CASE BeatDrops(s)
  <2>1. clock = b.next /\ clock - b.pong > Interval + Timeout
    BY <1>5 DEF BeatDrops, Due, Overdue
  <2>2. b.oldest <= b.next
    BY <1>pings
  <2>3. b.oldest <= b.pong + Interval /\ (b.prompt /\ b.oldest < b.next => clock <= b.oldest + Timeout)
    BY <1>2 DEF InTime
  <2>4. ~b.prompt
    <3> HIDE DEF b
    <3>1. QED
      BY <1>3, <2>1, <2>2, <2>3
  <2>5. beat' = [beat EXCEPT ![s].up = FALSE]
    BY <1>5 DEF BeatDrops
  <2>6. ~beat'[s].up /\ beat'[s].prompt = b.prompt
    BY <1>2, <2>5 DEF Beating
  <2>7. \A r \in Sessions \ {s} : beat'[r] = beat[r]
    BY <1>2, <2>5
  <2>8. QED
    BY <1>3, <2>4, <2>6, <2>7 DEF Timing, PromptKept, Up, InTime
<1>6. ASSUME NEW c, c.up, InTime(c, clock'), beat' = [beat EXCEPT ![s] = c]
      PROVE  Timing'
  <2>1. beat'[s] = c /\ \A r \in Sessions \ {s} : beat'[r] = beat[r]
    BY <1>2, <1>6
  <2>2. \A r \in Sessions : Up(r)' => InTime(beat'[r], clock')
    <3> HIDE DEF InTime, b
    <3>1. \A r \in Sessions : Up(r) => InTime(beat[r], clock)
      BY DEF Timing
    <3>2. QED
      BY <1>3, <1>6, <2>1, <3>1 DEF Up
  <2>3. PromptKept'
    BY <1>6, <2>1 DEF Timing, PromptKept
  <2>4. QED
    BY <2>2, <2>3 DEF Timing
<1>7. CASE BeatPings(s)
  <2> DEFINE c == [b EXCEPT !.next = @ + Interval]
  <2>1. /\ c.up = b.up /\ c.prompt = b.prompt /\ c.oldest = b.oldest /\ c.pong = b.pong
        /\ c.next = b.next + Interval
    BY <1>2 DEF Beating
  <2>2. clock = b.next /\ ~(clock - b.pong > Interval + Timeout)
    BY <1>7 DEF BeatPings, Due, Overdue
  <2>3. beat' = [beat EXCEPT ![s] = c]
    BY <1>7 DEF BeatPings
  <2> HIDE DEF c
  <2>4. k + 1 \in Nat /\ c.next = c.oldest + (k + 1) * Interval
    <3> DEFINE past == k * Interval
               more == (k + 1) * Interval
    <3>1. past \in Nat /\ more = past + Interval
      BY Intervals
    <3>2. b.next = b.oldest + past
      BY <1>4
    <3>3. c.next = c.oldest + more
      <4> HIDE DEF past, more, b
      <4>1. QED
        BY ONLY <1>3, <2>1, <3>1, <3>2
    <3>4. QED
      BY <3>3
  <2>5. b.oldest <= b.next
    BY <1>pings
  <2>6. /\ b.pong <= clock /\ b.oldest <= b.pong + Interval
        /\ b.prompt /\ b.oldest < b.next => clock <= b.oldest + Timeout
    BY <1>2 DEF InTime
  <2>7. InTime(c, clock')
    <3> HIDE DEF b
    <3>1. /\ c.pong <= clock /\ clock <= c.next /\ c.next <= clock + Interval
          /\ c.oldest <= c.pong + Interval /\ c.next <= c.pong + 2 * Interval + Timeout
          /\ c.prompt /\ c.oldest < c.next => clock <= c.oldest + Timeout
      BY <1>3, <2>1, <2>2, <2>5, <2>6
    <3>2. QED
      BY <1>3, <2>4, <3>1 DEF InTime
  <2>8. QED
    BY <1>3, <1>6, <2>1, <2>3, <2>7
<1>8. CASE MarkPong(s)
  <2> DEFINE c == [b EXCEPT !.oldest = @ + Interval, !.pong = clock]
  <2>1. /\ c.up = b.up /\ c.prompt = b.prompt /\ c.next = b.next
        /\ c.oldest = b.oldest + Interval /\ c.pong = clock
    BY <1>2 DEF Beating
  <2>2. b.oldest < b.next
    BY <1>8 DEF MarkPong, Unanswered
  <2>3. beat' = [beat EXCEPT ![s] = c]
    BY <1>8 DEF MarkPong
  <2> HIDE DEF c
  <2>4. k > 0
    BY <1>pings, <2>2
  <2>5. /\ k - 1 \in Nat /\ c.next = c.oldest + (k - 1) * Interval
        /\ b.oldest + Interval <= b.next
    <3> DEFINE past == k * Interval
               rest == (k - 1) * Interval
    <3>1. past \in Nat /\ k - 1 \in Nat /\ rest = past - Interval /\ past >= Interval
      BY <2>4, Intervals
    <3>2. b.next = b.oldest + past
      BY <1>4
    <3>3. c.next = c.oldest + rest /\ b.oldest + Interval <= b.next
      <4> HIDE DEF past, rest, b
      <4>1. QED
        BY ONLY <1>3, <2>1, <3>1, <3>2
    <3>4. QED
      BY <3>1, <3>3
  <2>6. /\ b.pong <= clock /\ clock <= b.next /\ b.next <= clock + Interval
        /\ b.prompt /\ b.oldest < b.next => clock <= b.oldest + Timeout
    BY <1>2 DEF InTime
  <2>7. InTime(c, clock')
    <3> HIDE DEF b
    <3>1. /\ c.pong <= clock /\ clock <= c.next /\ c.next <= clock + Interval
          /\ c.oldest <= c.pong + Interval /\ c.next <= c.pong + 2 * Interval + Timeout
          /\ c.prompt /\ c.oldest < c.next => clock <= c.oldest + Timeout
      BY <1>3, <2>1, <2>2, <2>5, <2>6
    <3>2. QED
      BY <1>3, <2>5, <3>1 DEF InTime
  <2>8. QED
    BY <1>3, <1>6, <2>1, <2>3, <2>7
<1>9. QED
  BY <1>1, <1>5, <1>7, <1>8

LEMMA TimingTicks ==
  ASSUME ClockTypeOK, HeartbeatTypeOK, Timing, Tick
  PROVE  Timing'
<1>1. beat' = beat /\ clock' = clock + 1 /\ clock \in Nat /\ Interval \in Nat /\ Timeout \in Nat
  BY HeartbeatAssumption, ClockAssumption DEF Tick, Advance, ClockTypeOK
<1>2. ASSUME NEW s \in Sessions, Up(s)
      PROVE  InTime(beat'[s], clock')
  <2> DEFINE b == beat[s]
  <2>1. b \in Beating /\ InTime(b, clock) /\ b' = b
    BY <1>1, <1>2 DEF Up, HeartbeatTypeOK, Timing
  <2>2. b.next \in Nat /\ b.oldest \in Nat /\ b.pong \in Nat
    BY <2>1 DEF Beating
  <2>3. clock < b.next /\ (b.prompt /\ b.oldest < b.next => clock < b.oldest + Timeout)
    BY <1>2 DEF Tick, MayAdvance, Unanswered
  <2> HIDE DEF b
  <2>4. InTime(b, clock')
    BY <1>1, <2>1, <2>2, <2>3 DEF InTime
  <2>5. QED
    BY <1>1, <2>4 DEF b
<1>3. QED
  BY <1>1, <1>2 DEF Timing, PromptKept, Up

LEMMA TimingStep ==
  ASSUME TypeOK, Timing, [Next]_vars
  PROVE  Timing'
<1>0. ClockTypeOK /\ HeartbeatTypeOK
  BY DEF TypeOK
<1>1. ASSUME NEW c \in Slots, Upgrade(c)
      PROVE  Timing'
  BY <1>0, <1>1, TimingOpens DEF Upgrade, Slots
<1>2. ASSUME NEW c \in Slots, End(c)
      PROVE  Timing'
  BY <1>0, <1>2 DEF End, CloseSession, HeartbeatTypeOK, Timing, PromptKept, Up, InTime, Slots
<1>3. CASE Heartbeats
  BY <1>0, <1>3, TimingBeats DEF Heartbeats
<1>4. CASE Tick
  BY <1>0, <1>4, TimingTicks
<1>5. CASE UNCHANGED <<clock, beat>>
  BY <1>5 DEF Timing, PromptKept, Up, InTime
<1>6. QED
  BY <1>1, <1>2, <1>3, <1>4, <1>5 DEF Next, Loop, Arrive, Accept, AcceptAtLimit, AcceptFails, CheckAllows,
     CheckRefuses, Check, CheckRestart, CheckCount, Refuse, Handshake, StreamStart, StreamEnd, ShutDown, Stop,
     Signal, vars

LEMMA TimingInvariant == Spec => []Timing
<1>1. Init => TypeOK /\ Occupied /\ Timing
  BY InitTyped, InitOccupied, InitTiming
<1>2. TypeOK /\ Occupied /\ Timing /\ [Next]_vars => (TypeOK /\ Occupied /\ Timing)'
  BY TypedStep, OccupiedStep, TimingStep
<1>3. QED
  BY <1>1, <1>2, PTL DEF Spec

\* A client that answers each ping within ping_timeout is never dropped,
\* whatever the two durations are, the timeout longer than the interval
\* included (handler.rs:473).
THEOREM PromptClientsKept == Spec => []PromptKept
<1>1. Timing => PromptKept
  BY DEF Timing
<1>2. QED
  BY <1>1, TimingInvariant, PTL

\* No session outlives the last sign of its client by more than two intervals
\* and the timeout: the tick that finds the pong too old is at most an interval
\* later than the instant from which it is (handler.rs:473-486).
THEOREM SilentClientsDropped == Spec => []SilentDropped
<1>1. TypeOK /\ Timing => SilentDropped
  <2> SUFFICES ASSUME TypeOK, Timing, NEW s \in Sessions, Up(s)
               PROVE  clock <= beat[s].pong + 2 * Interval + Timeout
    BY DEF SilentDropped
  <2> DEFINE b == beat[s]
  <2>1. b \in Beating /\ clock <= b.next /\ b.next <= b.pong + 2 * Interval + Timeout
    BY DEF TypeOK, HeartbeatTypeOK, Up, Timing, InTime
  <2>2. /\ b.next \in Nat /\ b.pong \in Nat /\ clock \in Nat
        /\ Interval \in Nat /\ Timeout \in Nat
    BY <2>1, HeartbeatAssumption, ClockAssumption DEF TypeOK, ClockTypeOK, Beating
  <2> HIDE DEF b
  <2>3. clock <= b.pong + 2 * Interval + Timeout
    BY <2>1, <2>2
  <2>4. QED
    BY <2>3 DEF b
<1>2. QED
  BY <1>1, TypeInvariant, TimingInvariant, PTL

=============================================================================
