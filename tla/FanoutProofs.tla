---------------------------- MODULE FanoutProofs ----------------------------
(***************************************************************************)
(* Theorems about broadcasts for every number of sockets, rooms, tasks and *)
(* rooms named, and every capacity of the channels: who gets a packet, how *)
(* many copies, and who waits for whom.                                    *)
(***************************************************************************)
EXTENDS Fanout, SequenceTheorems, TLAPS

Job == [named : Nat, excluded : Sockets \cup {None}, goal : Seq(RoomNames)]

-----------------------------------------------------------------------------
(* Lists of rooms. *)

\* What is left to do of a broadcast is at most what it began with.
Plan(j) == Len(j.goal) <= j.named

LEMMA ListsTyped ==
  ASSUME NEW list, list = <<>> \/ list \in Lists
  PROVE  list \in Seq(RoomNames)
<1>1. CASE list = <<>>
  BY <1>1
<1>2. CASE list \in Lists
  <2>1. PICK n \in 0..MaxRooms : list \in [1..n -> RoomNames]
    BY <1>2 DEF Lists, SeqOf
  <2>2. n \in Nat
    BY CapAssumption
  <2> HIDE DEF RoomNames
  <2>3. QED
    BY <2>1, <2>2
<1>3. QED
  BY <1>1, <1>2

LEMMA TailShorter ==
  ASSUME NEW goal \in Seq(RoomNames), goal # <<>>
  PROVE  Len(Tail(goal)) = Len(goal) - 1 /\ Len(goal) \in Nat
OBVIOUS

\* The rooms of a list but the first are those of its tail.
LEMMA RoomsAhead ==
  ASSUME NEW goal \in Seq(RoomNames), goal # <<>>, NEW i \in DOMAIN goal
  PROVE  goal[i] = Head(goal) \/ \E k \in DOMAIN Tail(goal) : Tail(goal)[k] = goal[i]
<1>1. CASE i = 1
  BY <1>1
<1>2. CASE i # 1
  <2>1. /\ i - 1 \in 1..Len(goal) - 1 /\ (i - 1) + 1 = i
        /\ DOMAIN Tail(goal) = 1..Len(goal) - 1
        /\ \A k \in 1..Len(goal) - 1 : Tail(goal)[k] = goal[k + 1]
    BY <1>2
  <2>2. Tail(goal)[i - 1] = goal[i]
    BY <2>1
  <2>3. QED
    BY <2>1, <2>2
<1>3. QED
  BY <1>1, <1>2

-----------------------------------------------------------------------------
(* Rooms. *)

\* A socket's task that waits to join knows the room.
RoomGiven == \A s \in Sockets : pc[s] = "join" => arg[s] \in RoomNames

LEMMA InitRooms == Init => RoomGiven
BY AgentAssumption DEF Init, RoomGiven

LEMMA RoomsStep ==
  ASSUME TypeOK, RoomGiven, [Next]_vars
  PROVE  RoomGiven'
<1>0. /\ pc \in [Emitters \cup Sockets -> Positions] /\ arg \in [Sockets -> RoomNames \cup {None}]
      /\ Emitters \cap Sockets = {} /\ Rooms \subseteq RoomNames /\ Sockets \subseteq RoomNames
  BY AgentAssumption DEF TypeOK, RoomNames
<1>1. ASSUME NEW e \in Emitters,
             Broadcast(e) \/ \E t \in Targets(e) : Start(e, t[1], t[2])
      PROVE  RoomGiven'
  <2>1. arg' = arg /\ \A s \in Sockets : pc'[s] = pc[s]
    BY <1>0, <1>1 DEF Broadcast, Start, ReadMembers, ReadSenders, SendTo, SendFails, NextRoom, Finish, emitting, delivery, locks
  <2>2. QED
    BY <2>1 DEF RoomGiven
<1>2. ASSUME NEW s \in Sockets, Granting(s) \/ LoopRecv(s) \/ LoopReturns(s) \/ Calls(s)
      PROVE  RoomGiven'
  <2>1. \A t \in Sockets \ {s} : pc'[t] = pc[t] /\ arg'[t] = arg[t]
    BY <1>0, <1>2 DEF Granting, Calls, Connect, RegisterSender, Join, Leave, AskJoin, AskLeave, Close, Timeout, LoopPing,
       CleanLeave, CleanLeaveAll, CleanUnregister, LoopRecv, SessionRemoved, LoopReturns, Work, locks, emitting, delivery
  <2>2. pc'[s] = "join" => arg'[s] \in RoomNames
    <3>1. CASE RegisterSender(s) \/ \E r \in Rooms : AskJoin(s, r) \/ AskLeave(s, r)
      BY <1>0, <3>1 DEF RegisterSender, AskJoin, AskLeave, Work
    <3>2. CASE Join(s) \/ Leave(s) \/ CleanLeave(s) \/ CleanLeaveAll(s) \/ CleanUnregister(s)
      BY <1>0, <3>2 DEF Join, Leave, CleanLeave, CleanLeaveAll, CleanUnregister
    <3>3. CASE Connect(s) \/ Close(s) \/ Timeout(s)
      BY <1>0, <3>3 DEF Connect, Close, Timeout, Work
    <3>4. CASE LoopRecv(s) \/ LoopReturns(s) \/ LoopPing(s) \/ SessionRemoved(s)
      BY <3>4 DEF LoopRecv, LoopReturns, LoopPing, SessionRemoved, RoomGiven
    <3>5. QED
      BY <1>2, <3>1, <3>2, <3>3, <3>4 DEF Granting, Calls
  <2>3. QED
    BY <2>1, <2>2 DEF RoomGiven
<1>3. CASE UNCHANGED vars
  BY <1>3 DEF vars, RoomGiven
<1>4. QED
  BY <1>1, <1>2, <1>3 DEF Next, Server

-----------------------------------------------------------------------------
(* Types. *)

LEMMA AudienceTyped ==
  ASSUME members \subseteq RoomNames \X Sockets, NEW list
  PROVE  Audience(list) \subseteq Sockets
BY DEF Audience

\* A broadcast that has to read the members of a room has one left to read.
RoomLeft == \A e \in Emitters :
  Plan(job[e]) /\ (pc[e] = "members" /\ job[e].goal = <<>> => job[e].named = 0)

LEMMA InitTyped == Init => TypeOK
<1> SUFFICES ASSUME Init PROVE TypeOK
  OBVIOUS
<1> USE DEF Init
<1>1. job \in [Emitters -> [named : Nat, excluded : Sockets \cup {None}, goal : Seq(RoomNames)]]
  BY DEF NoJob
<1>2. owed \in [Emitters -> SUBSET (RoomNames \X Sockets)]
  OBVIOUS
<1>3. chan \in [Sockets -> 0..Cap]
  BY CapAssumption
<1>4. queue \in [Locks -> Seq(Emitters \cup Sockets)]
  OBVIOUS
<1>5. pc \in [Emitters \cup Sockets -> Positions]
  BY DEF Positions
<1>6. /\ members \subseteq RoomNames \X Sockets /\ senders \subseteq Sockets
      /\ held \in [Locks -> SUBSET Emitters] /\ arg \in [Sockets -> RoomNames \cup {None}]
      /\ todo \in [Emitters -> SUBSET Sockets] /\ loop \in [Sockets -> {"recv", "ping", "cleanup", "done"}]
      /\ copies \in [Emitters -> [Sockets -> Nat]]
  OBVIOUS
<1>7. QED
  BY <1>1, <1>2, <1>3, <1>4, <1>5, <1>6 DEF TypeOK

LEMMA MembersTyped ==
  ASSUME TypeOK, RoomGiven, [Next]_vars
  PROVE  members' \subseteq RoomNames \X Sockets
<1>0. /\ members \subseteq RoomNames \X Sockets /\ arg \in [Sockets -> RoomNames \cup {None}]
      /\ \A s \in Sockets : pc[s] = "join" => arg[s] \in RoomNames
  BY DEF TypeOK, RoomGiven
<1>1. ASSUME NEW s \in Sockets, Join(s) \/ Leave(s) \/ CleanLeave(s) \/ CleanLeaveAll(s)
      PROVE  members' \subseteq RoomNames \X Sockets
  <2>1. CASE Join(s)
    BY <1>0, <2>1 DEF Join
  <2>2. CASE Leave(s) \/ CleanLeave(s) \/ CleanLeaveAll(s)
    <3>1. members' \subseteq members
      BY <2>2 DEF Leave, CleanLeave, CleanLeaveAll
    <3>2. QED
      BY <1>0, <3>1
  <2>3. QED
    BY <1>1, <2>1, <2>2
<1>2. CASE UNCHANGED members
  BY <1>0, <1>2
<1>3. QED
  BY <1>1, <1>2 DEF Next, Server, Broadcast, Granting, Calls, Start, ReadMembers, ReadSenders, SendTo, SendFails, NextRoom,
     Finish, Connect, RegisterSender, Join, Leave, AskJoin, AskLeave, Close, Timeout, CleanLeave, CleanLeaveAll,
     CleanUnregister, LoopRecv, LoopPing, SessionRemoved, LoopReturns, EndLoop, Work, vars, locks, emitting, delivery

LEMMA JobsTyped ==
  ASSUME TypeOK, RoomLeft, [Next]_vars
  PROVE  job' \in [Emitters -> Job]
<1>0. job \in [Emitters -> Job]
  BY DEF TypeOK, Job
<1>1. ASSUME NEW e \in Emitters, NEW t \in Targets(e), Start(e, t[1], t[2])
      PROVE  job' \in [Emitters -> Job]
  <2>1. t[1] \in Seq(RoomNames) /\ t[2] \in Sockets \cup {None}
    <3>1. (t[1] = <<>> \/ t[1] \in Lists) /\ t[2] \in Sockets \cup {None}
      BY DEF Targets
    <3>2. t[1] \in Seq(RoomNames)
      BY <3>1, ListsTyped, Zenon
    <3>3. QED
      BY <3>1, <3>2
  <2> DEFINE j == [named |-> Len(t[1]), excluded |-> t[2], goal |-> t[1]]
  <2>2. j \in Job
    <3>1. Len(t[1]) \in Nat
      BY <2>1
    <3>2. QED
      BY <2>1, <3>1 DEF Job
  <2>3. job' = [job EXCEPT ![e] = j]
    BY <1>1 DEF Start
  <2> HIDE DEF j
  <2>4. QED
    BY <1>0, <2>2, <2>3
<1>2. ASSUME NEW e \in Emitters, ReadMembers(e)
      PROVE  job' \in [Emitters -> Job]
  <2> DEFINE j == job[e]
             k == [j EXCEPT !.goal = Tail(@)]
  <2>1. CASE j.named # 0
    <3>1. j \in Job /\ j.goal # <<>>
      BY <1>0, <1>2, <2>1 DEF RoomLeft, ReadMembers
    <3>2. job' = [job EXCEPT ![e] = k]
      BY <1>2, <2>1 DEF ReadMembers
    <3>3. k \in Job
      <4> HIDE DEF j
      <4>1. j.goal \in Seq(RoomNames) /\ Tail(j.goal) \in Seq(RoomNames)
        BY <3>1 DEF Job
      <4>2. QED
        BY <3>1, <4>1 DEF Job
    <3> HIDE DEF k
    <3>4. QED
      BY <1>0, <3>2, <3>3
  <2>2. CASE j.named = 0
    BY <1>0, <1>2, <2>2 DEF ReadMembers
  <2>3. QED
    BY <2>1, <2>2
<1>3. ASSUME NEW e \in Emitters, Finish(e)
      PROVE  job' \in [Emitters -> Job]
  <2>1. NoJob \in Job
    BY DEF NoJob, Job
  <2>2. QED
    BY <1>0, <1>3, <2>1 DEF Finish
<1>4. CASE UNCHANGED job
  BY <1>0, <1>4
<1>5. QED
  BY <1>1, <1>2, <1>3, <1>4 DEF Next, Server, Broadcast, Granting, Calls, Start, ReadMembers, ReadSenders, SendTo, SendFails, NextRoom,
     Finish, Connect, RegisterSender, Join, Leave, AskJoin, AskLeave, Close, Timeout, CleanLeave, CleanLeaveAll,
     CleanUnregister, LoopRecv, LoopPing, SessionRemoved, LoopReturns, EndLoop, Work, vars, locks, emitting, delivery

LEMMA QueuesTyped ==
  ASSUME TypeOK, [Next]_vars
  PROVE  queue' \in [Locks -> Seq(Emitters \cup Sockets)]
<1> DEFINE Agents == Emitters \cup Sockets
<1>0. queue \in [Locks -> Seq(Agents)] /\ "rooms" \in Locks /\ "senders" \in Locks
  BY DEF TypeOK, Locks
<1>1. ASSUME NEW a \in Agents, NEW l \in Locks, Ask(a, l)
      PROVE  queue' \in [Locks -> Seq(Agents)]
  <2>1. queue[l] \in Seq(Agents) /\ Append(queue[l], a) \in Seq(Agents)
    BY <1>0
  <2> HIDE DEF Agents
  <2>2. QED
    BY <1>0, <1>1, <2>1 DEF Ask
<1>2. ASSUME NEW l \in Locks, queue[l] # <<>>, Granted(l)
      PROVE  queue' \in [Locks -> Seq(Agents)]
  <2>1. queue[l] \in Seq(Agents) /\ Tail(queue[l]) \in Seq(Agents)
    BY <1>0, <1>2
  <2> HIDE DEF Agents
  <2>2. QED
    BY <1>0, <1>2, <2>1 DEF Granted
<1>3. ASSUME NEW a \in Agents, NEW l \in Locks, NEW m \in Locks \ {l}, queue[l] # <<>>,
             queue' = [queue EXCEPT ![l] = Tail(@), ![m] = Append(@, a)]
      PROVE  queue' \in [Locks -> Seq(Agents)]
  <2>1. Tail(queue[l]) \in Seq(Agents) /\ Append(queue[m], a) \in Seq(Agents)
    BY <1>0, <1>3
  <2> HIDE DEF Agents
  <2>2. QED
    BY <1>0, <1>3, <2>1
<1>4. ASSUME NEW a \in Agents, NEW l \in Locks, queue[l] # <<>>,
             queue' = [queue EXCEPT ![l] = Append(Tail(@), a)]
      PROVE  queue' \in [Locks -> Seq(Agents)]
  <2>1. Append(Tail(queue[l]), a) \in Seq(Agents)
    <3>1. Tail(queue[l]) \in Seq(Agents)
      BY <1>0, <1>4
    <3>2. QED
      BY <3>1
  <2> HIDE DEF Agents
  <2>2. QED
    BY <1>0, <1>4, <2>1
<1>5. ASSUME NEW e \in Emitters, Broadcast(e) \/ \E t \in Targets(e) : Start(e, t[1], t[2])
      PROVE  queue' \in [Locks -> Seq(Agents)]
  <2>1. CASE \E t \in Targets(e) : Start(e, t[1], t[2])
    BY <1>0, <1>1, <2>1 DEF Start
  <2>2. CASE ReadMembers(e)
    BY <1>0, <1>3, <2>2, ZenonT(30) DEF ReadMembers, First
  <2>3. CASE ReadSenders(e)
    BY <1>0, <1>2, <2>3 DEF ReadSenders, First
  <2>4. CASE NextRoom(e)
    BY <1>0, <1>1, <2>4 DEF NextRoom
  <2>5. CASE Finish(e) \/ \E s \in Sockets : SendTo(e, s) \/ SendFails(e, s)
    BY <1>0, <2>5 DEF Finish, SendTo, SendFails, locks
  <2>6. QED
    BY <1>5, <2>1, <2>2, <2>3, <2>4, <2>5 DEF Broadcast
<1>6. ASSUME NEW s \in Sockets, Granting(s) \/ LoopRecv(s) \/ LoopReturns(s) \/ Calls(s)
      PROVE  queue' \in [Locks -> Seq(Agents)]
  <2>1. CASE RegisterSender(s)
    BY <1>0, <1>3, <2>1 DEF RegisterSender, MayWrite, First
  <2>2. CASE Join(s) \/ Leave(s) \/ CleanUnregister(s)
    BY <1>0, <1>2, <2>2 DEF Join, Leave, CleanUnregister, MayWrite, First
  <2>3. CASE CleanLeave(s)
    BY <1>0, <1>4, <2>3 DEF CleanLeave, MayWrite, First
  <2>4. CASE CleanLeaveAll(s)
    BY <1>0, <1>3, <2>4 DEF CleanLeaveAll, MayWrite, First
  <2>5. CASE LoopRecv(s) \/ LoopReturns(s) \/ LoopPing(s) \/ SessionRemoved(s)
    BY <1>0, <2>5 DEF LoopRecv, LoopReturns, LoopPing, SessionRemoved, locks
  <2>6. CASE Connect(s) \/ Close(s) \/ Timeout(s) \/ \E r \in Rooms : AskJoin(s, r) \/ AskLeave(s, r)
    BY <1>0, <1>1, <2>6 DEF Connect, Close, Timeout, AskJoin, AskLeave, Work
  <2>7. QED
    BY <1>6, <2>1, <2>2, <2>3, <2>4, <2>5, <2>6 DEF Granting, Calls
<1>7. CASE UNCHANGED vars
  BY <1>0, <1>7 DEF vars, locks
<1>8. QED
  BY <1>5, <1>6, <1>7 DEF Next, Server

LEMMA WatchTyped ==
  ASSUME TypeOK, Watch
  PROVE  owed' \in [Emitters -> SUBSET (RoomNames \X Sockets)]
BY DEF TypeOK, Watch

LEMMA TypedStep ==
  ASSUME TypeOK, RoomGiven, RoomLeft, [Next]_vars
  PROVE  TypeOK'
<1>0. /\ held \in [Locks -> SUBSET Emitters] /\ pc \in [Emitters \cup Sockets -> Positions]
      /\ arg \in [Sockets -> RoomNames \cup {None}] /\ todo \in [Emitters -> SUBSET Sockets]
      /\ chan \in [Sockets -> 0..Cap] /\ loop \in [Sockets -> {"recv", "ping", "cleanup", "done"}]
      /\ copies \in [Emitters -> [Sockets -> Nat]] /\ owed \in [Emitters -> SUBSET (RoomNames \X Sockets)]
      /\ members \subseteq RoomNames \X Sockets /\ senders \subseteq Sockets
      /\ "rooms" \in Locks /\ "senders" \in Locks /\ Cap \in Nat
  BY CapAssumption DEF TypeOK, Locks
<1>1. members' \subseteq RoomNames \X Sockets
  BY MembersTyped
<1>2. job' \in [Emitters -> Job]
  BY JobsTyped
<1>3. queue' \in [Locks -> Seq(Emitters \cup Sockets)]
  BY QueuesTyped
<1>4. senders' \subseteq Sockets
  <2>1. ASSUME NEW e \in Emitters, Broadcast(e) \/ \E t \in Targets(e) : Start(e, t[1], t[2])
        PROVE  senders' \subseteq Sockets
    BY <1>0, <2>1 DEF Broadcast, Start, ReadMembers, ReadSenders, SendTo, SendFails, NextRoom, Finish, locks, emitting, delivery
  <2>2. ASSUME NEW s \in Sockets, Granting(s) \/ LoopRecv(s) \/ LoopReturns(s) \/ Calls(s)
        PROVE  senders' \subseteq Sockets
    BY <1>0, <2>2, ZenonT(30) DEF Granting, Calls, Connect, RegisterSender, Join, Leave,
       AskJoin, AskLeave, Close, Timeout, CleanLeave, CleanLeaveAll, CleanUnregister, LoopRecv, LoopPing, SessionRemoved,
       LoopReturns, EndLoop, Work, locks, emitting, delivery
  <2>3. CASE UNCHANGED vars
    BY <1>0, <2>3 DEF vars, locks
  <2>4. QED
    BY <2>1, <2>2, <2>3 DEF Next, Server
<1>5. held' \in [Locks -> SUBSET Emitters]
  <2>1. ASSUME NEW l \in Locks, NEW S \in SUBSET Emitters, held' = [held EXCEPT ![l] = S]
        PROVE  held' \in [Locks -> SUBSET Emitters]
    BY <1>0, <2>1
  <2>2. ASSUME NEW e \in Emitters, ReadMembers(e)
        PROVE  held' \in [Locks -> SUBSET Emitters]
    <3>1. held["rooms"] \cup {e} \in SUBSET Emitters
      BY <1>0
    <3>2. QED
      BY <1>0, <2>1, <2>2, <3>1 DEF ReadMembers
  <2>3. ASSUME NEW e \in Emitters, ReadSenders(e)
        PROVE  held' \in [Locks -> SUBSET Emitters]
    <3>1. held["senders"] \cup {e} \in SUBSET Emitters
      BY <1>0
    <3>2. QED
      BY <2>1, <2>3, <3>1, <1>0 DEF ReadSenders
  <2>4. ASSUME NEW e \in Emitters, NextRoom(e)
        PROVE  held' \in [Locks -> SUBSET Emitters]
    <3>1. held["senders"] \ {e} \in SUBSET Emitters
      BY <1>0
    <3>2. QED
      BY <2>1, <2>4, <3>1, <1>0 DEF NextRoom
  <2>5. ASSUME NEW e \in Emitters, Finish(e)
        PROVE  held' \in [Locks -> SUBSET Emitters]
    <3>1. \A l \in Locks : held[l] \ {e} \in SUBSET Emitters
      BY <1>0
    <3>2. QED
      BY <2>5, <3>1 DEF Finish
  <2>6. CASE UNCHANGED held
    BY <1>0, <2>6
  <2>7. QED
    BY <2>2, <2>3, <2>4, <2>5, <2>6 DEF Next, Server, Broadcast, Granting, Calls, Start, ReadMembers, ReadSenders, SendTo, SendFails, NextRoom,
     Finish, Connect, RegisterSender, Join, Leave, AskJoin, AskLeave, Close, Timeout, CleanLeave, CleanLeaveAll,
     CleanUnregister, LoopRecv, LoopPing, SessionRemoved, LoopReturns, EndLoop, Work, vars, locks, emitting, delivery
<1>6. pc' \in [Emitters \cup Sockets -> Positions]
  <2>1. ASSUME NEW a \in Emitters \cup Sockets, NEW p \in Positions, pc' = [pc EXCEPT ![a] = p]
        PROVE  pc' \in [Emitters \cup Sockets -> Positions]
    BY <1>0, <2>1
  <2>2. ASSUME NEW e \in Emitters, Broadcast(e) \/ \E t \in Targets(e) : Start(e, t[1], t[2])
        PROVE  pc' \in [Emitters \cup Sockets -> Positions]
    BY <1>0, <2>2 DEF Broadcast, Start, ReadMembers, ReadSenders, SendTo, SendFails, NextRoom, Finish, locks, emitting, delivery, Positions
  <2>3. ASSUME NEW s \in Sockets, Granting(s) \/ LoopRecv(s) \/ LoopReturns(s) \/ Calls(s)
        PROVE  pc' \in [Emitters \cup Sockets -> Positions]
    <3>1. pc' = pc \/ \E p \in Positions : pc' = [pc EXCEPT ![s] = p]
      BY <2>3 DEF Granting, Calls, Connect, RegisterSender, Join, Leave,
       AskJoin, AskLeave, Close, Timeout, CleanLeave, CleanLeaveAll, CleanUnregister, LoopRecv, LoopPing, SessionRemoved,
       LoopReturns, EndLoop, Work, locks, emitting, delivery, Positions
    <3>2. QED
      BY <1>0, <2>1, <3>1
  <2>4. CASE UNCHANGED vars
    BY <1>0, <2>4 DEF vars
  <2>5. QED
    BY <2>2, <2>3, <2>4 DEF Next, Server
<1>7. arg' \in [Sockets -> RoomNames \cup {None}]
  <2>1. ASSUME NEW e \in Emitters, Broadcast(e) \/ \E t \in Targets(e) : Start(e, t[1], t[2])
        PROVE  arg' \in [Sockets -> RoomNames \cup {None}]
    BY <1>0, <2>1 DEF Broadcast, Start, ReadMembers, ReadSenders, SendTo, SendFails, NextRoom, Finish, locks, emitting, delivery
  <2>2. ASSUME NEW s \in Sockets, Granting(s) \/ LoopRecv(s) \/ LoopReturns(s) \/ Calls(s)
        PROVE  arg' \in [Sockets -> RoomNames \cup {None}]
    <3>1. arg' = arg \/ \E r \in RoomNames \cup {None} : arg' = [arg EXCEPT ![s] = r]
      BY <2>2 DEF Granting, Calls, Connect, RegisterSender, Join, Leave,
       AskJoin, AskLeave, Close, Timeout, CleanLeave, CleanLeaveAll, CleanUnregister, LoopRecv, LoopPing, SessionRemoved,
       LoopReturns, EndLoop, Work, locks, emitting, delivery, RoomNames
    <3>2. QED
      BY <1>0, <3>1
  <2>3. CASE UNCHANGED vars
    BY <1>0, <2>3 DEF vars
  <2>4. QED
    BY <2>1, <2>2, <2>3 DEF Next, Server
<1>8. todo' \in [Emitters -> SUBSET Sockets]
  <2>1. ASSUME NEW e \in Emitters, NEW S \in SUBSET Sockets, todo' = [todo EXCEPT ![e] = S]
        PROVE  todo' \in [Emitters -> SUBSET Sockets]
    BY <1>0, <2>1
  <2>2. ASSUME NEW e \in Emitters, ReadMembers(e)
        PROVE  todo' \in [Emitters -> SUBSET Sockets]
    <3>1. \A list : Audience(list) \in SUBSET Sockets
      BY <1>0, AudienceTyped
    <3>2. PICK list : todo' = [todo EXCEPT ![e] = Audience(list)]
      BY <2>2 DEF ReadMembers
    <3>3. QED
      BY <2>1, <3>1, <3>2
  <2>3. ASSUME NEW e \in Emitters, ReadSenders(e) \/ \E s \in Sockets : SendTo(e, s) \/ SendFails(e, s)
        PROVE  todo' \in [Emitters -> SUBSET Sockets]
    <3>1. \E S \in SUBSET Sockets : todo' = [todo EXCEPT ![e] = todo[e] \cap S]
      <4>1. CASE ReadSenders(e)
        <5>1. (todo[e] \cap senders) \ {job[e].excluded} = todo[e] \cap (senders \ {job[e].excluded})
          OBVIOUS
        <5>2. QED
          BY <1>0, <4>1, <5>1 DEF ReadSenders
      <4>2. ASSUME NEW s \in Sockets, SendTo(e, s) \/ SendFails(e, s)
            PROVE  \E S \in SUBSET Sockets : todo' = [todo EXCEPT ![e] = todo[e] \cap S]
        <5>1. todo[e] \ {s} = todo[e] \cap (Sockets \ {s})
          BY <1>0
        <5>2. todo' = [todo EXCEPT ![e] = todo[e] \ {s}]
          BY <4>2 DEF SendTo, SendFails
        <5>3. QED
          BY <5>1, <5>2
      <4>3. QED
        BY <2>3, <4>1, <4>2
    <3>2. PICK S \in SUBSET Sockets : todo' = [todo EXCEPT ![e] = todo[e] \cap S]
      BY <3>1
    <3>3. todo[e] \cap S \in SUBSET Sockets
      BY <1>0
    <3>4. QED
      BY <2>1, <3>2, <3>3
  <2>4. CASE UNCHANGED todo
    BY <1>0, <2>4
  <2>5. QED
    BY <2>2, <2>3, <2>4 DEF Next, Server, Broadcast, Granting, Calls, Start, ReadMembers, ReadSenders, SendTo, SendFails, NextRoom,
     Finish, Connect, RegisterSender, Join, Leave, AskJoin, AskLeave, Close, Timeout, CleanLeave, CleanLeaveAll,
     CleanUnregister, LoopRecv, LoopPing, SessionRemoved, LoopReturns, EndLoop, Work, vars, locks, emitting, delivery
<1>9. chan' \in [Sockets -> 0..Cap]
  <2>1. ASSUME NEW e \in Emitters, NEW s \in Sockets, SendTo(e, s)
        PROVE  chan' \in [Sockets -> 0..Cap]
    BY <1>0, <2>1 DEF SendTo
  <2>2. ASSUME NEW s \in Sockets, LoopRecv(s) \/ LoopPing(s) \/ EndLoop(s)
        PROVE  chan' \in [Sockets -> 0..Cap]
    BY <1>0, <2>2 DEF LoopRecv, LoopPing, EndLoop
  <2>3. CASE UNCHANGED chan
    BY <1>0, <2>3
  <2>4. QED
    BY <2>1, <2>2, <2>3 DEF Next, Server, Broadcast, Granting, Calls, Start, ReadMembers, ReadSenders, SendTo, SendFails, NextRoom,
     Finish, Connect, RegisterSender, Join, Leave, AskJoin, AskLeave, Close, Timeout, CleanLeave, CleanLeaveAll,
     CleanUnregister, LoopRecv, LoopPing, SessionRemoved, LoopReturns, Work, vars, locks, emitting, delivery
<1>10. loop' \in [Sockets -> {"recv", "ping", "cleanup", "done"}]
  BY <1>0, ZenonT(30) DEF Next, Server, Broadcast, Granting, Calls, Start, ReadMembers, ReadSenders, SendTo, SendFails, NextRoom,
     Finish, Connect, RegisterSender, Join, Leave, AskJoin, AskLeave, Close, Timeout, CleanLeave, CleanLeaveAll,
     CleanUnregister, LoopRecv, LoopPing, SessionRemoved, LoopReturns, EndLoop, Work, vars, locks, emitting, delivery
<1>11. copies' \in [Emitters -> [Sockets -> Nat]]
  <2>1. ASSUME NEW e \in Emitters, NEW s \in Sockets, SendTo(e, s)
        PROVE  copies' \in [Emitters -> [Sockets -> Nat]]
    <3> DEFINE c == copies[e]
               d == [c EXCEPT ![s] = @ + 1]
    <3>1. d \in [Sockets -> Nat]
      <4>1. c \in [Sockets -> Nat]
        BY <1>0
      <4> HIDE DEF c
      <4>2. QED
        BY <4>1
    <3>2. copies' = [copies EXCEPT ![e] = d]
      BY <2>1 DEF SendTo
    <3> HIDE DEF d
    <3>3. QED
      BY <1>0, <3>1, <3>2
  <2>2. ASSUME NEW e \in Emitters, Finish(e)
        PROVE  copies' \in [Emitters -> [Sockets -> Nat]]
    BY <1>0, <2>2 DEF Finish
  <2>3. CASE UNCHANGED copies
    BY <1>0, <2>3
  <2>4. QED
    BY <2>1, <2>2, <2>3, ZenonT(30) DEF Next, Server, Broadcast, Granting, Calls, Start, ReadMembers, ReadSenders, SendTo, SendFails, NextRoom,
     Finish, Connect, RegisterSender, Join, Leave, AskJoin, AskLeave, Close, Timeout, CleanLeave, CleanLeaveAll,
     CleanUnregister, LoopRecv, LoopPing, SessionRemoved, LoopReturns, EndLoop, Work, vars, locks, emitting, delivery
<1>12. owed' \in [Emitters -> SUBSET (RoomNames \X Sockets)]
  <2>1. ASSUME NEW e \in Emitters, NEW t \in Targets(e), Start(e, t[1], t[2])
        PROVE  owed' \in [Emitters -> SUBSET (RoomNames \X Sockets)]
    BY <1>0, <2>1 DEF Start
  <2>2. CASE Watch
    BY <2>2, WatchTyped
  <2>3. CASE UNCHANGED vars
    BY <1>0, <2>3 DEF vars
  <2>4. QED
    BY <2>1, <2>2, <2>3 DEF Next, Server, Broadcast, Granting, Calls, ReadMembers, ReadSenders, SendTo, SendFails, NextRoom,
     Finish, Connect, RegisterSender, Join, Leave, AskJoin, AskLeave, Close, Timeout, CleanLeave, CleanLeaveAll,
     CleanUnregister, LoopRecv, LoopPing, SessionRemoved, LoopReturns, EndLoop, Work
<1>13. QED
  BY <1>1, <1>2, <1>3, <1>4, <1>5, <1>6, <1>7, <1>8, <1>9, <1>10, <1>11, <1>12 DEF TypeOK, Job

-----------------------------------------------------------------------------
(* What is known of a broadcast: p is its position, j the job, t the members *)
(* to send to, c the copies sent, w the memberships it owes one.              *)

\* How many copies a socket may have when the rooms begun are done with.
Due(j) == IF j.named = 0 THEN 1 ELSE j.named - Len(j.goal)

\* It has yet to read the members of the room.
ToCome(p, j, r) == IF j.named = 0 THEN p = "members" ELSE \E i \in DOMAIN j.goal : j.goal[i] = r

Sound(p, j, t, c, w) ==
  /\ Plan(j)
  /\ p = "idle" => \A s \in Sockets : c[s] = 0
  /\ p = "members" /\ j.goal = <<>> => j.named = 0 /\ \A s \in Sockets : c[s] = 0
  /\ \A s \in Sockets : c[s] <= Due(j)
  /\ p \in {"senders", "send"} => \A s \in t : c[s] + 1 <= Due(j)
  /\ p # "idle" => \A m \in w : (p \in {"senders", "send"} /\ m[2] \in t) \/ ToCome(p, j, m[1])

\* What is owed is due: the member is there, can be served and has not been.
Lasting(e) ==
  pc[e] # "idle" => \A m \in owed[e] :
    m \in members /\ m[2] \in Served \ {job[e].excluded} /\ copies[e][m[2]] = 0

Emission(e) == Sound(pc[e], job[e], todo[e], copies[e], owed[e]) /\ Lasting(e)

Emissions == \A e \in Emitters : Emission(e)

LEMMA EmissionsRoomLeft == Emissions => RoomLeft
BY DEF Emissions, Emission, Sound, RoomLeft

LEMMA DueBounds ==
  ASSUME NEW j \in Job, Plan(j)
  PROVE  /\ Due(j) \in Nat
         /\ j.goal = <<>> => Due(j) >= 1
         /\ j.named = 0 => j.goal = <<>>
<1>1. j.named \in Nat /\ j.goal \in Seq(RoomNames) /\ Len(j.goal) <= j.named
  BY DEF Job, Plan
<1>2. Len(j.goal) \in Nat /\ (j.goal = <<>> <=> Len(j.goal) = 0)
  BY <1>1
<1>3. QED
  BY <1>1, <1>2 DEF Due

\* With fewer memberships to watch a broadcast is as sound as it was.
LEMMA StillSound ==
  ASSUME NEW p, NEW j, NEW t, NEW c, NEW w, Sound(p, j, t, c, w),
         NEW v, p = "idle" \/ v \subseteq w
  PROVE  Sound(p, j, t, c, v)
BY DEF Sound

\* A step of somebody else.
LEMMA OthersKeep ==
  ASSUME TypeOK, NEW e \in Emitters, Emission(e),
         pc'[e] = pc[e], job'[e] = job[e], todo'[e] = todo[e], copies'[e] = copies[e],
         Watch \/ (owed'[e] = owed[e] /\ UNCHANGED <<members, senders, loop>>)
  PROVE  Emission(e)'
<1>1. CASE Watch
  <2>1. CASE pc[e] = "idle"
    <3>1. Sound(pc[e], job[e], todo[e], copies[e], owed'[e])
      BY <2>1, StillSound DEF Emission
    <3>2. QED
      BY <2>1, <3>1 DEF Emission, Lasting
  <2>2. CASE pc[e] # "idle"
    <3>1. owed'[e] = {m \in owed[e] : m \in members' /\ m[2] \in Served' /\ copies'[e][m[2]] = 0}
      BY <1>1, <2>2 DEF Watch
    <3>2. Sound(pc[e], job[e], todo[e], copies[e], owed'[e])
      BY <3>1, StillSound DEF Emission
    <3>3. QED
      BY <3>1, <3>2 DEF Emission, Lasting
  <2>3. QED
    BY <2>1, <2>2
<1>2. CASE owed'[e] = owed[e] /\ UNCHANGED <<members, senders, loop>>
  BY <1>2 DEF Emission, Lasting, Served
<1>3. QED
  BY <1>1, <1>2

\* A step of the broadcast itself that goes on without sending.
LEMMA GoesOn ==
  ASSUME TypeOK, NEW e \in Emitters, Emission(e), Watch, pc[e] # "idle", pc'[e] # "idle",
         copies'[e] = copies[e], job'[e].excluded = job[e].excluded, UNCHANGED <<members, senders, loop>>
  PROVE  owed'[e] = owed[e] /\ Lasting(e)'
<1>1. owed'[e] = {m \in owed[e] : m \in members' /\ m[2] \in Served' /\ copies'[e][m[2]] = 0}
  BY DEF Watch
<1>2. Served' = Served
  BY DEF Served
<1>3. QED
  BY <1>1, <1>2 DEF Emission, Lasting

LEMMA InitEmissions == Init => Emissions
<1> SUFFICES ASSUME Init, NEW e \in Emitters PROVE Emission(e)
  BY DEF Emissions
<1>1. pc[e] = "idle" /\ job[e] = NoJob /\ copies[e] = [s \in Sockets |-> 0]
  BY DEF Init
<1>2. Plan(job[e]) /\ Due(job[e]) = 1
  BY <1>1 DEF NoJob, Plan, Due
<1>3. Sound(pc[e], job[e], todo[e], copies[e], owed[e])
  BY <1>1, <1>2 DEF Sound
<1>4. QED
  BY <1>1, <1>3 DEF Emission, Lasting

LEMMA StartSound ==
  ASSUME TypeOK, Emissions, NEW e \in Emitters, NEW list \in Seq(RoomNames), NEW excluded, Start(e, list, excluded)
  PROVE  Emission(e)'
<1> DEFINE j == job'[e]
           w == owed'[e]
           c == copies'[e]
<1>1. /\ j.named = Len(list) /\ j.goal = list
      /\ pc'[e] = "members"
      /\ w = {m \in members : Named(list, m[1]) /\ m[2] \in Served \ {excluded}}
      /\ j.excluded = excluded /\ members \subseteq RoomNames \X Sockets
      /\ members' = members /\ senders' = senders /\ loop' = loop
  BY DEF Start, delivery, TypeOK
<1>2. \A s \in Sockets : c[s] = 0
  BY DEF Start, delivery, Emissions, Emission, Sound
<1>3. Lasting(e)'
  BY <1>1, <1>2 DEF Lasting, Served
<1>4. Len(list) \in Nat /\ (list = <<>> <=> Len(list) = 0)
  OBVIOUS
<1>5. Plan(j) /\ Due(j) \in Nat
  BY <1>1, <1>4 DEF Plan, Due
<1>6. \A m \in w : ToCome("members", j, m[1])
  BY <1>1, <1>4 DEF ToCome, Named
<1>7. Sound("members", j, todo'[e], c, w)
  <2> HIDE DEF j, w, c
  <2>1. QED
    BY <1>1, <1>2, <1>4, <1>5, <1>6 DEF Sound
<1>8. QED
  BY <1>1, <1>3, <1>7 DEF Emission

LEMMA ReadMembersSound ==
  ASSUME TypeOK, Emissions, NEW e \in Emitters, ReadMembers(e)
  PROVE  Emission(e)'
<1> DEFINE j == job[e]
           k == job'[e]
           c == copies[e]
           t == todo'[e]
           w == owed[e]
<1>1. /\ pc[e] = "members" /\ pc'[e] = "senders" /\ copies'[e] = c
      /\ j \in Job /\ members \subseteq RoomNames \X Sockets
      /\ UNCHANGED <<members, senders, loop>> /\ Watch
  BY DEF ReadMembers, delivery, TypeOK, Job
<1>2. Sound("members", j, todo[e], c, w) /\ Plan(j) /\ Lasting(e) /\ Emission(e)
  BY <1>1 DEF Emissions, Emission, Sound
<1>3. /\ k.named = j.named /\ k.excluded = j.excluded
      /\ j.named = 0 => k = j /\ t = Audience(<<>>)
      /\ j.named # 0 => k.goal = Tail(j.goal) /\ t = Audience(<<Head(j.goal)>>)
  BY <1>1 DEF ReadMembers, TypeOK, Job
<1>4. owed'[e] = w /\ Lasting(e)'
  BY <1>1, <1>2, <1>3, GoesOn
<1>5. t \subseteq Sockets /\ c \in [Sockets -> Nat] /\ w \subseteq members
  <2>1. t \subseteq Sockets
    BY <1>1, <1>3, AudienceTyped
  <2>2. QED
    BY <1>1, <1>2, <2>1 DEF TypeOK, Lasting
<1>6. CASE j.named = 0
  <2>1. j.goal = <<>> /\ Due(j) = 1 /\ \A s \in Sockets : c[s] = 0
    BY <1>1, <1>2, <1>6, DueBounds DEF Due, Sound
  <2>2. \A m \in w : m[2] \in t
    BY <1>3, <1>5, <1>6 DEF Audience, Named
  <2>3. Sound("senders", j, t, c, w)
    <3> HIDE DEF j, t, c, w
    <3>1. QED
      BY <1>2, <1>5, <2>1, <2>2 DEF Sound
  <2>4. QED
    BY <1>1, <1>3, <1>4, <1>6, <2>3 DEF Emission
<1>7. CASE j.named # 0
  <2>1. j.goal # <<>> /\ j.goal \in Seq(RoomNames) /\ j.named \in Nat
    BY <1>1, <1>2, <1>7 DEF Sound, Job
  <2>2. Len(k.goal) = Len(j.goal) - 1 /\ Len(j.goal) \in Nat /\ Len(j.goal) <= j.named
    <3>1. Len(Tail(j.goal)) = Len(j.goal) - 1 /\ Len(j.goal) \in Nat
      BY <2>1, TailShorter
    <3> HIDE DEF j, k
    <3>2. QED
      BY <1>2, <1>3, <1>7, <3>1 DEF Plan
  <2>3. Plan(k) /\ Due(j) \in Nat /\ Due(k) = Due(j) + 1
    BY <1>3, <1>7, <2>1, <2>2 DEF Plan, Due
  <2>4. \A m \in w : m[1] = Head(j.goal) => m[2] \in t
    <3>1. \A r : Named(<<r>>, r)
      BY DEF Named
    <3>2. QED
      BY <1>3, <1>5, <1>7, <3>1 DEF Audience
  <2>5. \A m \in w : ToCome("members", j, m[1]) => m[1] = Head(j.goal) \/ ToCome("senders", k, m[1])
    <3>1. \A i \in DOMAIN j.goal : j.goal[i] = Head(j.goal) \/ \E n \in DOMAIN Tail(j.goal) : Tail(j.goal)[n] = j.goal[i]
      BY <2>1, RoomsAhead
    <3> HIDE DEF j, k
    <3>2. QED
      BY <1>3, <1>7, <3>1, Zenon DEF ToCome
  <2>6. Sound("senders", k, t, c, w)
    <3> HIDE DEF j, k, t, c, w
    <3>1. \A m \in w : m[2] \in t \/ ToCome("senders", k, m[1])
      BY <1>2, <1>3, <2>4, <2>5 DEF Sound
    <3>2. \A s \in Sockets : c[s] \in Nat /\ c[s] <= Due(j)
      BY <1>2, <1>5 DEF Sound
    <3>3. \A s \in Sockets : c[s] <= Due(k) /\ c[s] + 1 <= Due(k)
      BY <2>3, <3>2
    <3>4. QED
      BY <1>5, <2>3, <3>1, <3>3 DEF Sound
  <2>7. QED
    BY <1>1, <1>4, <2>6 DEF Emission
<1>8. QED
  BY <1>6, <1>7

LEMMA ReadSendersSound ==
  ASSUME TypeOK, Emissions, NEW e \in Emitters, ReadSenders(e)
  PROVE  Emission(e)'
<1> DEFINE j == job[e]
           c == copies[e]
           t == todo[e]
           u == todo'[e]
           w == owed[e]
<1>1. /\ pc[e] = "senders" /\ pc'[e] = "send" /\ copies'[e] = c /\ job'[e] = j
      /\ u = (t \cap senders) \ {j.excluded}
      /\ UNCHANGED <<members, senders, loop>> /\ Watch
  BY DEF ReadSenders, delivery, TypeOK
<1>2. Sound("senders", j, t, c, w) /\ Emission(e)
  BY <1>1 DEF Emissions, Emission
<1>3. owed'[e] = w /\ Lasting(e)' /\ \A m \in w : m[2] \in senders \ {j.excluded}
  BY <1>1, <1>2, GoesOn DEF Emission, Lasting, Served
<1>4. Sound("send", j, u, c, w)
  <2> HIDE DEF j, c, t, u, w
  <2>1. QED
    BY <1>1, <1>2, <1>3 DEF Sound, ToCome
<1>5. QED
  BY <1>1, <1>3, <1>4 DEF Emission

LEMMA SendToSound ==
  ASSUME TypeOK, Emissions, NEW e \in Emitters, NEW s \in Sockets, SendTo(e, s)
  PROVE  Emission(e)'
<1> DEFINE j == job[e]
           c == copies[e]
           d == copies'[e]
           t == todo[e]
           u == todo'[e]
           w == owed[e]
           v == owed'[e]
<1>1. /\ pc[e] = "send" /\ pc'[e] = "send" /\ job'[e] = j
      /\ u = t \ {s} /\ s \in t /\ j \in Job
      /\ UNCHANGED <<members, senders, loop>> /\ Watch
  BY DEF SendTo, TypeOK, Job
<1>2. Sound("send", j, t, c, w) /\ Emission(e)
  BY <1>1 DEF Emissions, Emission
<1>3. v = {m \in w : m \in members' /\ m[2] \in Served' /\ d[m[2]] = 0} /\ Lasting(e)'
  <2>1. v = {m \in w : m \in members' /\ m[2] \in Served' /\ d[m[2]] = 0}
    BY <1>1 DEF Watch
  <2>2. QED
    BY <1>1, <1>2, <2>1 DEF Emission, Lasting
<1>4. /\ c \in [Sockets -> Nat] /\ d = [c EXCEPT ![s] = @ + 1]
      /\ t \subseteq Sockets
  BY DEF SendTo, TypeOK
<1>5. Due(j) \in Nat
  BY <1>1, <1>2, DueBounds DEF Sound
<1>6. Sound("send", j, u, d, v)
  <2> HIDE DEF j, c, d, t, u, v, w
  <2>1. d[s] = c[s] + 1 /\ \A r \in Sockets \ {s} : d[r] = c[r]
    BY <1>4
  <2>2. \A r \in Sockets : d[r] <= Due(j)
    BY <1>1, <1>2, <1>4, <1>5, <2>1 DEF Sound
  <2>3. \A r \in u : d[r] + 1 <= Due(j)
    BY <1>1, <1>2, <1>4, <1>5, <2>1 DEF Sound
  <2>4. \A m \in v : m[2] \in u \/ ToCome("send", j, m[1])
    <3>1. d[s] # 0
      BY <1>4, <2>1
    <3>2. QED
      BY <1>1, <1>2, <1>3, <3>1 DEF Sound
  <2>5. Plan(j)
    BY <1>2 DEF Sound
  <2>6. QED
    BY <2>2, <2>3, <2>4, <2>5 DEF Sound
<1>7. QED
  BY <1>1, <1>3, <1>6 DEF Emission

LEMMA SendFailsSound ==
  ASSUME TypeOK, Emissions, NEW e \in Emitters, NEW s \in Sockets, SendFails(e, s)
  PROVE  Emission(e)'
<1> DEFINE j == job[e]
           c == copies[e]
           t == todo[e]
           u == todo'[e]
           w == owed[e]
<1>1. /\ pc[e] = "send" /\ pc'[e] = "send" /\ job'[e] = j /\ copies'[e] = c
      /\ u = t \ {s} /\ loop[s] = "done"
      /\ UNCHANGED <<members, senders, loop>> /\ Watch
  BY DEF SendFails, delivery, TypeOK
<1>2. Sound("send", j, t, c, w) /\ Emission(e)
  BY <1>1 DEF Emissions, Emission
<1>3. owed'[e] = w /\ Lasting(e)' /\ \A m \in w : m[2] # s
  BY <1>1, <1>2, GoesOn DEF Emission, Lasting, Served
<1>4. Sound("send", j, u, c, w)
  <2> HIDE DEF j, c, t, u, w
  <2>1. QED
    BY <1>1, <1>2, <1>3 DEF Sound, ToCome
<1>5. QED
  BY <1>1, <1>3, <1>4 DEF Emission

LEMMA NextRoomSound ==
  ASSUME TypeOK, Emissions, NEW e \in Emitters, NextRoom(e)
  PROVE  Emission(e)'
<1> DEFINE j == job[e]
           c == copies[e]
           w == owed[e]
<1>1. /\ pc[e] = "send" /\ pc'[e] = "members" /\ job'[e] = j /\ copies'[e] = c
      /\ todo[e] = {} /\ todo'[e] = {} /\ j.goal # <<>> /\ j \in Job
      /\ UNCHANGED <<members, senders, loop>> /\ Watch
  BY DEF NextRoom, delivery, emitting, TypeOK, Job
<1>2. Sound("send", j, {}, c, w) /\ Emission(e)
  BY <1>1 DEF Emissions, Emission
<1>3. owed'[e] = w /\ Lasting(e)'
  BY <1>1, <1>2, GoesOn
<1>4. Sound("members", j, {}, c, w)
  <2> HIDE DEF j, c, w
  <2>1. QED
    BY <1>1, <1>2 DEF Sound, ToCome
<1>5. QED
  BY <1>1, <1>3, <1>4 DEF Emission

LEMMA FinishSound ==
  ASSUME TypeOK, Emissions, NEW e \in Emitters, Finish(e)
  PROVE  Emission(e)'
<1>1. /\ pc'[e] = "idle" /\ job'[e] = NoJob /\ \A s \in Sockets : copies'[e][s] = 0
  BY DEF Finish, TypeOK
<1>2. Plan(NoJob) /\ Due(NoJob) = 1
  BY DEF NoJob, Plan, Due
<1>3. Sound("idle", NoJob, todo'[e], copies'[e], owed'[e])
  BY <1>1, <1>2 DEF Sound
<1>4. QED
  BY <1>1, <1>3 DEF Emission, Lasting

LEMMA EmissionsStep ==
  ASSUME TypeOK, Emissions, [Next]_vars
  PROVE  Emissions'
<1>0. pc \in [Emitters \cup Sockets -> Positions] /\ Emitters \cap Sockets = {}
  BY AgentAssumption DEF TypeOK
<1>1. ASSUME NEW e \in Emitters, Broadcast(e) \/ \E t \in Targets(e) : Start(e, t[1], t[2])
      PROVE  Emissions'
  <2>1. Emission(e)'
    <3>1. ASSUME NEW t \in Targets(e), Start(e, t[1], t[2])
          PROVE  Emission(e)'
      <4>1. t[1] \in Seq(RoomNames)
        <5>1. t[1] = <<>> \/ t[1] \in Lists
          BY DEF Targets
        <5>2. QED
          BY <5>1, ListsTyped, Zenon
      <4>2. QED
        BY <3>1, <4>1, StartSound
    <3>2. QED
      BY <1>1, <3>1, ReadMembersSound, ReadSendersSound, SendToSound, SendFailsSound, NextRoomSound, FinishSound
         DEF Broadcast
  <2>2. ASSUME NEW f \in Emitters \ {e}
        PROVE  Emission(f)'
    <3>1. /\ pc'[f] = pc[f] /\ job'[f] = job[f] /\ todo'[f] = todo[f] /\ copies'[f] = copies[f]
          /\ Watch \/ (owed'[f] = owed[f] /\ UNCHANGED <<members, senders, loop>>)
      BY <1>0, <1>1 DEF Broadcast, Start, ReadMembers, ReadSenders, SendTo, SendFails, NextRoom, Finish,
         emitting, delivery, TypeOK
    <3>2. QED
      BY <3>1, OthersKeep DEF Emissions
  <2>3. QED
    BY <2>1, <2>2 DEF Emissions
<1>2. ASSUME NEW s \in Sockets, Granting(s) \/ LoopRecv(s) \/ LoopReturns(s) \/ Calls(s)
      PROVE  Emissions'
  <2>1. ASSUME NEW f \in Emitters
        PROVE  Emission(f)'
    <3>1. /\ pc'[f] = pc[f] /\ job'[f] = job[f] /\ todo'[f] = todo[f] /\ copies'[f] = copies[f]
          /\ Watch
      BY <1>0, <1>2 DEF Granting, Calls, Connect, RegisterSender, Join, Leave, AskJoin, AskLeave, Close, Timeout,
         CleanLeave, CleanLeaveAll, CleanUnregister, LoopRecv, LoopPing, SessionRemoved, LoopReturns, EndLoop, Work,
         emitting, delivery
    <3>2. QED
      BY <3>1, OthersKeep DEF Emissions
  <2>2. QED
    BY <2>1 DEF Emissions
<1>3. CASE UNCHANGED vars
  BY <1>3 DEF vars, locks, emitting, delivery, Emissions, Emission, Lasting, Served
<1>4. QED
  BY <1>1, <1>2, <1>3 DEF Next, Server

-----------------------------------------------------------------------------
(* Who waits, for what, and who holds it. *)

Agents == Emitters \cup Sockets

Waits(l) == IF l = "rooms" THEN {"members", "join", "leave", "leave_all"}
            ELSE {"senders", "register", "unregister"}

Waiting == Waits("rooms") \cup Waits("senders")

\* In a queue is who waits for its lock, once.
Lined(q, p, W) ==
  /\ q \in Seq(Agents)
  /\ \A i, j \in DOMAIN q : q[i] = q[j] => i = j
  /\ \A a \in Agents : p[a] \in W <=> \E i \in DOMAIN q : q[i] = a

Lines(Q, p) == /\ Q \in [Locks -> Seq(Agents)] /\ p \in [Agents -> Positions]
               /\ \A l \in Locks : Lined(Q[l], p, Waits(l))

LEMMA WaitsApart == /\ Locks = {"rooms", "senders"} /\ "rooms" \in Locks /\ "senders" \in Locks
                    /\ \A l \in Locks : Waits(l) \subseteq Positions
                    /\ \A l, m \in Locks : l # m => Waits(l) \cap Waits(m) = {}
                    /\ Waiting = UNION {Waits(l) : l \in Locks}
                    /\ "live" \in Positions \ Waiting
  BY DEF Locks, Waits, Waiting, Positions

LEMMA LinedSame ==
  ASSUME NEW q, NEW p, NEW o, NEW W, Lined(q, p, W), \A a \in Agents : o[a] \in W <=> p[a] \in W
  PROVE  Lined(q, o, W)
BY DEF Lined

\* Who asks for a lock waits behind all others.
LEMMA LinedAsk ==
  ASSUME NEW q, NEW p, NEW W, Lined(q, p, W), NEW a \in Agents, p[a] \notin W, p \in [Agents -> Positions], NEW v \in W
  PROVE  Lined(Append(q, a), [p EXCEPT ![a] = v], W)
<1> DEFINE l == Len(q)
           r == Append(q, a)
<1>1. /\ q \in Seq(Agents) /\ l \in Nat /\ DOMAIN q = 1..l /\ r \in Seq(Agents)
      /\ DOMAIN r = 1..l + 1 /\ r[l + 1] = a /\ \A i \in 1..l : r[i] = q[i]
  BY DEF Lined
<1> HIDE DEF l, r
<1>2. /\ l + 1 \in 1..l + 1 /\ l + 1 \notin 1..l
      /\ \A i \in 1..l + 1 : i \in 1..l \/ i = l + 1
      /\ \A i \in 1..l : i \in 1..l + 1
  BY <1>1
<1>3. \A i \in 1..l : q[i] # a
  BY <1>1 DEF Lined
<1>4. ASSUME NEW i \in 1..l + 1, NEW j \in 1..l + 1, r[i] = r[j]
      PROVE  i = j
  BY <1>1, <1>2, <1>3, <1>4 DEF Lined
<1>5. ASSUME NEW b \in Agents
      PROVE  [p EXCEPT ![a] = v][b] \in W <=> \E i \in 1..l + 1 : r[i] = b
  <2>1. CASE b = a
    BY <1>1, <1>2, <2>1
  <2>2. CASE b # a
    <3>1. [p EXCEPT ![a] = v][b] = p[b]
      BY <2>2
    <3>2. (\E i \in 1..l + 1 : r[i] = b) <=> \E i \in 1..l : q[i] = b
      BY <1>1, <1>2, <2>2
    <3>3. QED
      BY <1>1, <3>1, <3>2 DEF Lined
  <2>3. QED
    BY <2>1, <2>2
<1>6. QED
  BY <1>1, <1>4, <1>5 DEF Lined, r

\* Who is the first in the line has waited, and goes.
LEMMA LinedGrant ==
  ASSUME NEW q, NEW p, NEW W, Lined(q, p, W), q # <<>>, p \in [Agents -> Positions], NEW v, v \notin W
  PROVE  Head(q) \in Agents /\ p[Head(q)] \in W /\ Lined(Tail(q), [p EXCEPT ![Head(q)] = v], W)
<1> DEFINE l == Len(q)
           r == Tail(q)
           a == Head(q)
<1>1. /\ q \in Seq(Agents) /\ l \in Nat /\ l >= 1 /\ DOMAIN q = 1..l /\ r \in Seq(Agents)
      /\ DOMAIN r = 1..l - 1 /\ a \in Agents /\ a = q[1] /\ \A i \in 1..l - 1 : r[i] = q[i + 1]
  BY DEF Lined
<1> HIDE DEF l, r, a
<1>2. /\ 1 \in 1..l
      /\ \A i \in 1..l - 1 : i + 1 \in 1..l /\ i + 1 # 1
      /\ \A i \in 1..l : i = 1 \/ (i - 1 \in 1..l - 1 /\ (i - 1) + 1 = i)
      /\ \A i, j \in 1..l - 1 : i + 1 = j + 1 => i = j
  BY <1>1
<1>3. p[a] \in W
  BY <1>1, <1>2 DEF Lined
<1>4. \A i, j \in 1..l : q[i] = q[j] => i = j
  BY <1>1 DEF Lined
<1>5. ASSUME NEW i \in 1..l - 1, NEW j \in 1..l - 1, r[i] = r[j]
      PROVE  i = j
  BY <1>1, <1>2, <1>4, <1>5
<1>6. ASSUME NEW b \in Agents
      PROVE  [p EXCEPT ![a] = v][b] \in W <=> \E i \in 1..l - 1 : r[i] = b
  <2>1. CASE b = a
    <3>1. \A i \in 1..l - 1 : r[i] # a
      BY <1>1, <1>2, <1>4
    <3>2. QED
      BY <2>1, <3>1
  <2>2. CASE b # a
    <3>1. [p EXCEPT ![a] = v][b] = p[b]
      BY <2>2
    <3>2. (\E i \in 1..l : q[i] = b) <=> \E i \in 1..l - 1 : r[i] = b
      <4>1. ASSUME NEW i \in 1..l, q[i] = b
            PROVE  \E k \in 1..l - 1 : r[k] = b
        <5>1. i - 1 \in 1..l - 1 /\ (i - 1) + 1 = i
          BY <1>1, <1>2, <2>2, <4>1
        <5>2. r[i - 1] = b
          BY <1>1, <4>1, <5>1
        <5>3. QED
          BY <5>1, <5>2
      <4>2. QED
        BY <1>1, <1>2, <4>1
    <3>3. QED
      BY <1>1, <3>1, <3>2 DEF Lined
  <2>3. QED
    BY <2>1, <2>2
<1>7. QED
  BY <1>1, <1>3, <1>5, <1>6 DEF Lined, r, a

LEMMA LinesAsk ==
  ASSUME NEW Q, NEW p, Lines(Q, p), NEW a \in Agents, NEW l \in Locks, p[a] \notin Waiting, NEW v \in Waits(l)
  PROVE  Lines([Q EXCEPT ![l] = Append(@, a)], [p EXCEPT ![a] = v])
<1> DEFINE o == [p EXCEPT ![a] = v]
           q == Append(Q[l], a)
<1>1. Q \in [Locks -> Seq(Agents)] /\ p \in [Agents -> Positions]
  BY DEF Lines
<1>2. Lined(q, o, Waits(l))
  BY <1>1, WaitsApart, LinedAsk DEF Lines
<1>3. ASSUME NEW m \in Locks, m # l
      PROVE  Lined(Q[m], o, Waits(m))
  <2>1. \A b \in Agents : o[b] \in Waits(m) <=> p[b] \in Waits(m)
    BY <1>1, <1>3, WaitsApart
  <2> HIDE DEF o
  <2>2. QED
    BY <2>1, LinedSame DEF Lines
<1>4. o \in [Agents -> Positions] /\ q \in Seq(Agents)
  BY <1>1, <1>2, WaitsApart DEF Lined
<1> HIDE DEF o, q
<1>5. [Q EXCEPT ![l] = q] \in [Locks -> Seq(Agents)]
  BY <1>1, <1>4
<1>6. \A m \in Locks : [Q EXCEPT ![l] = q][m] = IF m = l THEN q ELSE Q[m]
  BY <1>1
<1>7. Lines([Q EXCEPT ![l] = q], o)
  BY <1>2, <1>3, <1>4, <1>5, <1>6 DEF Lines
<1>8. QED
  BY <1>7 DEF o, q

LEMMA LinesGrant ==
  ASSUME NEW Q, NEW p, Lines(Q, p), NEW l \in Locks, Q[l] # <<>>, NEW v \in Positions \ Waiting
  PROVE  /\ Head(Q[l]) \in Agents /\ p[Head(Q[l])] \in Waits(l)
         /\ Lines([Q EXCEPT ![l] = Tail(@)], [p EXCEPT ![Head(Q[l])] = v])
<1> DEFINE a == Head(Q[l])
           o == [p EXCEPT ![a] = v]
           q == Tail(Q[l])
<1>1. Q \in [Locks -> Seq(Agents)] /\ p \in [Agents -> Positions]
  BY DEF Lines
<1>2. v \notin Waits(l) /\ Lined(Q[l], p, Waits(l))
  BY WaitsApart DEF Lines
<1>3. a \in Agents /\ p[a] \in Waits(l) /\ Lined(q, o, Waits(l))
  BY <1>1, <1>2, LinedGrant
<1> HIDE DEF a, q
<1>4. ASSUME NEW m \in Locks, m # l
      PROVE  Lined(Q[m], o, Waits(m))
  <2>1. \A b \in Agents : o[b] \in Waits(m) <=> p[b] \in Waits(m)
    BY <1>1, <1>3, <1>4, WaitsApart
  <2> HIDE DEF o
  <2>2. QED
    BY <2>1, LinedSame DEF Lines
<1>5. o \in [Agents -> Positions] /\ q \in Seq(Agents)
  BY <1>1, <1>3 DEF Lined
<1> HIDE DEF o
<1>6. [Q EXCEPT ![l] = q] \in [Locks -> Seq(Agents)]
  BY <1>1, <1>5
<1>7. \A m \in Locks : [Q EXCEPT ![l] = q][m] = IF m = l THEN q ELSE Q[m]
  BY <1>1
<1>8. Lines([Q EXCEPT ![l] = q], o)
  BY <1>3, <1>4, <1>5, <1>6, <1>7 DEF Lines
<1>9. QED
  BY <1>3, <1>8 DEF a, o, q

\* From one queue into another, or behind the others in the same one.
LEMMA LinesMove ==
  ASSUME NEW Q, NEW p, Lines(Q, p), NEW l \in Locks, Q[l] # <<>>, NEW m \in Locks, NEW v \in Waits(m)
  PROVE  /\ m # l => Lines([Q EXCEPT ![l] = Tail(@), ![m] = Append(@, Head(Q[l]))], [p EXCEPT ![Head(Q[l])] = v])
         /\ m = l => Lines([Q EXCEPT ![l] = Append(Tail(@), Head(Q[l]))], [p EXCEPT ![Head(Q[l])] = v])
<1> DEFINE a == Head(Q[l])
           R == [Q EXCEPT ![l] = Tail(@)]
           o == [p EXCEPT ![a] = "live"]
<1>1. a \in Agents /\ Lines(R, o) /\ p \in [Agents -> Positions] /\ Q \in [Locks -> Seq(Agents)]
  <2>1. "live" \in Positions \ Waiting
    BY WaitsApart
  <2>2. a \in Agents /\ Lines(R, o)
    BY <2>1, LinesGrant
  <2>3. p \in [Agents -> Positions] /\ Q \in [Locks -> Seq(Agents)]
    BY DEF Lines
  <2>4. QED
    BY <2>2, <2>3, Zenon
<1>2. o[a] = "live" /\ [o EXCEPT ![a] = v] = [p EXCEPT ![a] = v]
  BY <1>1
<1> HIDE DEF a, o
<1>3. Lines([R EXCEPT ![m] = Append(@, a)], [o EXCEPT ![a] = v])
  <2> HIDE DEF R
  <2>1. o[a] \notin Waiting
    BY <1>2, WaitsApart
  <2>2. QED
    BY <1>1, <2>1, LinesAsk
<1>4. CASE m # l
  <2>1. R[m] = Q[m]
    BY <1>1, <1>4
  <2>2. QED
    BY <1>2, <1>3, <1>4, <2>1 DEF a
<1>5. CASE m = l
  <2>1. [R EXCEPT ![l] = Append(@, a)] = [Q EXCEPT ![l] = Append(Tail(@), a)]
    <3> DEFINE r == Tail(Q[l])
    <3> HIDE DEF r
    <3>1. [[Q EXCEPT ![l] = r] EXCEPT ![l] = Append(@, a)] = [Q EXCEPT ![l] = Append(r, a)]
      BY <1>1
    <3>2. QED
      BY <3>1 DEF r
  <2>2. QED
    BY <1>2, <1>3, <1>5, <2>1 DEF a
<1>6. QED
  BY <1>4, <1>5

LEMMA LinesSame ==
  ASSUME NEW Q, NEW p, Lines(Q, p), NEW a \in Agents, p[a] \notin Waiting, NEW v \in Positions \ Waiting
  PROVE  Lines(Q, [p EXCEPT ![a] = v])
<1> DEFINE o == [p EXCEPT ![a] = v]
<1>1. p \in [Agents -> Positions] /\ o \in [Agents -> Positions]
  BY DEF Lines
<1>2. \A l \in Locks : \A b \in Agents : o[b] \in Waits(l) <=> p[b] \in Waits(l)
  BY <1>1, WaitsApart
<1> HIDE DEF o
<1>3. Lines(Q, o)
  BY <1>1, <1>2, LinedSame DEF Lines
<1>4. QED
  BY <1>3 DEF o

\* The senders are locked only by those that send; the rooms only by broadcasts
\* to the namespace, until they end.
Holding(h, p, j) ==
  /\ h["senders"] \subseteq {e \in Emitters : p[e] = "send"}
  /\ h["rooms"] \subseteq {e \in Emitters : p[e] \in {"senders", "send"} /\ j[e].goal = <<>>}

Kinds(p) == /\ \A e \in Emitters : p[e] \in {"idle", "members", "senders", "send"}
            /\ \A s \in Sockets : p[s] \in {"new", "register", "join", "leave", "live", "leave_all", "unregister", "gone"}

Turns == Lines(queue, pc) /\ Holding(held, pc, job) /\ Kinds(pc)

LEMMA InitTurns == Init => Turns
<1> SUFFICES ASSUME Init PROVE Turns
  OBVIOUS
<1>1. Emitters \cap Sockets = {} /\ \A l \in Locks : queue[l] = <<>> /\ held[l] = {}
  BY AgentAssumption DEF Init
<1>2. /\ queue \in [Locks -> Seq(Agents)] /\ pc \in [Agents -> Positions]
      /\ \A a \in Agents : pc[a] \notin Waiting /\ pc[a] \in {"idle", "new"}
  BY InitTyped DEF Init, TypeOK, Agents, Waiting, Waits
<1>3. Lines(queue, pc)
  BY <1>1, <1>2, WaitsApart DEF Lines, Lined
<1>4. Kinds(pc)
  BY <1>1 DEF Init, Kinds
<1>5. Holding(held, pc, job)
  BY <1>1, WaitsApart DEF Holding
<1>6. QED
  BY <1>3, <1>4, <1>5 DEF Turns

LEMMA BroadcastTurns ==
  ASSUME TypeOK, RoomLeft, Turns, NEW e \in Emitters, Broadcast(e) \/ \E t \in Targets(e) : Start(e, t[1], t[2])
  PROVE  Turns'
<1>0. /\ pc \in [Agents -> Positions] /\ job \in [Emitters -> Job] /\ held \in [Locks -> SUBSET Emitters]
      /\ queue \in [Locks -> Seq(Agents)] /\ Lines(queue, pc) /\ e \in Agents
      /\ Emitters \cap Sockets = {} /\ "rooms" \in Locks /\ "senders" \in Locks
  BY AgentAssumption, WaitsApart DEF TypeOK, Turns, Lines, Agents, Job
<1>1. Lines(queue', pc')
  <2>1. ASSUME NEW t \in Targets(e), Start(e, t[1], t[2])
        PROVE  Lines(queue', pc')
    <3>1. pc[e] \notin Waiting /\ "members" \in Waits("rooms")
      BY <2>1 DEF Start, Waiting, Waits
    <3>2. QED
      BY <1>0, <2>1, <3>1, LinesAsk DEF Start, Ask
  <2>2. CASE ReadMembers(e)
    <3>1. /\ "senders" \in Waits("senders") /\ queue["rooms"] # <<>> /\ e = Head(queue["rooms"])
          /\ pc' = [pc EXCEPT ![e] = "senders"]
          /\ queue' = [queue EXCEPT !["rooms"] = Tail(@), !["senders"] = Append(@, e)]
      BY <2>2 DEF ReadMembers, First, Waits
    <3>2. QED
      BY <1>0, <3>1, LinesMove
  <2>3. CASE ReadSenders(e)
    <3>1. "send" \in Positions \ Waiting
      BY DEF Positions, Waiting, Waits
    <3>2. QED
      BY <1>0, <2>3, <3>1, LinesGrant DEF ReadSenders, First, Granted
  <2>4. CASE NextRoom(e)
    <3>1. pc[e] \notin Waiting /\ "members" \in Waits("rooms")
      BY <2>4 DEF NextRoom, Waiting, Waits
    <3>2. QED
      BY <1>0, <2>4, <3>1, LinesAsk DEF NextRoom, Ask
  <2>5. CASE Finish(e)
    <3>1. pc[e] \notin Waiting /\ "idle" \in Positions \ Waiting
      BY <2>5 DEF Finish, Positions, Waiting, Waits
    <3>2. QED
      BY <1>0, <2>5, <3>1, LinesSame DEF Finish
  <2>6. CASE \E s \in Sockets : SendTo(e, s) \/ SendFails(e, s)
    BY <1>0, <2>6 DEF SendTo, SendFails, locks
  <2>7. QED
    BY <1>0, <2>1, <2>2, <2>3, <2>4, <2>5, <2>6 DEF Broadcast
<1>2. Kinds(pc')
  <2>1. Kinds(pc)
    BY DEF Turns
  <2>2. \E v \in {"idle", "members", "senders", "send"} : pc' = pc \/ pc' = [pc EXCEPT ![e] = v]
    BY DEF Broadcast, Start, ReadMembers, ReadSenders, SendTo, SendFails, NextRoom, Finish
  <2>3. QED
    BY <1>0, <2>1, <2>2 DEF Kinds, Agents
<1>3. Holding(held', pc', job')
  <2>0. /\ Holding(held, pc, job) /\ Plan(job[e])
        /\ \A f \in Emitters : f # e => pc'[f] = pc[f] /\ job'[f] = job[f]
    BY <1>0 DEF Turns, RoomLeft, Broadcast, Start, ReadMembers, ReadSenders, SendTo, SendFails, NextRoom, Finish, emitting,
       Agents
  <2>1. CASE (\E t \in Targets(e) : Start(e, t[1], t[2])) \/ NextRoom(e)
    <3>1. e \notin held["rooms"]
      BY <1>0, <2>0, <2>1 DEF Holding, Start, NextRoom
    <3>2. CASE NextRoom(e)
      <4>1. held'["senders"] = held["senders"] \ {e} /\ held'["rooms"] = held["rooms"]
        BY <1>0, <3>2 DEF NextRoom
      <4>2. QED
        BY <1>0, <2>0, <3>1, <4>1 DEF Holding
    <3>3. CASE \E t \in Targets(e) : Start(e, t[1], t[2])
      <4>1. held' = held /\ e \notin held["senders"]
        BY <1>0, <2>0, <3>3 DEF Holding, Start
      <4>2. QED
        BY <1>0, <2>0, <3>1, <4>1 DEF Holding
    <3>4. QED
      BY <2>1, <3>2, <3>3
  <2>2. CASE ReadMembers(e)
    <3>1. e \notin held["senders"] /\ e \notin held["rooms"] /\ pc'[e] = "senders"
      BY <1>0, <2>0, <2>2 DEF Holding, ReadMembers
    <3>2. held'["senders"] = held["senders"] /\ held'["rooms"] \subseteq held["rooms"] \cup {e}
      BY <1>0, <2>2 DEF ReadMembers
    <3>3. e \in held'["rooms"] => job[e].named = 0 /\ job' = job
      BY <1>0, <2>2, <3>1 DEF ReadMembers
    <3>4. job[e].named = 0 => job[e].goal = <<>>
      BY <1>0, <2>0, DueBounds
    <3>5. \A f \in Emitters : f = e \/ pc'[f] = pc[f]
      BY <2>0, Zenon
    <3>6. held'["senders"] \subseteq {f \in Emitters : pc'[f] = "send"}
      BY <2>0, <3>1, <3>2, <3>5 DEF Holding
    <3>7. held'["rooms"] \subseteq {f \in Emitters : pc'[f] \in {"senders", "send"} /\ job'[f].goal = <<>>}
      <4>1. held["rooms"] \subseteq {f \in Emitters : pc'[f] \in {"senders", "send"} /\ job'[f].goal = <<>>}
        BY <2>0, <3>1 DEF Holding
      <4>2. e \in held'["rooms"] => job'[e].goal = <<>>
        BY <3>3, <3>4, Zenon
      <4>3. QED
        BY <1>0, <3>1, <3>2, <4>1, <4>2
    <3>8. QED
      BY <3>6, <3>7, Zenon DEF Holding
  <2>3. CASE ReadSenders(e)
    <3>1. /\ held'["rooms"] = held["rooms"] /\ held'["senders"] = held["senders"] \cup {e}
          /\ pc'[e] = "send" /\ job' = job
      BY <1>0, <2>3 DEF ReadSenders
    <3>2. \A f \in Emitters : f = e \/ pc'[f] = pc[f]
      BY <2>0, Zenon
    <3>3. QED
      BY <1>0, <2>0, <3>1, <3>2 DEF Holding
  <2>4. CASE Finish(e)
    <3>1. held'["rooms"] = held["rooms"] \ {e} /\ held'["senders"] = held["senders"] \ {e}
      BY <1>0, <2>4 DEF Finish
    <3>2. held'["senders"] \subseteq {f \in Emitters : pc'[f] = "send"}
      BY <1>0, <2>0, <3>1 DEF Holding
    <3>3. held'["rooms"] \subseteq {f \in Emitters : pc'[f] \in {"senders", "send"} /\ job'[f].goal = <<>>}
      BY <1>0, <2>0, <3>1 DEF Holding
    <3>4. QED
      BY <3>2, <3>3 DEF Holding
  <2>5. CASE \E s \in Sockets : SendTo(e, s) \/ SendFails(e, s)
    BY <2>0, <2>5 DEF SendTo, SendFails, locks
  <2>6. QED
    BY <2>1, <2>2, <2>3, <2>4, <2>5 DEF Broadcast
<1>4. QED
  BY <1>1, <1>2, <1>3 DEF Turns

LEMMA SocketTurns ==
  ASSUME TypeOK, Turns, NEW s \in Sockets, Granting(s) \/ LoopRecv(s) \/ LoopReturns(s) \/ Calls(s)
  PROVE  Turns'
<1>0. /\ pc \in [Agents -> Positions] /\ queue \in [Locks -> Seq(Agents)] /\ Lines(queue, pc) /\ s \in Agents
      /\ Emitters \cap Sockets = {} /\ "rooms" \in Locks /\ "senders" \in Locks
  BY AgentAssumption, WaitsApart DEF TypeOK, Turns, Lines, Agents
<1>1. Lines(queue', pc')
  <2>1. CASE RegisterSender(s)
    <3>1. "join" \in Waits("rooms") /\ queue["senders"] # <<>> /\ s = Head(queue["senders"])
      BY <2>1 DEF RegisterSender, MayWrite, First, Waits
    <3>2. /\ pc' = [pc EXCEPT ![s] = "join"]
          /\ queue' = [queue EXCEPT !["senders"] = Tail(@), !["rooms"] = Append(@, s)]
      BY <2>1 DEF RegisterSender
    <3>3. QED
      BY <1>0, <3>1, <3>2, LinesMove
  <2>2. CASE Join(s) \/ Leave(s)
    <3>1. queue["rooms"] # <<>> /\ s = Head(queue["rooms"])
      BY <2>2 DEF Join, Leave, MayWrite, First
    <3>2. pc' = [pc EXCEPT ![s] = "live"] /\ queue' = [queue EXCEPT !["rooms"] = Tail(@)]
      BY <2>2 DEF Join, Leave, Granted
    <3>3. Lines([queue EXCEPT !["rooms"] = Tail(@)], [pc EXCEPT ![Head(queue["rooms"])] = "live"])
      BY <1>0, <3>1, WaitsApart, LinesGrant
    <3>4. QED
      BY <3>1, <3>2, <3>3
  <2>3. CASE CleanUnregister(s)
    <3>1. queue["senders"] # <<>> /\ s = Head(queue["senders"]) /\ "gone" \in Positions \ Waiting
      BY <2>3 DEF CleanUnregister, MayWrite, First, Positions, Waiting, Waits
    <3>2. QED
      BY <1>0, <2>3, <3>1, LinesGrant DEF CleanUnregister, Granted
  <2>4. CASE CleanLeave(s)
    <3>1. /\ "leave_all" \in Waits("rooms") /\ queue["rooms"] # <<>> /\ s = Head(queue["rooms"])
          /\ pc' = pc /\ pc[s] = "leave_all"
          /\ queue' = [queue EXCEPT !["rooms"] = Append(Tail(@), s)]
      BY <2>4 DEF CleanLeave, MayWrite, First, Waits
    <3>2. pc' = [pc EXCEPT ![s] = "leave_all"]
      BY <1>0, <3>1
    <3>3. Lines([queue EXCEPT !["rooms"] = Append(Tail(@), Head(queue["rooms"]))],
                [pc EXCEPT ![Head(queue["rooms"])] = "leave_all"])
      BY <1>0, <3>1, LinesMove
    <3>4. QED
      BY <3>1, <3>2, <3>3
  <2>5. CASE CleanLeaveAll(s)
    <3>1. "unregister" \in Waits("senders") /\ queue["rooms"] # <<>> /\ s = Head(queue["rooms"])
      BY <2>5 DEF CleanLeaveAll, MayWrite, First, Waits
    <3>2. /\ pc' = [pc EXCEPT ![s] = "unregister"]
          /\ queue' = [queue EXCEPT !["rooms"] = Tail(@), !["senders"] = Append(@, s)]
      BY <2>5 DEF CleanLeaveAll
    <3>3. QED
      BY <1>0, <3>1, <3>2, LinesMove
  <2>6. CASE Connect(s)
    <3>1. pc[s] \notin Waiting /\ "register" \in Waits("senders")
      BY <2>6 DEF Connect, Work, Waiting, Waits
    <3>2. QED
      BY <1>0, <2>6, <3>1, LinesAsk DEF Connect, Work, Ask
  <2>7. CASE Close(s) \/ Timeout(s) \/ \E r \in Rooms : AskJoin(s, r) \/ AskLeave(s, r)
    <3>1. pc[s] \notin Waiting /\ {"leave_all", "join", "leave"} \subseteq Waits("rooms")
      BY <2>7 DEF Close, Timeout, AskJoin, AskLeave, Work, Waiting, Waits
    <3>2. \E v \in Waits("rooms") : pc' = [pc EXCEPT ![s] = v] /\ queue' = [queue EXCEPT !["rooms"] = Append(@, s)]
      BY <2>7, <3>1 DEF Close, Timeout, AskJoin, AskLeave, Work, Ask
    <3>3. PICK v \in Waits("rooms") : pc' = [pc EXCEPT ![s] = v] /\ queue' = [queue EXCEPT !["rooms"] = Append(@, s)]
      BY <3>2
    <3>4. Lines([queue EXCEPT !["rooms"] = Append(@, s)], [pc EXCEPT ![s] = v])
      BY <1>0, <3>1, LinesAsk
    <3>5. QED
      BY <3>3, <3>4
  <2>8. CASE LoopRecv(s) \/ LoopReturns(s) \/ LoopPing(s) \/ SessionRemoved(s)
    BY <1>0, <2>8 DEF LoopRecv, LoopReturns, LoopPing, SessionRemoved, locks
  <2>9. QED
    BY <2>1, <2>2, <2>3, <2>4, <2>5, <2>6, <2>7, <2>8 DEF Granting, Calls
<1>2. \E v \in {"new", "register", "join", "leave", "live", "leave_all", "unregister", "gone"} :
        pc' = pc \/ pc' = [pc EXCEPT ![s] = v]
  BY DEF Granting, Calls, Connect, RegisterSender, Join, Leave, AskJoin, AskLeave, Close, Timeout, CleanLeave,
     CleanLeaveAll, CleanUnregister, LoopRecv, LoopPing, SessionRemoved, LoopReturns, Work
<1>3. Kinds(pc) /\ Holding(held, pc, job)
  BY DEF Turns
<1>4. Kinds(pc')
  BY <1>0, <1>2, <1>3 DEF Kinds, Agents
<1>5. held' = held /\ job' = job
  BY DEF Granting, Calls, Connect, RegisterSender, Join, Leave, AskJoin, AskLeave, Close, Timeout, CleanLeave,
     CleanLeaveAll, CleanUnregister, LoopRecv, LoopPing, SessionRemoved, LoopReturns, Work, locks, emitting
<1>6. Holding(held', pc', job')
  BY <1>0, <1>2, <1>3, <1>5 DEF Holding, Agents
<1>7. QED
  BY <1>1, <1>4, <1>6 DEF Turns

LEMMA TurnsStep ==
  ASSUME TypeOK, RoomLeft, Turns, [Next]_vars
  PROVE  Turns'
<1>1. CASE UNCHANGED vars
  BY <1>1 DEF vars, locks, emitting, Turns
<1>2. QED
  BY <1>1, BroadcastTurns, SocketTurns DEF Next, Server

\* The line for the senders moves when nobody sends, the line for the rooms when
\* nobody waits for the senders either.
LEMMA TurnsSuffice ==
  ASSUME TypeOK, Turns
  PROVE  NoCircle
<1> SUFFICES ASSUME Busy, ~Blocked PROVE MayGoOn
  BY DEF NoCircle
<1>0. /\ chan \in [Sockets -> 0..Cap] /\ Cap \in Nat /\ Cap # 0 /\ todo \in [Emitters -> SUBSET Sockets]
      /\ loop \in [Sockets -> {"recv", "ping", "cleanup", "done"}] /\ pc \in [Agents -> Positions]
      /\ Lines(queue, pc) /\ Holding(held, pc, job) /\ Kinds(pc) /\ Emitters \cap Sockets = {}
      /\ held \in [Locks -> SUBSET Emitters]
  BY CapAssumption, AgentAssumption DEF TypeOK, Turns, Agents
<1>1. ASSUME NEW e \in Emitters, pc[e] = "send"
      PROVE  MayGoOn
  <2>1. CASE \A s \in todo[e] : loop[s] = "done" \/ chan[s] < Cap
    BY <1>1, <2>1 DEF MayGoOn
  <2>2. ASSUME NEW s \in todo[e], loop[s] # "done", ~(chan[s] < Cap)
        PROVE  MayGoOn
    <3>1. s \in Sockets /\ chan[s] = Cap /\ chan[s] > 0
      BY <1>0, <2>2
    <3>2. loop[s] \notin {"ping", "cleanup"}
      BY <1>1, <2>2, <3>1 DEF Blocked
    <3>3. loop[s] = "recv"
      BY <1>0, <2>2, <3>1, <3>2
    <3>4. QED
      BY <3>1, <3>3 DEF MayGoOn
  <2>3. QED
    BY <2>1, <2>2
<1>2. ASSUME NEW l \in Locks, NEW a \in Agents, pc[a] \in Waits(l)
      PROVE  queue[l] # <<>> /\ Head(queue[l]) \in Agents /\ pc[Head(queue[l])] \in Waits(l)
  <2>1. Lined(queue[l], pc, Waits(l))
    BY <1>0 DEF Lines
  <2>2. \E i \in DOMAIN queue[l] : queue[l][i] = a
    BY <1>2, <2>1 DEF Lined
  <2>3. queue[l] \in Seq(Agents) /\ queue[l] # <<>>
    BY <2>1, <2>2 DEF Lined
  <2>4. QED
    BY <1>0, <2>3, WaitsApart, LinesGrant
<1>3. ASSUME \A e \in Emitters : pc[e] # "send", NEW a \in Agents, pc[a] \in Waits("senders")
      PROVE  MayGoOn
  <2> DEFINE b == Head(queue["senders"])
  <2>1. queue["senders"] # <<>> /\ b \in Agents /\ pc[b] \in Waits("senders")
    BY <1>2, <1>3, WaitsApart
  <2>2. held["senders"] = {}
    BY <1>0, <1>3, WaitsApart DEF Holding
  <2> HIDE DEF b
  <2>3. CASE b \in Emitters
    <3>1. pc[b] = "senders"
      BY <1>0, <2>1, <2>3 DEF Kinds, Waits
    <3>2. QED
      BY <2>1, <2>3, <3>1 DEF MayGoOn, First, b
  <2>4. CASE b \in Sockets
    <3>1. pc[b] \in {"register", "unregister"}
      BY <1>0, <2>1, <2>4 DEF Kinds, Waits
    <3>2. QED
      BY <2>1, <2>2, <2>4, <3>1 DEF MayGoOn, MayWrite, First, b
  <2>5. QED
    BY <2>1, <2>3, <2>4 DEF Agents
<1>4. ASSUME \A e \in Emitters : pc[e] # "send", \A a \in Agents : pc[a] \notin Waits("senders"),
             NEW a \in Agents, pc[a] \in Waits("rooms")
      PROVE  MayGoOn
  <2> DEFINE b == Head(queue["rooms"])
  <2>1. queue["rooms"] # <<>> /\ b \in Agents /\ pc[b] \in Waits("rooms")
    BY <1>2, <1>4, WaitsApart
  <2>2. held["rooms"] = {}
    BY <1>0, <1>4, WaitsApart DEF Holding, Waits, Agents
  <2> HIDE DEF b
  <2>3. CASE b \in Emitters
    <3>1. pc[b] = "members"
      BY <1>0, <2>1, <2>3 DEF Kinds, Waits
    <3>2. QED
      BY <2>1, <2>3, <3>1 DEF MayGoOn, First, b
  <2>4. CASE b \in Sockets
    <3>1. pc[b] \in {"join", "leave", "leave_all"}
      BY <1>0, <2>1, <2>4 DEF Kinds, Waits
    <3>2. QED
      BY <2>1, <2>2, <2>4, <3>1 DEF MayGoOn, MayWrite, First, b
  <2>5. QED
    BY <2>1, <2>3, <2>4 DEF Agents
<1>5. \/ \E e \in Emitters : pc[e] = "send"
      \/ \E a \in Agents : pc[a] \in Waits("senders")
      \/ \E a \in Agents : pc[a] \in Waits("rooms")
  BY <1>0 DEF Busy, Kinds, Waits, Agents
<1>6. QED
  BY <1>1, <1>3, <1>4, <1>5

-----------------------------------------------------------------------------
(* The theorems. *)

IInv == TypeOK /\ RoomGiven /\ Emissions

LEMMA Inductive == Spec => []IInv
<1>1. Init => IInv
  BY InitTyped, InitRooms, InitEmissions DEF IInv
<1>2. IInv /\ [Next]_vars => IInv'
  BY TypedStep, RoomsStep, EmissionsStep, EmissionsRoomLeft DEF IInv
<1>3. QED
  BY <1>1, <1>2, PTL DEF Spec

\* The maps of the RoomManager, its locks and the channels of the sessions are
\* well formed in every run; no channel has more packets than its capacity
\* (room.rs:26-31, engine_io.rs:179).
THEOREM TypeInvariant == Spec => []TypeOK
BY Inductive, PTL DEF IInv

\* However many rooms a socket is in and however they change meanwhile, a
\* broadcast sends it one packet, or one for each room named (room.rs:127-192).
THEOREM CopiesBounded == Spec => []NoDuplicates
<1>1. IInv => NoDuplicates
  BY DEF IInv, Emissions, Emission, Sound, Due, NoDuplicates
<1>2. QED
  BY <1>1, Inductive, PTL

\* Who was a member all the time, in one and the same of the rooms named, with a
\* session that receives, has been sent the packet when the broadcast ends, whoever
\* else came and went and however many rooms it names (room.rs:127-192,
\* socket.rs:199-205).
THEOREM SteadyMembersServed == Spec => ReachesSteady
<1>1. IInv /\ [Next]_vars =>
        \A e \in Emitters : pc[e] = "send" /\ pc'[e] = "idle" =>
          owed[e] = {}
  <2> SUFFICES ASSUME IInv, [Next]_vars, NEW e \in Emitters, pc[e] = "send", pc'[e] = "idle"
               PROVE  owed[e] = {}
    OBVIOUS
  <2>0. pc \in [Emitters \cup Sockets -> Positions] /\ Emitters \cap Sockets = {}
    BY AgentAssumption DEF IInv, TypeOK
  <2>1. todo[e] = {} /\ job[e].goal = <<>>
    <3>1. ASSUME NEW f \in Emitters, Broadcast(f) \/ \E t \in Targets(f) : Start(f, t[1], t[2])
          PROVE  Finish(e)
      <4>1. CASE f = e
        BY <2>0, <3>1, <4>1 DEF Broadcast, Start, ReadMembers, ReadSenders, SendTo, SendFails, NextRoom
      <4>2. CASE f # e
        <5>1. pc' = pc \/ \E p : pc' = [pc EXCEPT ![f] = p]
          BY <3>1 DEF Broadcast, Start, ReadMembers, ReadSenders, SendTo, SendFails, NextRoom, Finish
        <5>2. QED
          BY <2>0, <4>2, <5>1
      <4>3. QED
        BY <4>1, <4>2
    <3>2. ASSUME NEW s \in Sockets, Granting(s) \/ LoopRecv(s) \/ LoopReturns(s) \/ Calls(s)
          PROVE  FALSE
      BY <2>0, <3>2 DEF Granting, Calls, Connect, RegisterSender, Join, Leave, AskJoin, AskLeave, Close, Timeout,
         CleanLeave, CleanLeaveAll, CleanUnregister, LoopRecv, LoopPing, SessionRemoved, LoopReturns, Work,
         emitting, delivery, locks
    <3>3. Finish(e)
      BY <3>1, <3>2 DEF Next, Server, vars
    <3>4. QED
      BY <3>3 DEF Finish
  <2>2. Sound("send", job[e], {}, copies[e], owed[e])
    BY <2>1 DEF IInv, Emissions, Emission
  <2>3. \A r : ~ToCome("send", job[e], r)
    BY <2>1 DEF ToCome
  <2>4. QED
    BY <2>2, <2>3 DEF Sound
<1>2. QED
  BY <1>1, Inductive, PTL DEF Spec, ReachesSteady

\* Broadcasts, joins, leaves and cleanups never wait for each other in a circle:
\* whatever the number of tasks, sockets and rooms and the order in which they
\* queue for the two locks, while anything is under way somebody need not wait,
\* unless a broadcast waits for the channel of a session loop that waits with a
\* ping for the same channel or is in its own cleanup (room.rs:127-192,
\* handler.rs:476-489).
THEOREM NoCircularWait == Spec => []NoCircle
<1>1. IInv /\ Turns /\ [Next]_vars => Turns'
  BY TurnsStep, EmissionsRoomLeft DEF IInv
<1>2. IInv /\ Turns => NoCircle
  BY TurnsSuffice DEF IInv
<1>3. QED
  BY <1>1, <1>2, InitTurns, Inductive, PTL DEF Spec

=============================================================================
