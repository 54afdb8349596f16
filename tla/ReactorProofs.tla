---------------------------- MODULE ReactorProofs ----------------------------
(***************************************************************************)
(* Proofs about Reactor for any number of workers, clients and descriptors *)
(* and any sizes, in this order: its variables keep their types, no        *)
(* wake-up is lost, map and poll table agree and no task dangles, no       *)
(* callback blocks, what is accepted stays held, the task lists are        *)
(* bounded, and Reactor implements ConnService.                            *)
(***************************************************************************)
EXTENDS Reactor, PollDispatcherProofs, FiniteSetTheorems

(* Besides the types: a task, or a map entry, names a connection that was  *)
(* given a real descriptor; only accept's failure makes a task without.    *)
TaskOK(task) == /\ task.type = "DELETE" => task.chan \in Conn
                /\ task.chan \in Conn   => fdOf[task.chan] \in ConnFd

TasksOK == /\ \A t \in Loop : TaskOK(arg[t].task)
           /\ \A l \in Loop : \A i \in DOMAIN queue[l] : TaskOK(queue[l][i])

MapOK == \A l \in Loop, f \in ConnFd :
           list[l][f] \in Conn => fdOf[list[l][f]] \in ConnFd

TypeInv == TypeOK /\ TasksOK /\ MapOK

(* The facts about the constants that the steps below use. *)
LEMMA ConstantFacts ==
  /\ 0 \in Loop /\ Loop \subseteq Nat
  /\ ThreadNum \in Nat
  /\ 0 \in Slot /\ Slot \subseteq 0 .. MAX /\ Slot \subseteq Nat /\ 0 \in 0 .. MAX
  /\ \A i \in Slot : i + 1 \in 0 .. MAX
  /\ WakeFd \in Fd /\ ListenFd \in Fd /\ WakeFd \notin ConnFd /\ WakeFd # NoFd
  /\ ConnFd \subseteq Fd /\ NoFd \notin ConnFd
  /\ {"in"} \in SUBSET Event
  /\ 0 \in 0 .. PairCap
  /\ PairCap \in Nat /\ WakeLen \in Nat \ {0} /\ LocalBuf \in Nat \ {0}
BY PollAssumption, ReactorAssumption DEF Loop, Slot, ConnFd, Event

(* What one thread's turn at the table moves at to. *)
LEMMA CurrentInSlot ==
  ASSUME TypeOK, NEW t \in Loop, Active(t) # {}
  PROVE  Current(t) \in Slot /\ Resume(t) \in [Loop -> 0 .. MAX]
<1>1. Active(t) \in SUBSET Slot /\ Active(t) \in SUBSET Nat
  BY ConstantFacts DEF Active, ReadActive
<1>2. Current(t) \in Slot
  BY <1>1, MinIsFirst DEF Current
<1> QED BY <1>2, ConstantFacts DEF Resume, TypeOK

(* The worker chosen for a connection is a loop, and so is the next index. *)
LEMMA TakenIsLoop ==
  ASSUME TypeOK
  PROVE  /\ Taken \in Loop
         /\ takeWorkerEventLoop => next' \in Loop /\ (ThreadNum > 0 => next' < ThreadNum)
<1>1. ThreadNum \in Nat /\ next \in 0 .. ThreadNum /\ (ThreadNum > 0 => next < ThreadNum)
  BY ConstantFacts DEF TypeOK, Loop
<1>2. CASE ThreadNum = 0
  BY <1>1, <1>2, ConstantFacts DEF Taken, takeWorkerEventLoop, Loop
<1>3. CASE ThreadNum > 0
  <2>1. next + 1 \in 0 .. ThreadNum
    BY <1>1, <1>3
  <2>2. (next + 1) % ThreadNum \in 0 .. ThreadNum - 1
    BY <1>1, <1>3
  <2> QED BY <1>1, <1>3, <2>1, <2>2 DEF Taken, takeWorkerEventLoop, Loop
<1> QED BY <1>1, <1>2, <1>3
-----------------------------------------------------------------------------
LEMMA StartTableType ==
  ASSUME NEW l \in Loop
  PROVE  StartTable(l) \in PollData
<1>1. pollInit \in PollData
  BY ConstantFacts DEF pollInit, PollData
<1>2. pollAdd(pollInit, WakeFd, {"in"}) \in PollData
  BY <1>1, ConstantFacts, PollAdd
<1>3. pollAdd(pollAdd(pollInit, WakeFd, {"in"}), ListenFd, {"in"}) \in PollData
  BY <1>2, ConstantFacts, PollAdd
<1> QED BY <1>2, <1>3 DEF StartTable

LEMMA InitTypeInv == Init => TypeInv
<1> SUFFICES ASSUME Init PROVE TypeInv
  OBVIOUS
<1>1. NoArg \in [loop : Loop, task : Task] /\ TaskOK(NoArg.task)
  BY ConstantFacts, ReactorAssumption DEF NoArg, Task, Chan, TaskOK
<1>2. poll \in [Loop -> PollData]
  BY StartTableType DEF Init
<1>3. TypeOK
  BY <1>1, <1>2, ConstantFacts DEF Init, TypeOK, PC, AllKinds
<1>4. TasksOK
  BY <1>1 DEF Init, TasksOK
<1>5. MapOK
  BY ReactorAssumption DEF Init, MapOK
<1> QED BY <1>3, <1>4, <1>5 DEF TypeInv

(* poll(2) makes a table of a table. *)
LEMMA PollReturnsType ==
  ASSUME TypeOK, NEW t \in Loop, PollReturns(t)
  PROVE  /\ pc[t] = "poll" /\ pc' = [pc EXCEPT ![t] = "scan"]
         /\ UNCHANGED <<arg, queue, pair>>
         /\ poll' \in [Loop -> PollData]
         /\ \A l \in Loop : /\ poll'[l].fd = poll[l].fd
                            /\ poll'[l].events = poll[l].events
                            /\ poll'[l].maxfd = poll[l].maxfd
<1> DEFINE d == poll[t]
           rev == [i \in Slot |->
                     IF i > d.maxfd THEN d.revents[i]
                     ELSE IF d.fd[i] = NoFd THEN {}
                     ELSE {e \in d.events[i] : Holds(t, d.fd[i], e)}]
<1>1. d \in PollData
  BY DEF TypeOK
<1>2. poll' = [poll EXCEPT ![t] = [d EXCEPT !.revents = rev]]
  BY DEF PollReturns, pollWait, TypeOK
<1>3. rev \in [Slot -> SUBSET Event]
  BY <1>1 DEF PollData
<1> HIDE DEF rev
<1>4. d = [maxfd |-> d.maxfd, fd |-> d.fd, events |-> d.events, revents |-> d.revents]
  BY <1>1 DEF PollData
<1>5. [d EXCEPT !.revents = rev]
        = [maxfd |-> d.maxfd, fd |-> d.fd, events |-> d.events, revents |-> rev]
  BY <1>4
<1>6. [d EXCEPT !.revents = rev] \in PollData
  BY <1>1, <1>3, <1>5 DEF PollData
<1>7. pc[t] = "poll" /\ pc' = [pc EXCEPT ![t] = "scan"] /\ UNCHANGED <<arg, queue, pair>>
  BY DEF PollReturns, pollWait, Goto
<1> QED BY <1>2, <1>5, <1>6, <1>7 DEF TypeOK

(* The task at the head of a list is one of the list's. *)
LEMMA HeadTaskOK ==
  ASSUME TypeInv, NEW t \in Loop, queue[t] # <<>>
  PROVE  Head(queue[t]) \in Task /\ TaskOK(Head(queue[t]))
<1>1. queue[t] \in Seq(Task)
  BY DEF TypeInv, TypeOK
<1>2. Head(queue[t]) = queue[t][1] /\ 1 \in DOMAIN queue[t]
  BY <1>1
<1> QED BY <1>1, <1>2 DEF TypeInv, TasksOK

(* Every step of the specification keeps TypeInv: a proof step per action. *)
LEMMA NextTypeInv == TypeInv /\ [Next]_vars => TypeInv'
<1> SUFFICES ASSUME TypeInv, [Next]_vars PROVE TypeInv'
  OBVIOUS
<1> USE DEF TypeInv
<1>1. CASE UNCHANGED vars
  BY <1>1 DEF vars, TypeOK, TasksOK, TaskOK, MapOK
<1>2. ASSUME NEW c \in Conn, Connect(c) PROVE TypeInv'
  BY <1>2 DEF Connect, TypeOK, TasksOK, TaskOK, MapOK
<1>3. ASSUME NEW c \in Conn, NEW kind \in RequestKind, Send(c, kind) PROVE TypeInv'
  BY <1>3, ReactorAssumption DEF Send, TypeOK, TasksOK, TaskOK, MapOK
<1>4. ASSUME NEW t \in Loop, PollReturns(t) PROVE TypeInv'
  <2>1. poll' \in [Loop -> PollData]
    BY <1>4, PollReturnsType
  <2> QED
    BY <1>4, <2>1, ConstantFacts DEF PollReturns, Goto, PC, connVars, TypeOK, TasksOK, TaskOK, MapOK
<1>5. ASSUME NEW t \in Loop, readLocalMessage(t) PROVE TypeInv'
  <2>1. UnreadAfterRead(t) \in 0 .. PairCap
    BY ConstantFacts, SMTT(30) DEF UnreadAfterRead, TypeOK
  <2>2. Resume(t) \in [Loop -> 0 .. MAX]
    BY <1>5, CurrentInSlot DEF readLocalMessage
  <2> QED
    BY <1>5, <2>1, <2>2 DEF readLocalMessage, connVars, TypeOK, TasksOK, TaskOK, MapOK
<1>6. ASSUME NEW t \in Loop, NEW c \in Conn, NEW f \in ConnFd, acceptConnection(t, c, f)
      PROVE  TypeInv'
  <2> DEFINE a == [loop |-> Taken, task |-> [type |-> "ADD", chan |-> c]]
  <2>1. Taken \in Loop /\ next' \in Loop /\ (ThreadNum > 0 => next' < ThreadNum)
    BY <1>6, TakenIsLoop DEF acceptConnection
  <2>2. Resume(t) \in [Loop -> 0 .. MAX]
    BY <1>6, CurrentInSlot DEF acceptConnection
  <2>3. a \in [loop : Loop, task : Task]
    BY <2>1 DEF Task, Chan
  <2>4. TypeOK'
    BY <1>6, <2>1, <2>2, <2>3 DEF acceptConnection, Goto, PC, TypeOK
  <2>5. TasksOK'
    <3>1. \A e \in Conn : fdOf[e] \in ConnFd => fdOf'[e] \in ConnFd
      BY <1>6 DEF acceptConnection, TypeOK
    <3>2. fdOf'[c] \in ConnFd
      BY <1>6 DEF acceptConnection, TypeOK
    <3>3. \A u \in Loop : TaskOK(arg[u].task)'
      BY <1>6, <3>1, <3>2 DEF acceptConnection, TypeOK, TasksOK, TaskOK, MapOK
    <3>4. \A l \in Loop : \A i \in DOMAIN queue'[l] : TaskOK(queue[l][i])'
      BY <1>6, <3>1 DEF acceptConnection, TasksOK, TaskOK, MapOK
    <3> QED BY <3>3, <3>4 DEF TasksOK
  <2>6. MapOK'
    <3>1. \A e \in Conn : fdOf[e] \in ConnFd => fdOf'[e] \in ConnFd
      BY <1>6 DEF acceptConnection, TypeOK
    <3> QED BY <1>6, <3>1 DEF acceptConnection, MapOK
  <2> QED BY <2>4, <2>5, <2>6
<1>7. ASSUME NEW t \in Loop, acceptFails(t) PROVE TypeInv'
  <2> DEFINE a == [loop |-> Taken, task |-> [type |-> "ADD", chan |-> BadConn]]
  <2>1. Taken \in Loop /\ next' \in Loop /\ (ThreadNum > 0 => next' < ThreadNum)
    BY <1>7, TakenIsLoop DEF acceptFails
  <2>2. Resume(t) \in [Loop -> 0 .. MAX]
    BY <1>7, CurrentInSlot DEF acceptFails
  <2>3. a \in [loop : Loop, task : Task]
    BY <2>1 DEF Task, Chan
  <2>4. TypeOK'
    BY <1>7, <2>1, <2>2, <2>3 DEF acceptFails, Goto, PC, connVars, TypeOK
  <2>5. TasksOK'
    BY <1>7, ReactorAssumption DEF acceptFails, connVars, TypeOK, TasksOK, TaskOK
  <2>6. MapOK'
    BY <1>7 DEF acceptFails, connVars, MapOK
  <2> QED BY <2>4, <2>5, <2>6
<1>8. ASSUME NEW t \in Loop, processRead(t) PROVE TypeInv'
  <2> DEFINE c == list[t][CurrentFd(t)]
             a == [loop |-> home[c], task |-> [type |-> "DELETE", chan |-> c]]
  <2>1. c \in Conn
    BY <1>8 DEF processRead
  <2>2. Resume(t) \in [Loop -> 0 .. MAX]
    BY <1>8, CurrentInSlot DEF processRead
  <2>3. a \in [loop : Loop, task : Task]
    BY <2>1 DEF Task, Chan, TypeOK
  <2>4. left' \in [Conn -> SUBSET {"read", "write"}]
    <3>1. inbox[c] \in AllKinds \ {"unread"}
      BY <1>8, <2>1 DEF processRead, TypeOK
    <3>2. LeftBy[inbox[c]] \in SUBSET {"read", "write"}
      BY <3>1 DEF LeftBy, AllKinds
    <3> QED BY <1>8, <2>1, <3>2 DEF processRead, TypeOK
  <2>5. inbox' \in [Conn -> AllKinds \cup {"none"}]
    BY <1>8, <2>1 DEF processRead, TypeOK
  <2>6. TypeOK'
    BY <1>8, <2>2, <2>3, <2>4, <2>5 DEF processRead, Goto, PC, TypeOK
  <2>7. fdOf[c] \in ConnFd
    BY <1>8, <2>1 DEF processRead, MapOK
  <2>8. TasksOK'
    BY <1>8, <2>1, <2>7 DEF processRead, TypeOK, TasksOK, TaskOK
  <2>9. MapOK'
    BY <1>8 DEF processRead, MapOK
  <2> QED BY <2>6, <2>8, <2>9
<1>9. ASSUME NEW t \in Loop, eventLoopAddTask(t) PROVE TypeInv'
  <2> DEFINE k == arg[t].loop
  <2>1. k \in Loop /\ arg[t].task \in Task /\ TaskOK(arg[t].task)
    BY DEF TypeOK, TasksOK
  <2>2. queue' = [queue EXCEPT ![k] = Append(@, arg[t].task)]
    BY <1>9 DEF eventLoopAddTask, Enqueue
  <2>3. queue' \in [Loop -> Seq(Task)]
    BY <2>1, <2>2 DEF TypeOK
  <2>4. TypeOK'
    BY <1>9, <2>3 DEF eventLoopAddTask, Enqueue, Goto, PC, connVars, TypeOK
  <2>5. \A l \in Loop : \A i \in DOMAIN queue'[l] :
          queue'[l][i] = arg[t].task \/ (i \in DOMAIN queue[l] /\ queue'[l][i] = queue[l][i])
    BY <2>1, <2>2 DEF TypeOK
  <2>6. TasksOK'
    BY <1>9, <2>1, <2>5 DEF eventLoopAddTask, Enqueue, connVars, TasksOK, TaskOK
  <2>7. MapOK'
    BY <1>9 DEF eventLoopAddTask, Enqueue, connVars, MapOK
  <2> QED BY <2>4, <2>6, <2>7
<1>10. ASSUME NEW t \in Loop, taskWakeup(t) PROVE TypeInv'
  <2>1. pair[arg[t].loop] + WakeLen \in 0 .. PairCap
    <3>1. arg[t].loop \in Loop
      BY DEF TypeOK
    <3>2. pair[arg[t].loop] \in 0 .. PairCap
      BY <3>1 DEF TypeOK
    <3>3. pair[arg[t].loop] + WakeLen <= PairCap
      BY <1>10 DEF taskWakeup
    <3> QED BY <3>2, <3>3, ConstantFacts
  <2>2. pair' \in [Loop -> 0 .. PairCap] /\ pc' \in [Loop -> PC]
    BY <1>10, <2>1 DEF taskWakeup, Goto, PC, TypeOK
  <2> QED
    BY <1>10, <2>2 DEF taskWakeup, connVars, TypeOK, TasksOK, TaskOK, MapOK
<1>11. ASSUME NEW t \in Loop, LockTasks(t) PROVE TypeInv'
  <2>1. pc' \in [Loop -> PC]
    BY <1>11, ZenonT(30) DEF LockTasks, Goto, PC, TypeOK
  <2>2. UNCHANGED <<at, arg, poll, list, queue, pair, next, connVars>>
    BY <1>11 DEF LockTasks
  <2> QED
    BY <2>1, <2>2 DEF connVars, TypeOK, TasksOK, TaskOK, MapOK
<1>12. ASSUME NEW t \in Loop, eventLoopAdd(t) PROVE TypeInv'
  <2> DEFINE c == Head(queue[t]).chan
  <2>1. queue[t] \in Seq(Task) /\ queue[t] # <<>>
    BY <1>12 DEF eventLoopAdd, HasTask, TypeOK
  <2>2. Head(queue[t]) \in Task /\ TaskOK(Head(queue[t]))
    BY <2>1, HeadTaskOK
  <2>3. queue' \in [Loop -> Seq(Task)]
    BY <1>12, <2>1 DEF eventLoopAdd, Dequeue, TypeOK
  <2>4. \A l \in Loop : \A i \in DOMAIN queue'[l] :
          \E j \in DOMAIN queue[l] : queue'[l][i] = queue[l][j]
    <3>1. \A i \in DOMAIN Tail(queue[t]) : /\ i + 1 \in DOMAIN queue[t]
                                          /\ Tail(queue[t])[i] = queue[t][i + 1]
      BY <2>1
    <3> QED BY <1>12, <3>1 DEF eventLoopAdd, Dequeue, TypeOK
  <2>5. TasksOK'
    BY <1>12, <2>4 DEF eventLoopAdd, connVars, TasksOK, TaskOK
  <2>6. poll' \in [Loop -> PollData] /\ list' \in [Loop -> [ConnFd -> Conn \cup {NULL}]] /\ MapOK'
    <3>1. CASE c \in Conn /\ list[t][fdOf[c]] = NULL
      <4>1. fdOf[c] \in ConnFd /\ fdOf[c] \in Fd
        BY <2>2, <3>1, ConstantFacts DEF TaskOK
      <4>2. /\ list' = [list EXCEPT ![t][fdOf[c]] = c]
            /\ poll' = [poll EXCEPT ![t] = pollAdd(@, fdOf[c], {"in"})]
        BY <1>12, <3>1 DEF eventLoopAdd
      <4>3. pollAdd(poll[t], fdOf[c], {"in"}) \in PollData
        BY <4>1, PollAdd, ConstantFacts DEF TypeOK
      <4>4. poll' \in [Loop -> PollData]
        BY <4>2, <4>3 DEF TypeOK
      <4>5. list' \in [Loop -> [ConnFd -> Conn \cup {NULL}]]
        BY <3>1, <4>1, <4>2 DEF TypeOK
      <4>6. MapOK'
        BY <1>12, <3>1, <4>1, <4>2 DEF eventLoopAdd, connVars, TypeOK, MapOK
      <4> QED BY <4>4, <4>5, <4>6
    <3>2. CASE ~(c \in Conn /\ list[t][fdOf[c]] = NULL)
      BY <1>12, <3>2 DEF eventLoopAdd, connVars, TypeOK, MapOK
    <3> QED BY <3>1, <3>2
  <2>7. TypeOK'
    BY <1>12, <2>3, <2>6 DEF eventLoopAdd, connVars, TypeOK
  <2> QED BY <2>5, <2>6, <2>7
<1>13. ASSUME NEW t \in Loop, eventLoopRemove(t) PROVE TypeInv'
  <2> DEFINE c == Head(queue[t]).chan
  <2>1. queue[t] \in Seq(Task) /\ queue[t] # <<>>
    BY <1>13 DEF eventLoopRemove, HasTask, TypeOK
  <2>2. Head(queue[t]) \in Task /\ TaskOK(Head(queue[t]))
    BY <2>1, HeadTaskOK
  <2>3. queue' \in [Loop -> Seq(Task)]
    BY <1>13, <2>1 DEF eventLoopRemove, Dequeue, TypeOK
  <2>4. \A l \in Loop : \A i \in DOMAIN queue'[l] :
          \E j \in DOMAIN queue[l] : queue'[l][i] = queue[l][j]
    <3>1. \A i \in DOMAIN Tail(queue[t]) : /\ i + 1 \in DOMAIN queue[t]
                                          /\ Tail(queue[t])[i] = queue[t][i + 1]
      BY <2>1
    <3> QED BY <1>13, <3>1 DEF eventLoopRemove, Dequeue, TypeOK
  <2>5. TasksOK'
    BY <1>13, <2>4 DEF eventLoopRemove, connVars, TasksOK, TaskOK
  <2>6. c \in Conn /\ fdOf[c] \in ConnFd
    BY <1>13, <2>2 DEF eventLoopRemove, HasTask, TaskOK
  <2>7. poll' \in [Loop -> PollData]
    <3>1. pollRemove(poll[t], fdOf[c]) \in PollData
      BY PollRemove DEF TypeOK
    <3> QED BY <1>13, <3>1 DEF eventLoopRemove, TypeOK
  <2>8. /\ list' \in [Loop -> [ConnFd -> Conn \cup {NULL}]]
        /\ state' \in [Conn -> {"idle", "backlog", "open", "freed"}]
        /\ MapOK'
    <3>1. CASE left[c] = {}
      <4>1. /\ list'  = [list EXCEPT ![home[c]][fdOf[c]] = NULL]
            /\ state' = [state EXCEPT ![c] = "freed"]
        BY <1>13, <3>1 DEF eventLoopRemove, tcpConnectionDestory, destoryChannel
      <4>2. \A l \in Loop, f \in ConnFd : list'[l][f] \in {NULL, list[l][f]}
        BY <2>6, <4>1 DEF TypeOK
      <4>3. list' \in [Loop -> [ConnFd -> Conn \cup {NULL}]]
        BY <2>6, <4>1 DEF TypeOK
      <4>4. state' \in [Conn -> {"idle", "backlog", "open", "freed"}]
        BY <4>1 DEF TypeOK
      <4>5. fdOf' = fdOf
        BY <1>13 DEF eventLoopRemove
      <4>6. MapOK'
        BY <4>2, <4>5, ReactorAssumption DEF MapOK
      <4> QED BY <4>3, <4>4, <4>6
    <3>2. CASE left[c] # {}
      BY <1>13, <3>2 DEF eventLoopRemove, tcpConnectionDestory, TypeOK, MapOK
    <3> QED BY <3>1, <3>2
  <2>9. TypeOK'
    BY <1>13, <2>3, <2>7, <2>8 DEF eventLoopRemove, TypeOK
  <2> QED BY <2>5, <2>8, <2>9
<1>14. ASSUME NEW t \in Loop, UnlockTasks(t) PROVE TypeInv'
  BY <1>14 DEF UnlockTasks, Goto, PC, connVars, TypeOK, TasksOK, TaskOK, MapOK
<1>15. ASSUME NEW t \in Loop, tcpConnectionInitReturns(t) PROVE TypeInv'
  BY <1>15 DEF tcpConnectionInitReturns, Goto, PC, connVars, TypeOK, TasksOK, TaskOK, MapOK
<1> QED
  BY <1>1, <1>2, <1>3, <1>4, <1>5, <1>6, <1>7, <1>8, <1>9, <1>10, <1>11, <1>12, <1>13,
     <1>14, <1>15 DEF Next, Clients, Step

(* Every variable keeps the type TypeOK gives it.  In particular the        *)
(* round-robin index stays below the number of workers, a pair never holds  *)
(* more than its capacity, and pollDispatcher's index never leaves its table *)
(* (EventLoop.c, TcpServer.c, TcpConnection.c, ThreadPool.c:44-55).         *)
THEOREM TypeCorrect == Spec => []TypeOK
<1>1. Init => TypeInv
  BY InitTypeInv
<1>2. TypeInv /\ [Next]_vars => TypeInv'
  BY NextTypeInv
<1>3. TypeInv => TypeOK
  BY DEF TypeInv
<1> QED BY <1>1, <1>2, <1>3, PTL DEF Spec
-----------------------------------------------------------------------------
(***************************************************************************)
(* No lost wake-up.  The strengthening: entry 0 of a loop's table watches   *)
(* the loop's own pair for ever (its descriptor is no connection's, so no   *)
(* pollRemove clears it), and while a loop in poll(2) has tasks, the pair   *)
(* is not empty or a thread stands between its append and its write.        *)
(***************************************************************************)
WakeWatched == \A l \in Loop : poll[l].fd[0] = WakeFd /\ "in" \in poll[l].events[0]

Announced(l) == pair[l] > 0 \/ \E t \in Loop : pc[t] = "wake" /\ arg[t].loop = l

WakeupInv ==
  /\ TypeInv
  /\ WakeWatched
  /\ \A l \in Loop : queue[l] # <<>> /\ pc[l] = "poll" => Announced(l)

LEMMA WakeupInvImplies == WakeupInv => NoLostWakeup
<1> SUFFICES ASSUME WakeupInv, NEW l \in Loop, queue[l] # <<>>, pc[l] = "poll"
             PROVE  /\ \E i \in Slot : i <= poll[l].maxfd /\ poll[l].fd[i] = WakeFd
                                                        /\ "in" \in poll[l].events[i]
                    /\ Announced(l)
  BY DEF NoLostWakeup, Announced
<1>1. poll[l].maxfd \in Slot
  BY DEF WakeupInv, TypeInv, TypeOK, PollData
<1>2. 0 \in Slot /\ 0 <= poll[l].maxfd
  BY <1>1, ConstantFacts DEF Slot
<1> QED BY <1>2 DEF WakeupInv, WakeWatched

(* The table a loop starts with holds its pair in entry 0. *)
LEMMA StartWatched ==
  ASSUME NEW l \in Loop
  PROVE  StartTable(l).fd[0] = WakeFd /\ "in" \in StartTable(l).events[0]
<1> DEFINE own == pollAdd(pollInit, WakeFd, {"in"})
<1>1. pollInit \in PollData
  BY ConstantFacts DEF pollInit, PollData
<1>2. SlotsOf(pollInit, NoFd) = Slot
  BY DEF SlotsOf, pollInit
<1>3. Min(Slot) = 0
  <2>1. Min(Slot) \in Slot /\ Min(Slot) <= 0
    BY MinIsFirst, ConstantFacts
  <2> QED BY <2>1, PollAssumption DEF Slot
<1>4. own.fd[0] = WakeFd /\ own.events[0] = {"in"}
  BY <1>2, <1>3, ConstantFacts DEF pollAdd, pollInit
<1>5. own \in PollData
  BY <1>1, ConstantFacts, PollAdd
<1>6. pollAdd(own, ListenFd, {"in"}).fd[0] = WakeFd
        /\ pollAdd(own, ListenFd, {"in"}).events[0] = {"in"}
  BY <1>4, <1>5, ConstantFacts, PollAdd
<1> QED BY <1>4, <1>6 DEF StartTable

(* No step takes entry 0 from a loop's own pair. *)
LEMMA WakeWatchedStep == TypeInv /\ WakeWatched /\ [Next]_vars => WakeWatched'
<1> SUFFICES ASSUME TypeInv, WakeWatched, [Next]_vars PROVE WakeWatched'
  OBVIOUS
<1>1. CASE poll' = poll
  BY <1>1 DEF WakeWatched
<1>2. ASSUME NEW t \in Loop, PollReturns(t) PROVE WakeWatched'
  BY <1>2, PollReturnsType DEF WakeWatched, TypeInv
<1>3. ASSUME NEW t \in Loop, eventLoopAdd(t) PROVE WakeWatched'
  <2> DEFINE c == Head(queue[t]).chan
  <2>1. TaskOK(Head(queue[t]))
    BY <1>3, HeadTaskOK DEF eventLoopAdd, HasTask
  <2>2. CASE c \in Conn /\ list[t][fdOf[c]] = NULL
    <3>1. fdOf[c] \in Fd
      BY <2>1, <2>2, ConstantFacts DEF TaskOK
    <3>2. poll' = [poll EXCEPT ![t] = pollAdd(@, fdOf[c], {"in"})]
      BY <1>3, <2>2 DEF eventLoopAdd
    <3>3. /\ pollAdd(poll[t], fdOf[c], {"in"}).fd[0] = poll[t].fd[0]
          /\ pollAdd(poll[t], fdOf[c], {"in"}).events[0] = poll[t].events[0]
      <4>1. poll[t] \in PollData
        BY DEF TypeInv, TypeOK
      <4>2. 0 \in Slot /\ poll[t].fd[0] # NoFd /\ {"in"} \in SUBSET Event
        BY ConstantFacts DEF WakeWatched
      <4> QED BY <3>1, <4>1, <4>2, PollAdd
    <3> QED BY <3>2, <3>3 DEF WakeWatched, TypeInv, TypeOK
  <2>3. CASE ~(c \in Conn /\ list[t][fdOf[c]] = NULL)
    BY <1>1, <1>3, <2>3 DEF eventLoopAdd
  <2> QED BY <2>2, <2>3
<1>4. ASSUME NEW t \in Loop, eventLoopRemove(t) PROVE WakeWatched'
  <2> DEFINE c == Head(queue[t]).chan
  <2>1. TaskOK(Head(queue[t])) /\ Head(queue[t]).type = "DELETE"
    BY <1>4, HeadTaskOK DEF eventLoopRemove, HasTask
  <2>2. fdOf[c] # WakeFd
    BY <2>1, ConstantFacts DEF TaskOK
  <2>3. poll' = [poll EXCEPT ![t] = pollRemove(@, fdOf[c])]
    BY <1>4 DEF eventLoopRemove
  <2>4. /\ pollRemove(poll[t], fdOf[c]).fd[0] = poll[t].fd[0]
        /\ pollRemove(poll[t], fdOf[c]).events[0] = poll[t].events[0]
    BY <2>2, PollRemove, ConstantFacts DEF WakeWatched, TypeInv, TypeOK
  <2> QED BY <2>3, <2>4 DEF WakeWatched, TypeInv, TypeOK
<1>5. poll' = poll \/ \E t \in Loop : PollReturns(t) \/ eventLoopAdd(t) \/ eventLoopRemove(t)
  BY DEF Next, Clients, Step, vars, Connect, Send, readLocalMessage, acceptConnection,
         acceptFails, processRead, eventLoopAddTask, Enqueue, taskWakeup, LockTasks,
         UnlockTasks, tcpConnectionInitReturns
<1> QED BY <1>1, <1>2, <1>3, <1>4, <1>5

(* What each step does to one loop's announcement. *)
LEMMA AnnouncedStep ==
  ASSUME TypeInv, [Next]_vars, NEW l \in Loop,
         queue[l] # <<>> /\ pc[l] = "poll" => Announced(l),
         (queue[l] # <<>>)', (pc[l] = "poll")'
  PROVE  Announced(l)'
<1> USE DEF TypeInv
<1>1. CASE UNCHANGED <<pc, arg, queue, pair>>
  BY <1>1 DEF Announced
<1>2. ASSUME NEW t \in Loop, PollReturns(t) PROVE Announced(l)'
  <2>1. /\ pc[t] = "poll" /\ pc' = [pc EXCEPT ![t] = "scan"]
        /\ UNCHANGED <<arg, queue, pair>>
    BY <1>2, PollReturnsType
  <2>2. t # l
    BY <2>1 DEF TypeOK
  <2> QED BY <2>1, <2>2 DEF TypeOK, Announced
<1>3. ASSUME NEW t \in Loop, readLocalMessage(t) PROVE Announced(l)'
  <2>1. t # l
    BY <1>3 DEF readLocalMessage
  <2>2. pair'[l] = pair[l] /\ UNCHANGED <<pc, arg, queue>>
    BY <1>3, <2>1 DEF readLocalMessage, TypeOK
  <2> QED BY <2>2 DEF Announced
<1>4. ASSUME NEW t \in Loop, pc[t] = "scan", pc'[t] = "add", t # l,
             pc' = [pc EXCEPT ![t] = "add"], \A u \in Loop \ {t} : arg'[u] = arg[u],
             UNCHANGED <<queue, pair>>
      PROVE  Announced(l)'
  BY <1>4 DEF Announced, TypeOK
<1>5. ASSUME NEW t \in Loop,
             (\E c \in Conn, f \in ConnFd : acceptConnection(t, c, f))
               \/ acceptFails(t) \/ processRead(t)
      PROVE  Announced(l)'
  <2>1. /\ pc[t] = "scan" /\ pc' = [pc EXCEPT ![t] = "add"]
        /\ \A u \in Loop \ {t} : arg'[u] = arg[u]
        /\ UNCHANGED <<queue, pair>>
    BY <1>5 DEF acceptConnection, acceptFails, processRead, Goto, TypeOK
  <2>2. t # l
    BY <2>1 DEF TypeOK
  <2> QED BY <1>4, <2>1, <2>2 DEF TypeOK
<1>6. ASSUME NEW t \in Loop, eventLoopAddTask(t) PROVE Announced(l)'
  <2>1. CASE arg[t].loop = l
    <3>1. t # l
      BY <1>6, <2>1 DEF eventLoopAddTask, Enqueue, Goto, TypeOK
    <3>2. pc'[t] = "wake" /\ arg' = arg
      BY <1>6, <2>1, <3>1 DEF eventLoopAddTask, Enqueue, Goto, TypeOK
    <3> QED BY <2>1, <3>2 DEF Announced
  <2>2. CASE arg[t].loop # l
    <3>1. pc[t] = "add" /\ pc'[t] # "poll"
      BY <1>6 DEF eventLoopAddTask, Enqueue, Goto, TypeOK
    <3>2. queue'[l] = queue[l] /\ pair' = pair /\ arg' = arg
      BY <1>6, <2>2 DEF eventLoopAddTask, Enqueue, TypeOK
    <3>3. \A u \in Loop \ {t} : pc'[u] = pc[u]
      BY <1>6 DEF eventLoopAddTask, Enqueue, Goto, TypeOK
    <3> QED BY <3>1, <3>2, <3>3 DEF Announced
  <2> QED BY <2>1, <2>2
<1>7. ASSUME NEW t \in Loop, taskWakeup(t) PROVE Announced(l)'
  <2>1. CASE arg[t].loop = l
    <3>1. pair[l] \in Nat /\ pair'[l] = pair[l] + WakeLen
      BY <1>7, <2>1, ConstantFacts DEF taskWakeup, TypeOK
    <3> QED BY <3>1, ConstantFacts DEF Announced
  <2>2. CASE arg[t].loop # l
    <3>1. t # l
      BY <1>7 DEF taskWakeup, Goto, TypeOK
    <3>2. /\ queue' = queue /\ arg' = arg /\ pair'[l] = pair[l]
          /\ \A u \in Loop \ {t} : pc'[u] = pc[u]
      BY <1>7, <2>2 DEF taskWakeup, Goto, connVars, TypeOK
    <3> QED BY <2>2, <3>1, <3>2 DEF Announced
  <2> QED BY <2>1, <2>2
<1>8. ASSUME NEW t \in Loop, LockTasks(t) PROVE Announced(l)'
  <2>1. /\ pc[t] \notin {"poll", "wake"} /\ pc'[t] # "poll"
        /\ \A u \in Loop \ {t} : pc'[u] = pc[u]
        /\ UNCHANGED <<queue, arg, pair>>
    BY <1>8 DEF LockTasks, Goto, TypeOK
  <2> QED BY <2>1 DEF Announced
<1>9. ASSUME NEW t \in Loop, eventLoopAdd(t) \/ eventLoopRemove(t) PROVE Announced(l)'
  <2>1. /\ pc[t] \in {"own", "run"} /\ UNCHANGED <<pc, arg, pair>>
        /\ \A u \in Loop \ {t} : queue'[u] = queue[u]
    BY <1>9 DEF eventLoopAdd, eventLoopRemove, HasTask, Dequeue, TypeOK
  <2> QED BY <2>1 DEF Announced
<1>10. ASSUME NEW t \in Loop, UnlockTasks(t) PROVE Announced(l)'
  <2>1. /\ pc[t] \in {"own", "run"} /\ queue[t] = <<>>
        /\ \A u \in Loop \ {t} : pc'[u] = pc[u]
        /\ UNCHANGED <<queue, arg, pair>>
    BY <1>10 DEF UnlockTasks, Goto, TypeOK
  <2> QED BY <2>1 DEF Announced
<1>11. ASSUME NEW t \in Loop, tcpConnectionInitReturns(t) PROVE Announced(l)'
  <2>1. /\ pc[t] = "made" /\ pc'[t] = "scan"
        /\ \A u \in Loop \ {t} : pc'[u] = pc[u]
        /\ UNCHANGED <<queue, arg, pair>>
    BY <1>11 DEF tcpConnectionInitReturns, Goto, TypeOK
  <2> QED BY <2>1 DEF Announced
<1>12. ASSUME NEW c \in Conn, Connect(c) \/ \E kind \in RequestKind : Send(c, kind)
       PROVE  Announced(l)'
  BY <1>1, <1>12 DEF Connect, Send
<1>13. UNCHANGED vars => UNCHANGED <<pc, arg, queue, pair>>
  BY DEF vars
<1> QED
  BY <1>1, <1>2, <1>3, <1>5, <1>6, <1>7, <1>8, <1>9, <1>10, <1>11, <1>12, <1>13
     DEF Next, Clients, Step

(* A loop never sleeps in poll(2) on a task nobody will wake it for, for    *)
(* any number of threads (EventLoop.c:112-151, the append and its unlock,   *)
(* then the write; EventLoop.c:67-86, the loop on the other side).          *)
THEOREM NoWakeupIsLost == Spec => []NoLostWakeup
<1>1. Init => WakeupInv
  BY InitTypeInv, StartWatched DEF Init, WakeupInv, WakeWatched
<1>2. WakeupInv /\ [Next]_vars => WakeupInv'
  BY NextTypeInv, WakeWatchedStep, AnnouncedStep DEF WakeupInv
<1> QED BY <1>1, <1>2, WakeupInvImplies, PTL DEF Spec
-----------------------------------------------------------------------------
(***************************************************************************)
(* The life of a connection.  The invariant says how a connection, its     *)
(* tasks, its map entry and its table entry go together, on whatever       *)
(* thread: a task belongs to an open connection of the loop it is queued   *)
(* to; its ADD is queued before it is in the map, its DELETE while it is;  *)
(* it has one task at a time; and a DELETE is queued by the loop's own     *)
(* thread, which then does nothing else before it is carried out.          *)
(***************************************************************************)
TablesOK ==
  \A l \in Loop : /\ TableOK(poll[l])
                  /\ \A i \in Slot : poll[l].fd[i] = ListenFd => l = 0

Fits(l, task) ==
  task.chan \in Conn =>
    /\ state[task.chan] = "open" /\ home[task.chan] = l
    /\ task.type = "ADD"    => list[l][fdOf[task.chan]] # task.chan
    /\ task.type = "DELETE" => list[l][fdOf[task.chan]] = task.chan

TasksFit ==
  /\ \A t \in Loop : pc[t] = "add" => Fits(arg[t].loop, arg[t].task)
  /\ \A l \in Loop : \A i \in DOMAIN queue[l] : Fits(l, queue[l][i])

OneTask ==
  /\ \A l \in Loop : \A i, j \in DOMAIN queue[l] :
       queue[l][i].chan \in Conn /\ queue[l][i].chan = queue[l][j].chan => i = j
  /\ \A t \in Loop : pc[t] = "add" /\ arg[t].task.chan \in Conn =>
       /\ \A l \in Loop : \A i \in DOMAIN queue[l] : queue[l][i].chan # arg[t].task.chan
       /\ \A u \in Loop : pc[u] = "add" /\ arg[u].task.chan = arg[t].task.chan => u = t

DeletesOwn ==
  /\ \A t \in Loop : pc[t] = "add" /\ arg[t].task.type = "DELETE" => arg[t].loop = t
  /\ \A l \in Loop : \A i \in DOMAIN queue[l] :
       queue[l][i].type = "DELETE" => pc[l] \in {"lock", "own"} /\ arg[l].task = queue[l][i]

OneOpen ==
  /\ \A c \in Conn : state[c] = "open" => fdOf[c] \in ConnFd
  /\ \A c, d \in Conn : state[c] = "open" /\ state[d] = "open" /\ fdOf[c] = fdOf[d] => c = d

LifeInv == /\ TypeInv /\ WakeWatched /\ TablesOK
           /\ TasksFit /\ OneTask /\ DeletesOwn
           /\ OneOpen /\ MapMatchesPoll

LEMMA InitLife == Init => LifeInv
<1> SUFFICES ASSUME Init PROVE LifeInv
  OBVIOUS
<1>1. TypeInv /\ WakeWatched
  BY InitTypeInv, StartWatched DEF Init, WakeWatched
<1>2. ASSUME NEW l \in Loop
      PROVE  /\ TableOK(poll[l])
             /\ \A i \in Slot : /\ poll[l].fd[i] \in {NoFd, WakeFd, ListenFd}
                                /\ poll[l].fd[i] = ListenFd => l = 0
  <2> DEFINE own == pollAdd(pollInit, WakeFd, {"in"})
             both == pollAdd(own, ListenFd, {"in"})
  <2>1. SlotsOf(pollInit, WakeFd) = {} /\ \A i \in Slot : pollInit.fd[i] = NoFd
    BY ConstantFacts DEF SlotsOf, pollInit
  <2>2. TableOK(own) /\ \A i \in Slot : own.fd[i] \in {NoFd, WakeFd}
    BY <2>1, TableInit, TableAdd, ConstantFacts
  <2>3. own \in PollData
    BY TableInit, PollAdd, ConstantFacts
  <2>4. SlotsOf(own, ListenFd) = {}
    BY <2>2, ReactorAssumption, PollAssumption DEF SlotsOf
  <2>5. TableOK(both) /\ \A i \in Slot : both.fd[i] \in {NoFd, WakeFd, ListenFd}
    BY <2>2, <2>3, <2>4, TableAdd, ConstantFacts
  <2>6. poll[l] = IF l = 0 THEN both ELSE own
    BY DEF Init, StartTable
  <2> HIDE DEF own, both
  <2> QED BY <2>2, <2>5, <2>6, ReactorAssumption, PollAssumption
<1>3. TablesOK
  BY <1>2 DEF TablesOK
<1>4. TasksFit /\ OneTask /\ DeletesOwn /\ OneOpen
  BY DEF Init, TasksFit, OneTask, DeletesOwn, OneOpen
<1>5. MapMatchesPoll
  BY <1>2, ConstantFacts, ReactorAssumption DEF Init, MapMatchesPoll, Watches, ConnFd
<1> QED BY <1>1, <1>3, <1>4, <1>5 DEF LifeInv

(* The invariant does not look at more of a step than this: most steps keep *)
(* it for want of a change.                                                 *)
LEMMA QuietLife ==
  ASSUME LifeInv, TypeInv', WakeWatched',
         UNCHANGED <<arg, list, queue, fdOf, home>>,
         \A l \in Loop : TableOK(poll'[l]) /\ poll'[l].fd = poll[l].fd,
         \A c \in Conn : (state'[c] = "open") <=> (state[c] = "open"),
         \A t \in Loop : pc'[t] = "add" => pc[t] = "add",
         \A t \in Loop : queue[t] # <<>> /\ pc[t] \in {"lock", "own"} => pc'[t] \in {"lock", "own"}
  PROVE  LifeInv'
<1> USE DEF LifeInv
<1>1. TablesOK'
  BY DEF TablesOK
<1>2. TasksFit'
  BY SMTT(30) DEF TasksFit, Fits
<1>3. OneTask'
  BY DEF OneTask
<1>4. DeletesOwn'
  BY DEF DeletesOwn
<1>5. OneOpen'
  BY DEF OneOpen
<1>6. MapMatchesPoll'
  <2>1. \A l \in Loop, f \in ConnFd : Watches(l, f)' => Watches(l, f)
    BY DEF Watches
  <2>2. \A f \in ConnFd : OpenOn(f)' = OpenOn(f)
    BY DEF OpenOn
  <2> QED BY <2>1, <2>2 DEF MapMatchesPoll
<1> QED BY <1>1, <1>2, <1>3, <1>4, <1>5, <1>6

(* A callback is about to queue a task, for a connection without one: the   *)
(* ADD of a new one, or the DELETE of one of the thread's own.              *)
LEMMA PendLife ==
  ASSUME LifeInv, TypeInv', WakeWatched',
         NEW t \in Loop, NEW k \in Loop, NEW task \in Task,
         pc[t] = "scan", pc' = [pc EXCEPT ![t] = "add"],
         arg' = [arg EXCEPT ![t] = [loop |-> k, task |-> task]],
         UNCHANGED <<poll, list, queue>>,
         \A c \in Conn : state[c] = "open" =>
           state'[c] = "open" /\ fdOf'[c] = fdOf[c] /\ home'[c] = home[c],
         OneOpen', Fits(k, task)',
         task.type = "DELETE" => k = t,
         task.chan \in Conn =>
           /\ \A l \in Loop : \A i \in DOMAIN queue[l] : queue[l][i].chan # task.chan
           /\ \A u \in Loop \ {t} : pc[u] = "add" => arg[u].task.chan # task.chan
  PROVE  LifeInv'
<1> USE DEF LifeInv
<1>1. /\ pc'[t] = "add" /\ arg'[t] = [loop |-> k, task |-> task]
      /\ \A u \in Loop \ {t} : pc'[u] = pc[u] /\ arg'[u] = arg[u]
  BY DEF TypeInv, TypeOK
<1>2. TablesOK'
  BY DEF TablesOK
<1>3. TasksFit'
  <2>1. ASSUME NEW u \in Loop, pc'[u] = "add" PROVE Fits(arg[u].loop, arg[u].task)'
    <3>1. CASE u = t
      BY <1>1, <3>1 DEF Fits
    <3>2. CASE u # t
      BY <1>1, <2>1, <3>2, SMTT(30) DEF TasksFit, Fits
    <3> QED BY <3>1, <3>2
  <2>2. \A l \in Loop : \A i \in DOMAIN queue'[l] : Fits(l, queue[l][i])'
    BY DEF TasksFit, Fits
  <2> QED BY <2>1, <2>2 DEF TasksFit
<1>4. OneTask'
  BY <1>1 DEF OneTask
<1>5. DeletesOwn'
  BY <1>1 DEF DeletesOwn
<1>6. MapMatchesPoll'
  BY DEF MapMatchesPoll, OpenOn, Watches
<1> QED BY <1>2, <1>3, <1>4, <1>5, <1>6

(* A connection accepted is new: it was in the backlog, and its descriptor  *)
(* no open connection's (TcpServer.c:85-98, TcpConnection.c:62-79).         *)
LEMMA AcceptLife ==
  ASSUME LifeInv, TypeInv', WakeWatched', NEW t \in Loop,
         NEW c \in Conn, NEW f \in ConnFd, acceptConnection(t, c, f)
  PROVE  LifeInv'
<1> USE DEF LifeInv, TypeInv
<1>1. PICK k \in Loop : k = Taken
  BY TakenIsLoop
<1> DEFINE task == [type |-> "ADD", chan |-> c]
<1>2. task \in Task
  BY DEF Task, Chan
<1>3. /\ state[c] = "backlog" /\ OpenOn(f) = {}
      /\ state' = [state EXCEPT ![c] = "open"]
      /\ fdOf'  = [fdOf EXCEPT ![c] = f]
      /\ home'  = [home EXCEPT ![c] = k]
  BY <1>1 DEF acceptConnection, FreeFds
<1>4. \A d \in Conn : state[d] = "open" => d # c /\ fdOf[d] # f
  BY <1>3 DEF OpenOn
<1>5. OneOpen'
  <2>1. \A d \in Conn : d # c => state'[d] = state[d] /\ fdOf'[d] = fdOf[d]
    BY <1>3 DEF TypeOK
  <2>2. fdOf'[c] = f
    BY <1>3 DEF TypeOK
  <2> QED BY <1>4, <2>1, <2>2 DEF OneOpen
<1>6. Fits(k, task)'
  <2>1. list[k][f] # c
    BY <1>4 DEF MapMatchesPoll, OpenOn
  <2> QED BY <1>3, <2>1 DEF Fits, TypeOK, acceptConnection
<1>7. /\ \A l \in Loop : \A i \in DOMAIN queue[l] : queue[l][i].chan # c
      /\ \A u \in Loop : pc[u] = "add" => arg[u].task.chan # c
  BY <1>4 DEF TasksFit, Fits
<1>8. \A d \in Conn : state[d] = "open" =>
        state'[d] = "open" /\ fdOf'[d] = fdOf[d] /\ home'[d] = home[d]
  BY <1>3, <1>4 DEF TypeOK
<1>9. /\ pc[t] = "scan" /\ pc' = [pc EXCEPT ![t] = "add"]
      /\ arg' = [arg EXCEPT ![t] = [loop |-> k, task |-> task]]
      /\ UNCHANGED <<poll, list, queue>>
  BY <1>1 DEF acceptConnection, Goto
<1> HIDE DEF LifeInv, TypeInv
<1> QED BY <1>2, <1>5, <1>6, <1>7, <1>8, <1>9, PendLife

(* A failed accept queues the ADD of a connection that is none. *)
LEMMA AcceptFailsLife ==
  ASSUME LifeInv, TypeInv', WakeWatched', NEW t \in Loop, acceptFails(t)
  PROVE  LifeInv'
<1>1. PICK k \in Loop : k = Taken
  BY TakenIsLoop DEF LifeInv, TypeInv
<1> DEFINE task == [type |-> "ADD", chan |-> BadConn]
<1>2. task \in Task /\ task.chan \notin Conn
  BY ReactorAssumption DEF Task, Chan
<1>3. Fits(k, task)'
  BY <1>2 DEF Fits
<1>4. /\ pc[t] = "scan" /\ pc' = [pc EXCEPT ![t] = "add"]
      /\ arg' = [arg EXCEPT ![t] = [loop |-> k, task |-> task]]
      /\ UNCHANGED <<poll, list, queue, state, fdOf, home>>
  BY <1>1 DEF acceptFails, Goto, connVars
<1>5. OneOpen'
  BY <1>4 DEF LifeInv, OneOpen
<1> QED BY <1>2, <1>3, <1>4, <1>5, PendLife

(* What processRead finds: the channel of a watched descriptor is that of   *)
(* an open connection of this loop, for which no task is under way; for its *)
(* ADD comes before the map entry, and its DELETE not during the scan.      *)
LEMMA ReadsOwn ==
  ASSUME LifeInv, NEW t \in Loop, NEW i \in Slot,
         pc[t] = "scan", poll[t].fd[i] \in ConnFd
  PROVE  LET c == list[t][poll[t].fd[i]] IN
           /\ c \in Conn /\ state[c] = "open" /\ home[c] = t /\ fdOf[c] = poll[t].fd[i]
           /\ \A l \in Loop : \A j \in DOMAIN queue[l] : queue[l][j].chan # c
           /\ \A u \in Loop : pc[u] = "add" => arg[u].task.chan # c
<1> USE DEF LifeInv, TypeInv
<1>1. PICK c : c = list[t][poll[t].fd[i]]
  OBVIOUS
<1>2. c \in Conn /\ state[c] = "open" /\ home[c] = t /\ fdOf[c] = poll[t].fd[i]
  BY <1>1 DEF MapMatchesPoll, Watches, OpenOn
<1>3. list[t][fdOf[c]] = c
  BY <1>1, <1>2
<1>4. ASSUME NEW l \in Loop, NEW j \in DOMAIN queue[l], queue[l][j].chan = c PROVE FALSE
  <2>1. queue[l][j] \in Task
    BY DEF TypeOK
  <2>2. Fits(l, queue[l][j])
    BY DEF TasksFit
  <2>3. l = t /\ queue[l][j].type = "DELETE"
    BY <1>2, <1>3, <1>4, <2>1, <2>2 DEF Fits, Task
  <2> QED BY <2>3 DEF DeletesOwn
<1>5. ASSUME NEW u \in Loop, pc[u] = "add", arg[u].task.chan = c PROVE FALSE
  <2>1. arg[u].task \in Task
    BY DEF TypeOK
  <2>2. Fits(arg[u].loop, arg[u].task)
    BY <1>5 DEF TasksFit
  <2>3. arg[u].loop = t /\ arg[u].task.type = "DELETE"
    BY <1>2, <1>3, <1>5, <2>1, <2>2 DEF Fits, Task
  <2>4. u = t
    BY <1>5, <2>3 DEF DeletesOwn
  <2> QED BY <1>5, <2>4
<1> QED BY <1>1, <1>2, <1>4, <1>5

(* A callback on a connection asks for its DELETE (TcpConnection.c:56-58). *)
LEMMA ReadLife ==
  ASSUME LifeInv, TypeInv', WakeWatched', NEW t \in Loop, processRead(t)
  PROVE  LifeInv'
<1>1. PICK i \in Slot : i = Current(t) /\ poll[t].fd[i] \in ConnFd
  BY CurrentInSlot DEF processRead, LifeInv, TypeInv, CurrentFd
<1>2. PICK c \in Conn : c = list[t][poll[t].fd[i]]
  BY <1>1 DEF processRead, CurrentFd
<1>3. /\ state[c] = "open" /\ home[c] = t /\ fdOf[c] = poll[t].fd[i]
      /\ \A l \in Loop : \A j \in DOMAIN queue[l] : queue[l][j].chan # c
      /\ \A u \in Loop : pc[u] = "add" => arg[u].task.chan # c
  BY <1>1, <1>2, ReadsOwn, SMTT(30) DEF processRead
<1> DEFINE task == [type |-> "DELETE", chan |-> c]
<1>4. task \in Task
  BY DEF Task, Chan
<1>5. /\ pc[t] = "scan" /\ pc' = [pc EXCEPT ![t] = "add"]
      /\ arg' = [arg EXCEPT ![t] = [loop |-> t, task |-> task]]
      /\ UNCHANGED <<poll, list, queue, state, fdOf, home>>
  BY <1>1, <1>2, <1>3 DEF processRead, Goto, CurrentFd
<1>6. OneOpen'
  BY <1>5 DEF LifeInv, OneOpen
<1>7. Fits(t, task)'
  BY <1>2, <1>3, <1>5 DEF Fits
<1> QED BY <1>3, <1>4, <1>5, <1>6, <1>7, PendLife

(* A task queued: the loop's list gains the one that was pending, and a     *)
(* DELETE's thread goes on to its own list (EventLoop.c:112-151).           *)
LEMMA AddTaskLife ==
  ASSUME LifeInv, TypeInv', WakeWatched', NEW t \in Loop, eventLoopAddTask(t)
  PROVE  LifeInv'
<1> USE DEF LifeInv
<1>1. PICK k \in Loop, task \in Task : arg[t].loop = k /\ arg[t].task = task
  BY DEF TypeInv, TypeOK
<1>2. /\ pc[t] = "add" /\ pc' = [pc EXCEPT ![t] = IF k = t THEN "lock" ELSE "wake"]
      /\ queue' = [queue EXCEPT ![k] = Append(@, task)]
      /\ UNCHANGED <<arg, poll, list, state, fdOf, home>>
  BY <1>1 DEF eventLoopAddTask, Enqueue, Goto, connVars
<1>3. pc'[t] = (IF k = t THEN "lock" ELSE "wake") /\ \A u \in Loop \ {t} : pc'[u] = pc[u]
  BY <1>2 DEF TypeInv, TypeOK
<1>4. \A l \in Loop : \A i \in DOMAIN queue'[l] :
        \/ i \in DOMAIN queue[l] /\ queue'[l][i] = queue[l][i]
        \/ l = k /\ i = Len(queue[l]) + 1 /\ queue'[l][i] = task
  <2>1. queue'[k] = Append(queue[k], task) /\ \A l \in Loop \ {k} : queue'[l] = queue[l]
    BY <1>2 DEF TypeInv, TypeOK
  <2>2. queue[k] \in Seq(Task)
    BY DEF TypeInv, TypeOK
  <2>3. \A i \in DOMAIN Append(queue[k], task) :
          \/ i \in DOMAIN queue[k] /\ Append(queue[k], task)[i] = queue[k][i]
          \/ i = Len(queue[k]) + 1 /\ Append(queue[k], task)[i] = task
    BY <2>2
  <2> QED BY <2>1, <2>3
<1>5. TablesOK' /\ OneOpen'
  BY <1>2 DEF TablesOK, OneOpen
<1>6. TasksFit'
  <2>1. Fits(k, task)
    BY <1>1, <1>2 DEF TasksFit
  <2>2. \A u \in Loop : pc'[u] = "add" => Fits(arg[u].loop, arg[u].task)'
    BY <1>2, <1>3 DEF TasksFit, Fits
  <2>3. \A l \in Loop : \A i \in DOMAIN queue'[l] : Fits(l, queue[l][i])'
    <3> SUFFICES ASSUME NEW l \in Loop, NEW i \in DOMAIN queue'[l] PROVE Fits(l, queue[l][i])'
      OBVIOUS
    <3>1. Fits(l, queue'[l][i])
      BY <1>4, <2>1 DEF TasksFit
    <3> QED BY <1>2, <3>1 DEF Fits
  <2> QED BY <2>2, <2>3 DEF TasksFit
<1>7. OneTask'
  <2>1. ASSUME NEW l \in Loop, NEW i \in DOMAIN queue'[l], NEW j \in DOMAIN queue'[l],
               queue'[l][i].chan \in Conn, queue'[l][i].chan = queue'[l][j].chan
        PROVE  i = j
    BY <1>1, <1>2, <1>4, <2>1 DEF OneTask
  <2>2. ASSUME NEW u \in Loop, pc'[u] = "add", arg'[u].task.chan \in Conn
        PROVE  /\ \A l \in Loop : \A i \in DOMAIN queue'[l] : queue'[l][i].chan # arg'[u].task.chan
               /\ \A v \in Loop : pc'[v] = "add" /\ arg'[v].task.chan = arg'[u].task.chan => v = u
    <3>1. u # t /\ pc[u] = "add" /\ arg' = arg
      BY <1>2, <1>3, <2>2
    <3>2. task.chan # arg[u].task.chan
      BY <1>1, <1>2, <2>2, <3>1 DEF OneTask
    <3> QED BY <1>3, <1>4, <2>2, <3>1, <3>2 DEF OneTask
  <2> QED BY <2>1, <2>2, Zenon DEF OneTask
<1>8. DeletesOwn'
  <2>1. task.type = "DELETE" => k = t
    BY <1>1, <1>2 DEF DeletesOwn
  <2> QED BY <1>1, <1>2, <1>3, <1>4, <2>1 DEF DeletesOwn
<1>9. MapMatchesPoll'
  BY <1>2 DEF MapMatchesPoll, OpenOn, Watches
<1> QED BY <1>5, <1>6, <1>7, <1>8, <1>9

(* The task at the head of a list is its connection's only one, and fits.   *)
LEMMA TakesOnly ==
  ASSUME LifeInv, NEW t \in Loop, queue[t] # <<>>, Dequeue(t), UNCHANGED <<pc, arg>>
  PROVE  LET c == Head(queue[t]).chan IN
         /\ Fits(t, Head(queue[t])) /\ TaskOK(Head(queue[t]))
         /\ \A l \in Loop : \A i \in DOMAIN queue'[l] :
              \E j \in DOMAIN queue[l] : queue'[l][i] = queue[l][j]
         /\ c \in Conn => /\ \A l \in Loop : \A i \in DOMAIN queue'[l] : queue'[l][i].chan # c
                          /\ \A u \in Loop : pc[u] = "add" => arg[u].task.chan # c
         /\ OneTask' /\ DeletesOwn'
<1> USE DEF LifeInv
<1>1. queue[t] \in Seq(Task) /\ queue \in [Loop -> Seq(Task)]
  BY DEF TypeInv, TypeOK
<1>2. PICK c : c = Head(queue[t]).chan
  OBVIOUS
<1>3. Head(queue[t]) = queue[t][1] /\ 1 \in DOMAIN queue[t]
  BY <1>1
<1>4. \A i \in DOMAIN Tail(queue[t]) : /\ i \in Nat /\ i + 1 \in DOMAIN queue[t] /\ i + 1 # 1
                                      /\ Tail(queue[t])[i] = queue[t][i + 1]
  BY <1>1
<1>5. queue'[t] = Tail(queue[t]) /\ \A l \in Loop \ {t} : queue'[l] = queue[l]
  BY <1>1 DEF Dequeue
<1>6. Fits(t, Head(queue[t])) /\ TaskOK(Head(queue[t]))
  BY <1>3, HeadTaskOK DEF TasksFit
<1>7. \A l \in Loop : \A i \in DOMAIN queue'[l] :
        \E j \in DOMAIN queue[l] : queue'[l][i] = queue[l][j]
  <2> SUFFICES ASSUME NEW l \in Loop, NEW i \in DOMAIN queue'[l]
               PROVE  \E j \in DOMAIN queue[l] : queue'[l][i] = queue[l][j]
    OBVIOUS
  <2>1. CASE l = t
    BY <1>4, <1>5, <2>1
  <2>2. CASE l # t
    BY <1>5, <2>2
  <2> QED BY <2>1, <2>2
<1>8. ASSUME c \in Conn, NEW l \in Loop, NEW i \in DOMAIN queue'[l], queue'[l][i].chan = c
      PROVE  FALSE
  <2>1. CASE l = t
    <3>1. i \in DOMAIN Tail(queue[t]) /\ Tail(queue[t])[i].chan = c
      BY <1>5, <1>8, <2>1
    <3>2. i + 1 \in DOMAIN queue[t] /\ queue[t][i + 1].chan = queue[t][1].chan /\ i + 1 # 1
      BY <1>2, <1>3, <1>4, <3>1
    <3> QED BY <1>2, <1>3, <1>8, <3>2 DEF OneTask
  <2>2. CASE l # t
    <3>1. Fits(l, queue[l][i]) /\ queue[l][i].chan = c
      BY <1>5, <1>8, <2>2 DEF TasksFit
    <3> QED BY <1>2, <1>6, <1>8, <2>2, <3>1 DEF Fits
  <2> QED BY <2>1, <2>2
<1>9. c \in Conn => \A u \in Loop : pc[u] = "add" => arg[u].task.chan # c
  BY <1>2, <1>3 DEF OneTask
<1>10. OneTask'
  <2>1. ASSUME NEW l \in Loop, NEW i \in DOMAIN queue'[l], NEW j \in DOMAIN queue'[l],
               queue'[l][i].chan \in Conn, queue'[l][i].chan = queue'[l][j].chan
        PROVE  i = j
    <3>1. CASE l = t
      <4>1. /\ i \in DOMAIN Tail(queue[t]) /\ j \in DOMAIN Tail(queue[t])
            /\ Tail(queue[t])[i].chan \in Conn /\ Tail(queue[t])[i].chan = Tail(queue[t])[j].chan
        BY <1>5, <2>1, <3>1
      <4>2. /\ i + 1 \in DOMAIN queue[t] /\ j + 1 \in DOMAIN queue[t] /\ i \in Nat /\ j \in Nat
            /\ queue[t][i + 1].chan \in Conn /\ queue[t][i + 1].chan = queue[t][j + 1].chan
        BY <1>4, <4>1
      <4>3. i + 1 = j + 1
        BY <4>2 DEF OneTask
      <4> QED BY <4>2, <4>3
    <3>2. CASE l # t
      BY <1>5, <2>1, <3>2 DEF OneTask
    <3> QED BY <3>1, <3>2
  <2>2. ASSUME NEW u \in Loop, pc'[u] = "add", arg'[u].task.chan \in Conn
        PROVE  /\ \A l \in Loop : \A i \in DOMAIN queue'[l] : queue'[l][i].chan # arg'[u].task.chan
               /\ \A v \in Loop : pc'[v] = "add" /\ arg'[v].task.chan = arg'[u].task.chan => v = u
    BY <1>7, <2>2 DEF OneTask
  <2> QED BY <2>1, <2>2, Zenon DEF OneTask
<1>11. DeletesOwn'
  BY <1>7 DEF DeletesOwn
<1> QED BY <1>2, <1>6, <1>7, <1>8, <1>9, <1>10, <1>11

(* A channel enters map and table together, where its descriptor has       *)
(* neither entry (EventLoop.c:187-204).                                     *)
LEMMA AddLife ==
  ASSUME LifeInv, TypeInv', WakeWatched', NEW t \in Loop, eventLoopAdd(t)
  PROVE  LifeInv'
<1> USE DEF LifeInv
<1>1. PICK c : c = Head(queue[t]).chan
  OBVIOUS
<1>2. /\ pc[t] \in {"own", "run"} /\ queue[t] # <<>> /\ Head(queue[t]).type = "ADD" /\ Dequeue(t)
      /\ UNCHANGED <<pc, arg, state, fdOf, home>>
  BY DEF eventLoopAdd, HasTask, connVars
<1>3. /\ Fits(t, Head(queue[t])) /\ TaskOK(Head(queue[t]))
      /\ \A l \in Loop : \A i \in DOMAIN queue'[l] :
           \E j \in DOMAIN queue[l] : queue'[l][i] = queue[l][j]
      /\ c \in Conn => /\ \A l \in Loop : \A i \in DOMAIN queue'[l] : queue'[l][i].chan # c
                       /\ \A u \in Loop : pc[u] = "add" => arg[u].task.chan # c
      /\ OneTask' /\ DeletesOwn'
  BY <1>1, <1>2, TakesOnly
<1>4. OneOpen'
  BY <1>2 DEF OneOpen
<1>5. CASE c \in Conn /\ list[t][fdOf[c]] = NULL
  <2>1. PICK f \in ConnFd : f = fdOf[c]
    BY <1>1, <1>3, <1>5 DEF TaskOK
  <2>2. /\ list' = [list EXCEPT ![t][f] = c]
        /\ poll' = [poll EXCEPT ![t] = pollAdd(@, f, {"in"})]
    BY <1>1, <1>5, <2>1 DEF eventLoopAdd
  <2>3. state[c] = "open" /\ home[c] = t
    BY <1>1, <1>3, <1>5 DEF Fits
  <2>4. SlotsOf(poll[t], f) = {}
    BY <1>5, <2>1, ReactorAssumption DEF MapMatchesPoll, Watches, SlotsOf
  <2>5. poll[t] \in PollData /\ TableOK(poll[t]) /\ f \in Fd /\ {"in"} \in SUBSET Event
    BY ConstantFacts DEF TypeInv, TypeOK, TablesOK
  <2>6. TableOK(poll'[t]) /\ \A i \in Slot : poll'[t].fd[i] \in {poll[t].fd[i], f}
    BY <2>2, <2>4, <2>5, TableAdd, ZenonT(30) DEF TypeInv, TypeOK
  <2>7. \A l \in Loop \ {t} : poll'[l] = poll[l]
    BY <2>2 DEF TypeInv, TypeOK
  <2>8. \A l \in Loop, g \in ConnFd : list'[l][g] = IF l = t /\ g = f THEN c ELSE list[l][g]
    BY <2>2, ZenonT(30) DEF TypeInv, TypeOK
  <2>9. TablesOK'
    BY <2>6, <2>7, ConstantFacts DEF TablesOK, ConnFd
  <2>10. \A l \in Loop : \A task \in Task : Fits(l, task) /\ task.chan # c => Fits(l, task)'
    <3> SUFFICES ASSUME NEW l \in Loop, NEW task \in Task,
                        Fits(l, task), task.chan # c, task.chan \in Conn
                 PROVE  Fits(l, task)'
      BY DEF Fits
    <3>1. fdOf[task.chan] \in ConnFd /\ (home[task.chan] = t => fdOf[task.chan] # f)
      BY <1>5, <2>1, <2>3 DEF Fits, OneOpen
    <3> QED BY <1>2, <2>8, <3>1 DEF Fits
  <2>11. TasksFit'
    <3>1. \A l \in Loop : \A j \in DOMAIN queue[l] : queue[l][j] \in Task
      <4>1. \A l \in Loop : queue[l] \in Seq(Task)
        BY DEF TypeInv, TypeOK
      <4> QED BY <4>1
    <3>2. \A u \in Loop : arg[u].task \in Task /\ arg[u].loop \in Loop
      BY DEF TypeInv, TypeOK
    <3>3. \A u \in Loop : pc'[u] = "add" => Fits(arg[u].loop, arg[u].task)'
      BY <1>2, <1>3, <1>5, <2>10, <3>2, SMTT(30) DEF TasksFit, Fits
    <3>4. \A l \in Loop : \A i \in DOMAIN queue'[l] : Fits(l, queue[l][i])'
      <4> SUFFICES ASSUME NEW l \in Loop, NEW i \in DOMAIN queue'[l]
                   PROVE  Fits(l, queue[l][i])'
        OBVIOUS
      <4>1. PICK j \in DOMAIN queue[l] : queue'[l][i] = queue[l][j]
        BY <1>3
      <4>2. PICK task \in Task : task = queue[l][j]
        BY <3>1
      <4>3. Fits(l, task) /\ task.chan # c
        BY <1>3, <1>5, <4>1, <4>2 DEF TasksFit
      <4>4. Fits(l, task)'
        BY <2>10, <4>3
      <4> QED BY <4>1, <4>2, <4>4 DEF Fits
    <3> QED BY <3>3, <3>4 DEF TasksFit
  <2>12. MapMatchesPoll'
    <3>1. \A l \in Loop, g \in ConnFd : Watches(l, g)' => Watches(l, g) \/ (l = t /\ g = f)
      BY <2>6, <2>7 DEF Watches
    <3> QED BY <1>2, <1>5, <2>1, <2>3, <2>8, <3>1 DEF MapMatchesPoll, OpenOn
  <2> QED BY <1>3, <1>4, <2>9, <2>11, <2>12
<1>6. CASE ~(c \in Conn /\ list[t][fdOf[c]] = NULL)
  <2>1. UNCHANGED <<list, poll>>
    BY <1>1, <1>6 DEF eventLoopAdd
  <2>2. TablesOK' /\ MapMatchesPoll'
    BY <1>2, <2>1 DEF TablesOK, MapMatchesPoll, OpenOn, Watches
  <2>3. TasksFit'
    BY <1>2, <1>3, <2>1, SMTT(30) DEF TasksFit, Fits
  <2> QED BY <1>3, <1>4, <2>2, <2>3
<1> QED BY <1>5, <1>6

(* A channel leaves the table, and the map with it unless its connection    *)
(* has leftover bytes (EventLoop.c:206-231, TcpConnection.c:86-99).         *)
LEMMA RemoveLife ==
  ASSUME LifeInv, TypeInv', WakeWatched', NEW t \in Loop, eventLoopRemove(t)
  PROVE  LifeInv'
<1> USE DEF LifeInv
<1>1. PICK c : c = Head(queue[t]).chan
  OBVIOUS
<1>2. /\ pc[t] \in {"own", "run"} /\ queue[t] # <<>> /\ Head(queue[t]).type = "DELETE" /\ Dequeue(t)
      /\ UNCHANGED <<pc, arg, fdOf, home>>
  BY DEF eventLoopRemove, HasTask
<1>3. /\ Fits(t, Head(queue[t])) /\ TaskOK(Head(queue[t]))
      /\ \A l \in Loop : \A i \in DOMAIN queue'[l] :
           \E j \in DOMAIN queue[l] : queue'[l][i] = queue[l][j]
      /\ c \in Conn => /\ \A l \in Loop : \A i \in DOMAIN queue'[l] : queue'[l][i].chan # c
                       /\ \A u \in Loop : pc[u] = "add" => arg[u].task.chan # c
      /\ OneTask' /\ DeletesOwn'
  BY <1>1, <1>2, TakesOnly
<1>4. PICK f \in ConnFd : f = fdOf[c]
  BY <1>1, <1>2, <1>3 DEF TaskOK
<1>5. c \in Conn /\ state[c] = "open" /\ home[c] = t /\ list[t][f] = c
  BY <1>1, <1>2, <1>3, <1>4 DEF Fits, TaskOK
<1>6. poll' = [poll EXCEPT ![t] = pollRemove(@, f)] /\ tcpConnectionDestory(c)
  BY <1>1, <1>4 DEF eventLoopRemove
<1>7. poll[t] \in PollData /\ TableOK(poll[t]) /\ f # NoFd /\ poll'[t] = pollRemove(poll[t], f)
  BY <1>6, ConstantFacts DEF TypeInv, TypeOK, TablesOK
<1>8. /\ TableOK(poll'[t])
      /\ \A i \in Slot : poll'[t].fd[i] = IF poll[t].fd[i] = f THEN NoFd ELSE poll[t].fd[i]
  BY <1>7, TableRemove
<1>9. \A l \in Loop \ {t} : poll'[l] = poll[l]
  BY <1>6 DEF TypeInv, TypeOK
<1>10. TablesOK'
  BY <1>8, <1>9, ReactorAssumption, PollAssumption DEF TablesOK
<1>11. \A l \in Loop, g \in ConnFd : Watches(l, g)' => Watches(l, g) /\ ~(l = t /\ g = f)
  BY <1>7, <1>8, <1>9, ConstantFacts DEF Watches
<1>12. CASE left[c] = {}
  <2>1. list' = [list EXCEPT ![t][f] = NULL] /\ state' = [state EXCEPT ![c] = "freed"]
    BY <1>4, <1>5, <1>6, <1>12 DEF tcpConnectionDestory, destoryChannel
  <2>2. \A l \in Loop, g \in ConnFd : list'[l][g] = IF l = t /\ g = f THEN NULL ELSE list[l][g]
    BY <2>1, ZenonT(30) DEF TypeInv, TypeOK
  <2>3. state'[c] = "freed" /\ \A d \in Conn : d # c => state'[d] = state[d]
    BY <1>5, <2>1 DEF TypeInv, TypeOK
  <2>4. OneOpen'
    BY <1>2, <2>3 DEF OneOpen
  <2>5. ASSUME NEW l \in Loop, NEW task \in Task, Fits(l, task), task.chan # c
        PROVE  Fits(l, task)'
    <3> SUFFICES ASSUME task.chan \in Conn PROVE Fits(l, task)'
      BY DEF Fits
    <3>1. /\ state'[task.chan] = "open" /\ fdOf[task.chan] \in ConnFd
          /\ ~(home[task.chan] = t /\ fdOf[task.chan] = f)
      BY <1>4, <1>5, <2>3, <2>5 DEF Fits, OneOpen
    <3> QED BY <1>2, <2>2, <2>5, <3>1 DEF Fits
  <2>6. TasksFit'
    <3>1. \A u \in Loop : arg[u].task \in Task /\ arg[u].loop \in Loop
      BY DEF TypeInv, TypeOK
    <3>2. \A u \in Loop : pc'[u] = "add" => Fits(arg[u].loop, arg[u].task)'
      BY <1>2, <1>3, <1>5, <2>5, <3>1, SMTT(30) DEF TasksFit, Fits
    <3>3. ASSUME NEW l \in Loop, NEW i \in DOMAIN queue'[l]
          PROVE  Fits(l, queue[l][i])'
      <4>1. PICK j \in DOMAIN queue[l] : queue'[l][i] = queue[l][j]
        BY <1>3
      <4>2. queue[l] \in Seq(Task)
        BY DEF TypeInv, TypeOK
      <4>3. PICK task \in Task : task = queue[l][j]
        BY <4>2
      <4>4. Fits(l, task) /\ task.chan # c
        BY <1>3, <1>5, <4>1, <4>3 DEF TasksFit
      <4>5. Fits(l, task)'
        BY <2>5, <4>4
      <4> QED BY <4>1, <4>3, <4>5 DEF Fits
    <3> QED BY <3>2, <3>3 DEF TasksFit
  <2>7. MapMatchesPoll'
    <3> SUFFICES ASSUME NEW l \in Loop, NEW g \in ConnFd
                 PROVE  (/\ Watches(l, g) => list[l][g] \in Conn
                         /\ list[l][g] \in Conn =>
                              list[l][g] \in OpenOn(g) /\ home[list[l][g]] = l)'
      BY DEF MapMatchesPoll
    <3>1. CASE l = t /\ g = f
      BY <1>11, <2>2, <3>1, ReactorAssumption
    <3>2. CASE ~(l = t /\ g = f)
      <4>1. list'[l][g] = list[l][g]
        BY <2>2, <3>2
      <4>2. list[l][g] \in Conn => /\ list[l][g] # c /\ home'[list[l][g]] = l
                                   /\ state[list[l][g]] = "open" /\ fdOf'[list[l][g]] = g
        BY <1>2, <1>4, <1>5, <3>2 DEF MapMatchesPoll, OpenOn
      <4> QED BY <1>11, <2>3, <4>1, <4>2 DEF MapMatchesPoll, OpenOn
    <3> QED BY <3>1, <3>2
  <2> QED BY <1>3, <1>10, <2>4, <2>6, <2>7
<1>13. CASE left[c] # {}
  <2>1. UNCHANGED <<list, state>>
    BY <1>6, <1>13 DEF tcpConnectionDestory
  <2>2. OneOpen'
    BY <1>2, <2>1 DEF OneOpen
  <2>3. TasksFit'
    BY <1>2, <1>3, <2>1, SMTT(30) DEF TasksFit, Fits
  <2>4. MapMatchesPoll'
    BY <1>2, <1>11, <2>1 DEF MapMatchesPoll, OpenOn
  <2> QED BY <1>3, <1>10, <2>2, <2>3, <2>4
<1> QED BY <1>12, <1>13

(* What poll(2) reports is nothing for an unused entry. *)
LEMMA PollReturnsTable ==
  ASSUME TypeOK, TablesOK, NEW t \in Loop, PollReturns(t)
  PROVE  \A l \in Loop : TableOK(poll'[l]) /\ poll'[l].fd = poll[l].fd
<1> DEFINE d == poll[t]
           rev == [i \in Slot |->
                     IF i > d.maxfd THEN d.revents[i]
                     ELSE IF d.fd[i] = NoFd THEN {}
                     ELSE {e \in d.events[i] : Holds(t, d.fd[i], e)}]
<1>1. d \in PollData /\ TableOK(d)
  BY DEF TypeOK, TablesOK
<1>2. poll' = [poll EXCEPT ![t] = [d EXCEPT !.revents = rev]]
  BY DEF PollReturns, pollWait, TypeOK
<1>3. \A i \in Slot : d.fd[i] = NoFd => rev[i] = {}
  BY <1>1 DEF TableOK
<1> HIDE DEF rev
<1>4. /\ poll'[t].fd = d.fd /\ poll'[t].maxfd = d.maxfd /\ poll'[t].revents = rev
  BY <1>1, <1>2 DEF TypeOK, PollData
<1>5. TableOK(poll'[t])
  BY <1>1, <1>3, <1>4 DEF TableOK
<1>6. \A l \in Loop \ {t} : poll'[l] = poll[l]
  BY <1>2 DEF TypeOK
<1> QED BY <1>4, <1>5, <1>6 DEF TablesOK

LEMMA LifeStep == LifeInv /\ [Next]_vars => LifeInv'
<1> SUFFICES ASSUME LifeInv, [Next]_vars PROVE LifeInv'
  OBVIOUS
<1>1. TypeInv' /\ WakeWatched'
  BY NextTypeInv, WakeWatchedStep DEF LifeInv
<1>2. TypeInv /\ TypeOK /\ TablesOK /\ \A l \in Loop : TableOK(poll[l])
  BY DEF LifeInv, TypeInv, TablesOK
<1>3. CASE UNCHANGED vars
  BY <1>1, <1>2, <1>3, QuietLife DEF vars
<1>4. ASSUME NEW c \in Conn, Connect(c) \/ \E kind \in RequestKind : Send(c, kind)
      PROVE  LifeInv'
  <2>1. /\ UNCHANGED <<pc, arg, poll, list, queue, fdOf, home>>
        /\ \A d \in Conn : (state'[d] = "open") <=> (state[d] = "open")
    BY <1>2, <1>4 DEF Connect, Send, TypeOK
  <2> QED BY <1>1, <1>2, <2>1, QuietLife
<1>5. ASSUME NEW t \in Loop, PollReturns(t) PROVE LifeInv'
  <2>1. \A l \in Loop : TableOK(poll'[l]) /\ poll'[l].fd = poll[l].fd
    BY <1>2, <1>5, PollReturnsTable
  <2>2. /\ UNCHANGED <<arg, list, queue, state, fdOf, home>>
        /\ \A u \in Loop : pc'[u] = pc[u] \/ (pc[u] = "poll" /\ pc'[u] = "scan")
    BY <1>2, <1>5 DEF PollReturns, Goto, connVars, TypeOK
  <2> QED BY <1>1, <2>1, <2>2, QuietLife
<1>6. ASSUME NEW t \in Loop, readLocalMessage(t) PROVE LifeInv'
  BY <1>1, <1>2, <1>6, QuietLife DEF readLocalMessage, connVars
<1>7. ASSUME NEW t \in Loop, taskWakeup(t) \/ LockTasks(t) \/ UnlockTasks(t)
                               \/ tcpConnectionInitReturns(t)
      PROVE  LifeInv'
  <2>1. UNCHANGED <<arg, poll, list, queue, state, fdOf, home>>
    BY <1>7 DEF taskWakeup, LockTasks, UnlockTasks, tcpConnectionInitReturns, connVars
  <2>2. /\ \A u \in Loop \ {t} : pc'[u] = pc[u]
        /\ pc'[t] # "add"
        /\ queue[t] # <<>> /\ pc[t] \in {"lock", "own"} => pc'[t] \in {"lock", "own"}
    BY <1>2, <1>7 DEF taskWakeup, LockTasks, UnlockTasks, tcpConnectionInitReturns, Goto, TypeOK
  <2>3. /\ \A u \in Loop : pc'[u] = "add" => pc[u] = "add"
        /\ \A u \in Loop : queue[u] # <<>> /\ pc[u] \in {"lock", "own"} => pc'[u] \in {"lock", "own"}
    BY <2>2
  <2> QED BY <1>1, <1>2, <2>1, <2>3, QuietLife
<1> QED
  BY <1>1, <1>3, <1>4, <1>5, <1>6, <1>7, AcceptLife, AcceptFailsLife, ReadLife, AddTaskLife,
     AddLife, RemoveLife
     DEF Next, Clients, Step

(* What eventActivate asserts holds (EventLoop.c:88-110): the map of a loop *)
(* and its poll table agree, and what the map holds is not freed, on any    *)
(* number of threads and however their tasks are interleaved.               *)
THEOREM MapAndPollAgree == Spec => []MapMatchesPoll
<1>1. LifeInv => MapMatchesPoll
  BY DEF LifeInv
<1> QED BY <1>1, InitLife, LifeStep, PTL DEF Spec

(* A queued task never refers to a freed connection: what processRead frees *)
(* through its DELETE has no other task (EventLoop.c:153-185).              *)
THEOREM TasksNeverDangle == Spec => []NoDanglingTask
<1>1. LifeInv => NoDanglingTask
  BY DEF LifeInv, TasksFit, Fits, NoDanglingTask
<1> QED BY <1>1, InitLife, LifeStep, PTL DEF Spec
-----------------------------------------------------------------------------
(***************************************************************************)
(* Readiness.  An entry still to be activated stays readable because only  *)
(* its own thread, at its own turn, reads what made it so.                 *)
(***************************************************************************)

(* After its turn an entry is not visited again. *)
LEMMA ActiveAfter ==
  ASSUME TypeOK, NEW t \in Loop, Active(t) # {}
  PROVE  /\ Current(t) \in Active(t) /\ Current(t) \in Slot /\ Resume(t)[t] = Current(t) + 1
         /\ \A u \in Loop \ {t} : Resume(t)[u] = at[u]
         /\ \A j \in ReadActive(poll[t], Current(t) + 1) : j \in Active(t) /\ j # Current(t)
<1>1. Active(t) \in SUBSET Slot /\ Active(t) \in SUBSET Nat /\ Slot \subseteq Nat
  BY ConstantFacts DEF Active, ReadActive
<1>2. Current(t) \in Active(t)
  BY <1>1, MinIsFirst DEF Current
<1>3. at[t] \in Nat /\ at[t] <= Current(t) /\ Current(t) \in Nat /\ at \in [Loop -> 0 .. MAX]
  BY <1>1, <1>2, PollAssumption DEF Active, ReadActive, TypeOK
<1>4. \A j \in Slot : Current(t) + 1 <= j => at[t] <= j /\ j # Current(t)
  BY <1>1, <1>3
<1> QED BY <1>1, <1>2, <1>3, <1>4 DEF Resume, Active, ReadActive

(* A watched connection descriptor is that of a connection of this loop. *)
LEMMA WatchedAtHome ==
  ASSUME LifeInv, NEW l \in Loop, NEW c \in Conn, state[c] = "open", Watches(l, fdOf[c])
  PROVE  home[c] = l
BY DEF LifeInv, MapMatchesPoll, OpenOn, OneOpen

(* Readiness lasts when the pair stays filled, the backlog nonempty, and    *)
(* the connection open with its input unread.                               *)
LEMMA ReadableStays ==
  ASSUME NEW u, NEW f \in Fd,
         f = WakeFd   => (pair[u] > 0 => pair'[u] > 0),
         f = ListenFd => \A c \in Conn : state[c] = "backlog" => state'[c] = "backlog",
         f \in ConnFd => \A c \in Conn :
           state[c] = "open" /\ fdOf[c] = f /\ inbox[c] # "none" =>
             state'[c] = "open" /\ fdOf'[c] = f /\ inbox'[c] # "none"
  PROVE  Readable(u, f) => Readable(u, f)'
<1>1. CASE f = WakeFd
  BY <1>1 DEF Readable
<1>2. CASE f = ListenFd
  BY <1>2, ReactorAssumption DEF Readable
<1>3. CASE f \in ConnFd
  BY <1>3 DEF Readable, OpenOn, ConnFd
<1> QED BY <1>1, <1>2, <1>3 DEF ConnFd

(* What a step leaves to be activated it left readable. *)
LEMMA QuietReady ==
  ASSUME NoBlockingCallback,
         \A t \in Loop : pc'[t] \notin {"poll", "run"} =>
           /\ pc[t] \in PC \ {"poll", "run"}
           /\ \A i \in Active(t)' : /\ i \in Active(t) /\ poll'[t].fd[i] = poll[t].fd[i]
                                    /\ Readable(t, poll[t].fd[i]) => Readable(t, poll[t].fd[i])'
  PROVE  NoBlockingCallback'
BY DEF NoBlockingCallback, PC

LEMMA PollReturnsReady ==
  ASSUME LifeInv, NoBlockingCallback, NEW t \in Loop, PollReturns(t)
  PROVE  NoBlockingCallback'
<1> DEFINE d == poll[t]
           rev == [i \in Slot |->
                     IF i > d.maxfd THEN d.revents[i]
                     ELSE IF d.fd[i] = NoFd THEN {}
                     ELSE {e \in d.events[i] : Holds(t, d.fd[i], e)}]
<1>1. TypeOK /\ d \in PollData
  BY DEF LifeInv, TypeInv, TypeOK
<1>2. poll' = [poll EXCEPT ![t] = [d EXCEPT !.revents = rev]]
  BY <1>1 DEF PollReturns, pollWait, TypeOK
<1>3. \A i \in Slot : i <= d.maxfd /\ d.fd[i] # NoFd /\ "in" \in rev[i] => Readable(t, d.fd[i])
  <2> SUFFICES ASSUME NEW i \in Slot, i <= d.maxfd, d.fd[i] # NoFd, "in" \in rev[i]
               PROVE  Readable(t, d.fd[i])
    OBVIOUS
  <2>1. i \in Int /\ d.maxfd \in Int
    BY <1>1, PollAssumption DEF PollData, Slot
  <2>2. rev[i] = {e \in d.events[i] : Holds(t, d.fd[i], e)}
    BY <2>1
  <2>3. Holds(t, d.fd[i], "in")
    BY <2>2
  <2> QED BY <2>3 DEF Holds
<1> HIDE DEF rev
<1>4. poll'[t].fd = d.fd /\ poll'[t].maxfd = d.maxfd /\ poll'[t].revents = rev
  BY <1>1, <1>2 DEF TypeOK, PollData
<1>5. \A f \in Fd : \A u \in Loop : Readable(u, f) => Readable(u, f)'
  BY ReadableStays DEF PollReturns, connVars
<1>6. \A i \in Active(t)' : Readable(t, poll[t].fd[i])'
  <2> SUFFICES ASSUME NEW i \in Active(t)' PROVE Readable(t, poll[t].fd[i])'
    OBVIOUS
  <2>1. i \in Slot /\ i <= d.maxfd /\ d.fd[i] # NoFd /\ "in" \in rev[i]
    BY <1>4 DEF Active, ReadActive
  <2>2. PICK f \in Fd : f = d.fd[i]
    BY <1>1, <2>1 DEF PollData
  <2>3. Readable(t, f)'
    BY <1>3, <1>5, <2>1, <2>2
  <2> QED BY <1>4, <2>2, <2>3 DEF Readable, OpenOn
<1>7. \A u \in Loop \ {t} : pc'[u] = pc[u] /\ poll'[u] = poll[u] /\ at'[u] = at[u]
  BY <1>1, <1>2 DEF PollReturns, Goto, TypeOK
<1>8. ASSUME NEW u \in Loop \ {t}, pc'[u] \in {"scan", "add", "wake", "lock", "own", "made"},
             NEW i \in Active(u)'
      PROVE  Readable(u, poll[u].fd[i])'
  <2>1. i \in Active(u) /\ pc[u] = pc'[u]
    BY <1>7, <1>8 DEF Active
  <2>2. PICK f \in Fd : f = poll[u].fd[i]
    BY <1>1, <2>1 DEF Active, ReadActive, TypeOK, PollData
  <2>3. Readable(u, f)'
    BY <1>5, <1>8, <2>1, <2>2 DEF NoBlockingCallback
  <2> QED BY <1>7, <2>2, <2>3 DEF Readable, OpenOn
<1> QED
  <2> SUFFICES ASSUME NEW u \in Loop, pc'[u] \in {"scan", "add", "wake", "lock", "own", "made"},
                      NEW i \in Active(u)'
               PROVE  Readable(u, poll[u].fd[i])'
    BY DEF NoBlockingCallback
  <2>1. CASE u = t
    BY <1>6, <2>1
  <2>2. CASE u # t
    BY <1>8, <2>2
  <2> QED BY <2>1, <2>2

(* The callback's own read is the only one of what made its entry readable. *)
LEMMA CallbackReady ==
  ASSUME LifeInv, NoBlockingCallback, NEW t \in Loop,
         \/ readLocalMessage(t) \/ acceptFails(t) \/ processRead(t)
         \/ \E c \in Conn, f \in ConnFd : acceptConnection(t, c, f)
  PROVE  NoBlockingCallback'
<1> USE DEF LifeInv, TypeInv
<1>1. /\ Active(t) # {} /\ pc[t] = "scan" /\ at' = Resume(t) /\ UNCHANGED poll
      /\ pc' = [pc EXCEPT ![t] = "add"] \/ pc' = pc
  BY DEF readLocalMessage, acceptFails, processRead, acceptConnection, Goto
<1>2. PICK m \in Slot : m = Current(t) /\ m \in Active(t)
  BY <1>1, ActiveAfter
<1>3. \A i \in Slot : poll[t].fd[i] # NoFd /\ poll[t].fd[i] = poll[t].fd[m] => i = m
  BY DEF TablesOK, TableOK
<1>4. \A u \in Loop : pc'[u] \notin {"poll", "run"} => pc[u] \in PC \ {"poll", "run"}
  BY <1>1 DEF TypeOK, PC
<1>5. \A u \in Loop : \A i \in Active(u)' :
        /\ i \in Active(u) /\ i \in Slot /\ poll[u].fd[i] # NoFd
        /\ u = t => poll[t].fd[i] # poll[t].fd[m]
  <2>1. \A i \in Active(t)' : i \in Active(t) /\ i # m
    BY <1>1, <1>2, ActiveAfter DEF Active
  <2>2. \A u \in Loop \ {t} : Active(u)' = Active(u)
    BY <1>1, ActiveAfter DEF Active
  <2>3. \A u \in Loop : \A i \in Active(u) : i \in Slot /\ poll[u].fd[i] # NoFd
    BY DEF Active, ReadActive
  <2> QED BY <1>3, <2>1, <2>2, <2>3
<1>6. ASSUME NEW u \in Loop, NEW i \in Slot, poll[u].fd[i] # NoFd,
             u = t => poll[t].fd[i] # poll[t].fd[m]
      PROVE  Readable(u, poll[u].fd[i]) => Readable(u, poll[u].fd[i])'
  <2>0. PICK g : g = poll[t].fd[m]
    OBVIOUS
  <2>1. PICK f \in Fd : f = poll[u].fd[i] /\ g = poll[t].fd[m]
    BY <1>6, <2>0 DEF TypeOK, PollData
  <2>2. CASE readLocalMessage(t)
    <3>1. g = WakeFd /\ UNCHANGED <<state, fdOf, inbox>> /\ (u # t => pair'[u] = pair[u])
      BY <1>2, <2>1, <2>2 DEF readLocalMessage, CurrentFd, connVars, TypeOK
    <3>2. Readable(u, f) => Readable(u, f)'
      BY <1>6, <2>1, <3>1, ReadableStays
    <3> QED BY <1>1, <2>1, <3>2 DEF Readable, OpenOn
  <2>3. CASE acceptFails(t)
    <3>1. Readable(u, f) => Readable(u, f)'
      BY <2>3, ReadableStays DEF acceptFails, connVars
    <3> QED BY <1>1, <2>1, <3>1 DEF Readable, OpenOn
  <2>4. ASSUME NEW c \in Conn, NEW h \in ConnFd, acceptConnection(t, c, h)
        PROVE  Readable(u, poll[u].fd[i]) => Readable(u, poll[u].fd[i])'
    <3>1. /\ g = ListenFd /\ state[c] = "backlog" /\ UNCHANGED <<pair, inbox>>
          /\ state' = [state EXCEPT ![c] = "open"] /\ fdOf' = [fdOf EXCEPT ![c] = h]
      BY <1>2, <2>1, <2>4 DEF acceptConnection, CurrentFd
    <3>2. f # ListenFd
      BY <1>6, <2>1, <3>1 DEF TablesOK
    <3>3. \A d \in Conn : state[d] = "open" => state'[d] = "open" /\ fdOf'[d] = fdOf[d]
      BY <3>1 DEF TypeOK
    <3>4. Readable(u, f) => Readable(u, f)'
      BY <3>1, <3>2, <3>3, ReadableStays
    <3> QED BY <1>1, <2>1, <3>4 DEF Readable, OpenOn
  <2>5. CASE processRead(t)
    <3>1. PICK c : c = list[t][g]
      OBVIOUS
    <3>2. /\ g \in ConnFd /\ inbox' = [inbox EXCEPT ![c] = "none"]
          /\ UNCHANGED <<pair, state, fdOf>>
      BY <1>2, <2>1, <2>5, <3>1 DEF processRead, CurrentFd
    <3>3. c \in Conn /\ state[c] = "open" /\ home[c] = t /\ fdOf[c] = g
      BY <1>1, <2>1, <3>1, <3>2, ReadsOwn
    <3>4. f # g
      <4> SUFFICES ASSUME f = g PROVE FALSE
        OBVIOUS
      <4>1. u # t /\ Watches(u, g)
        BY <1>6, <2>1 DEF Watches
      <4> QED BY <3>3, <4>1, WatchedAtHome
    <3>5. \A d \in Conn : fdOf[d] = f => inbox'[d] = inbox[d]
      BY <3>2, <3>3, <3>4 DEF TypeOK
    <3>6. Readable(u, f) => Readable(u, f)'
      BY <3>2, <3>5, ReadableStays
    <3> QED BY <1>1, <2>1, <3>6 DEF Readable, OpenOn
  <2> QED BY <2>2, <2>3, <2>4, <2>5
<1>7. \A u \in Loop : \A i \in Active(u)' :
        /\ i \in Active(u) /\ poll'[u].fd[i] = poll[u].fd[i]
        /\ Readable(u, poll[u].fd[i]) => Readable(u, poll[u].fd[i])'
  BY <1>1, <1>5, <1>6
<1> QED BY <1>4, <1>7, QuietReady

(* Carrying out a task makes nothing active, and what it takes away from     *)
(* readiness, it takes from the table as well.                              *)
LEMMA TaskReady ==
  ASSUME LifeInv, NoBlockingCallback, NEW t \in Loop, eventLoopAdd(t) \/ eventLoopRemove(t)
  PROVE  NoBlockingCallback'
<1> USE DEF LifeInv, TypeInv
<1>1. PICK c : c = Head(queue[t]).chan
  OBVIOUS
<1>2. /\ pc[t] \in {"own", "run"} /\ queue[t] # <<>> /\ UNCHANGED <<pc, at, pair, fdOf, home, inbox>>
      /\ Fits(t, Head(queue[t])) /\ TaskOK(Head(queue[t]))
  BY TakesOnly DEF eventLoopAdd, eventLoopRemove, HasTask, connVars
<1>3. \A u \in Loop : pc'[u] \notin {"poll", "run"} => pc[u] \in PC \ {"poll", "run"}
  BY <1>2 DEF TypeOK
<1>4. \A u \in Loop : poll[u] \in PollData /\ TableOK(poll[u])
  BY DEF TypeOK, TablesOK
<1>5. \A u \in Loop : \A i \in Active(u) : poll[u].fd[i] \in Fd /\ i \in Slot
  BY <1>4 DEF Active, ReadActive, PollData
<1>6. CASE eventLoopAdd(t)
  <2>1. \A u \in Loop : \A i \in Active(u)' : i \in Active(u) /\ poll'[u].fd[i] = poll[u].fd[i]
    <3>1. CASE c \in Conn /\ list[t][fdOf[c]] = NULL
      <4>1. PICK f \in ConnFd : f = fdOf[c]
        BY <1>1, <1>2, <3>1 DEF TaskOK
      <4>2. SlotsOf(poll[t], f) = {}
        BY <3>1, <4>1, ReactorAssumption DEF MapMatchesPoll, Watches, SlotsOf
      <4>3. poll' = [poll EXCEPT ![t] = pollAdd(@, f, {"in"})]
        BY <1>1, <1>6, <3>1, <4>1 DEF eventLoopAdd
      <4>4. poll'[t] = pollAdd(poll[t], f, {"in"}) /\ \A u \in Loop \ {t} : poll'[u] = poll[u]
        BY <4>3 DEF TypeOK
      <4>5. \A k : \A j \in ReadActive(poll'[t], k) :
              j \in ReadActive(poll[t], k) /\ poll'[t].fd[j] = poll[t].fd[j]
        BY <1>4, <4>2, <4>4, TableAdd, ConstantFacts
      <4> QED BY <1>2, <4>4, <4>5 DEF Active
    <3>2. CASE ~(c \in Conn /\ list[t][fdOf[c]] = NULL)
      BY <1>1, <1>2, <1>6, <3>2 DEF eventLoopAdd, Active
    <3> QED BY <3>1, <3>2
  <2>2. ASSUME NEW u \in Loop, NEW i \in Active(u)'
        PROVE  Readable(u, poll[u].fd[i]) => Readable(u, poll[u].fd[i])'
    <3>1. PICK f \in Fd : f = poll[u].fd[i]
      BY <1>5, <2>1, <2>2
    <3>2. Readable(u, f) => Readable(u, f)'
      BY <1>6, ReadableStays DEF eventLoopAdd, connVars
    <3> QED BY <2>1, <2>2, <3>1, <3>2 DEF Readable, OpenOn
  <2> QED BY <1>3, <2>1, <2>2, QuietReady
<1>7. CASE eventLoopRemove(t)
  <2>1. PICK f \in ConnFd : f = fdOf[c] /\ c \in Conn /\ state[c] = "open" /\ home[c] = t
    BY <1>1, <1>2, <1>7 DEF eventLoopRemove, HasTask, TaskOK, Fits
  <2>2. poll'[t] = pollRemove(poll[t], f) /\ \A u \in Loop \ {t} : poll'[u] = poll[u]
    BY <1>1, <1>7, <2>1 DEF eventLoopRemove, TypeOK
  <2>3. /\ \A k : \A j \in ReadActive(poll'[t], k) :
             j \in ReadActive(poll[t], k) /\ poll'[t].fd[j] = poll[t].fd[j]
        /\ \A i \in Slot : poll'[t].fd[i] # f
    <3>1. poll[t] \in PollData /\ TableOK(poll[t]) /\ f # NoFd
      BY <1>4, ConstantFacts
    <3>2. PICK e : e = pollRemove(poll[t], f)
      OBVIOUS
    <3>3. /\ \A i \in Slot : e.fd[i] = IF poll[t].fd[i] = f THEN NoFd ELSE poll[t].fd[i]
          /\ \A k : \A j \in ReadActive(e, k) :
               j \in ReadActive(poll[t], k) /\ e.fd[j] = poll[t].fd[j]
      BY <3>1, <3>2, TableRemove
    <3> QED BY <2>2, <3>1, <3>2, <3>3
  <2>4. \A u \in Loop : \A i \in Active(u)' : i \in Active(u) /\ poll'[u].fd[i] = poll[u].fd[i]
    BY <1>2, <2>2, <2>3 DEF Active
  <2>5. \A d \in Conn : d # c => state'[d] = state[d]
    BY <1>1, <1>7, <2>1 DEF eventLoopRemove, tcpConnectionDestory, destoryChannel, TypeOK
  <2>6. \A d \in Conn : state[d] = "backlog" => state'[d] = "backlog"
    BY <2>1, <2>5
  <2>7. ASSUME NEW u \in Loop, NEW i \in Active(u)'
        PROVE  Readable(u, poll[u].fd[i]) => Readable(u, poll[u].fd[i])'
    <3>1. PICK g \in Fd : g = poll[u].fd[i] /\ i \in Slot
      BY <1>5, <2>4, <2>7
    <3>2. g # f
      <4> SUFFICES ASSUME g = f PROVE FALSE
        OBVIOUS
      <4>1. u # t
        BY <2>3, <2>4, <2>7, <3>1
      <4>2. Watches(u, fdOf[c])
        BY <2>1, <3>1 DEF Watches
      <4> QED BY <2>1, <4>1, <4>2, WatchedAtHome
    <3>3. Readable(u, g) => Readable(u, g)'
      BY <1>2, <2>1, <2>5, <2>6, <3>2, ReadableStays
    <3> QED BY <2>4, <2>7, <3>1, <3>3 DEF Readable, OpenOn
  <2> QED BY <1>3, <2>4, <2>7, QuietReady
<1> QED BY <1>6, <1>7

LEMMA ReadyStep == LifeInv /\ NoBlockingCallback /\ [Next]_vars => NoBlockingCallback'
<1> SUFFICES ASSUME LifeInv, NoBlockingCallback, [Next]_vars PROVE NoBlockingCallback'
  OBVIOUS
<1>1. TypeOK
  BY DEF LifeInv, TypeInv
<1>2. \A u \in Loop : \A i \in Active(u) : poll[u].fd[i] \in Fd
  BY <1>1 DEF Active, ReadActive, TypeOK, PollData
<1>3. ASSUME UNCHANGED <<at, poll, fdOf>>,
             \A u \in Loop : pc'[u] \notin {"poll", "run"} => pc[u] \in PC \ {"poll", "run"},
             \A u \in Loop : pair[u] > 0 => pair'[u] > 0,
             \A c \in Conn : state[c] = "backlog" => state'[c] = "backlog",
             \A c \in Conn : state[c] = "open" => state'[c] = "open" /\ (inbox[c] # "none" => inbox'[c] # "none")
      PROVE  NoBlockingCallback'
  <2>1. ASSUME NEW u \in Loop, NEW i \in Active(u)
        PROVE  Readable(u, poll[u].fd[i]) => Readable(u, poll[u].fd[i])'
    <3>1. PICK f \in Fd : f = poll[u].fd[i]
      BY <1>2, <2>1
    <3>2. Readable(u, f) => Readable(u, f)'
      BY <1>3, ReadableStays
    <3> QED BY <1>3, <3>1, <3>2 DEF Readable, OpenOn
  <2>2. \A u \in Loop : Active(u)' = Active(u)
    BY <1>3 DEF Active
  <2> QED BY <1>3, <2>1, <2>2, QuietReady
<1>4. CASE UNCHANGED vars
  BY <1>1, <1>3, <1>4 DEF vars, TypeOK, PC
<1>5. ASSUME NEW c \in Conn, Connect(c) \/ \E kind \in RequestKind : Send(c, kind)
      PROVE  NoBlockingCallback'
  <2>1. UNCHANGED <<pc, at, poll, pair, fdOf>>
    BY <1>5 DEF Connect, Send
  <2>2. /\ \A d \in Conn : state[d] = "backlog" => state'[d] = "backlog"
        /\ \A d \in Conn : state[d] = "open" => state'[d] = "open"
                                               /\ (inbox[d] # "none" => inbox'[d] # "none")
    BY <1>1, <1>5, ReactorAssumption DEF Connect, Send, TypeOK, AllKinds
  <2> QED BY <1>1, <1>3, <2>1, <2>2 DEF TypeOK, PC
<1>6. ASSUME NEW t \in Loop, \/ eventLoopAddTask(t) \/ taskWakeup(t) \/ LockTasks(t)
                             \/ UnlockTasks(t) \/ tcpConnectionInitReturns(t)
      PROVE  NoBlockingCallback'
  <2>1. UNCHANGED <<at, poll, state, fdOf, inbox>>
    BY <1>6 DEF eventLoopAddTask, Enqueue, taskWakeup, LockTasks, UnlockTasks,
                tcpConnectionInitReturns, connVars
  <2>2. \A u \in Loop : pc'[u] \notin {"poll", "run"} => pc[u] \in PC \ {"poll", "run"}
    BY <1>1, <1>6 DEF eventLoopAddTask, Enqueue, taskWakeup, LockTasks, UnlockTasks,
                      tcpConnectionInitReturns, Goto, TypeOK, PC
  <2>3. \A u \in Loop : pair[u] > 0 => pair'[u] > 0
    <3>1. CASE taskWakeup(t)
      <4>1. \A u \in Loop : pair[u] \in Nat
        BY <1>1, ConstantFacts DEF TypeOK
      <4>2. \A u \in Loop : pair'[u] = pair[u] \/ pair'[u] = pair[u] + WakeLen
        BY <1>1, <3>1 DEF taskWakeup, TypeOK
      <4> QED BY <4>1, <4>2, ConstantFacts
    <3>2. CASE ~taskWakeup(t)
      BY <1>6, <3>2 DEF eventLoopAddTask, Enqueue, LockTasks, UnlockTasks, tcpConnectionInitReturns
    <3> QED BY <3>1, <3>2
  <2> QED BY <1>3, <2>1, <2>2, <2>3
<1> QED
  BY <1>4, <1>5, <1>6, PollReturnsReady, CallbackReady, TaskReady DEF Next, Clients, Step

(* No callback blocks its loop: an entry reported readable still is when    *)
(* its turn comes, whatever the callbacks before it and the other threads   *)
(* have done since (PollDispatcher.c:124-167, on blocking sockets).         *)
THEOREM CallbacksNeverBlock == Spec => []NoBlockingCallback
<1>1. Init => LifeInv /\ NoBlockingCallback
  BY InitLife DEF Init, NoBlockingCallback
<1> QED BY <1>1, LifeStep, ReadyStep, PTL DEF Spec
-----------------------------------------------------------------------------
(***************************************************************************)
(* Tasks under way.  What each kind of step does to the tasks of a         *)
(* connection: begins one, moves one, or carries one out.                  *)
(***************************************************************************)
Flying(task) == \/ \E t \in Loop : pc[t] = "add" /\ arg[t].task = task
                \/ \E l \in Loop : \E i \in DOMAIN queue[l] : queue[l][i] = task

LEMMA FlightIsFlying ==
  ASSUME NEW c, NEW type
  PROVE  /\ InFlight(c, type)  <=> Flying([type |-> type, chan |-> c])
         /\ InFlight(c, type)' <=> Flying([type |-> type, chan |-> c])'
BY DEF InFlight, Flying

LEMMA FlightSame ==
  ASSUME queue' = queue,
         \A t \in Loop : /\ pc'[t] = "add" <=> pc[t] = "add"
                         /\ pc[t] = "add" => arg'[t] = arg[t],
         NEW task
  PROVE  Flying(task)' <=> Flying(task)
BY DEF Flying

LEMMA FlightPend ==
  ASSUME TypeOK, NEW t \in Loop, NEW k \in Loop, NEW new \in Task,
         pc[t] = "scan", pc' = [pc EXCEPT ![t] = "add"],
         arg' = [arg EXCEPT ![t] = [loop |-> k, task |-> new]], queue' = queue,
         NEW task
  PROVE  Flying(task)' <=> Flying(task) \/ task = new
<1>1. /\ pc'[t] = "add" /\ arg'[t].task = new
      /\ \A u \in Loop \ {t} : pc'[u] = pc[u] /\ arg'[u] = arg[u]
  BY DEF TypeOK
<1> QED BY <1>1 DEF Flying

LEMMA FlightQueue ==
  ASSUME TypeOK, NEW t \in Loop, eventLoopAddTask(t), NEW task
  PROVE  Flying(task)' <=> Flying(task)
<1>1. PICK k \in Loop, new \in Task : arg[t].loop = k /\ arg[t].task = new
  BY DEF TypeOK
<1>2. /\ pc[t] = "add" /\ pc'[t] # "add" /\ arg' = arg
      /\ \A u \in Loop \ {t} : pc'[u] = pc[u]
      /\ queue'[k] = Append(queue[k], new) /\ \A l \in Loop \ {k} : queue'[l] = queue[l]
  BY <1>1 DEF eventLoopAddTask, Enqueue, Goto, TypeOK
<1>3. queue[k] \in Seq(Task)
  BY DEF TypeOK
<1>4. (\E i \in DOMAIN Append(queue[k], new) : Append(queue[k], new)[i] = task)
        <=> task = new \/ \E i \in DOMAIN queue[k] : queue[k][i] = task
  <2>1. /\ Len(queue[k]) + 1 \in DOMAIN Append(queue[k], new)
        /\ Append(queue[k], new)[Len(queue[k]) + 1] = new
    BY <1>3
  <2>2. \A i \in DOMAIN queue[k] : /\ i \in DOMAIN Append(queue[k], new)
                                  /\ Append(queue[k], new)[i] = queue[k][i]
    BY <1>3
  <2>3. \A i \in DOMAIN Append(queue[k], new) : i = Len(queue[k]) + 1 \/ i \in DOMAIN queue[k]
    BY <1>3
  <2> QED BY <2>1, <2>2, <2>3
<1> QED BY <1>1, <1>2, <1>4 DEF Flying

(* Only the head of a list leaves it. *)
LEMMA RemainsQueued ==
  ASSUME TypeOK, NEW t \in Loop, queue[t] # <<>>, Dequeue(t),
         NEW l \in Loop, NEW i \in DOMAIN queue[l], queue[l][i] # Head(queue[t])
  PROVE  \E j \in DOMAIN queue'[l] : queue'[l][j] = queue[l][i]
<1>1. queue[t] \in Seq(Task) /\ queue'[t] = Tail(queue[t])
      /\ \A u \in Loop \ {t} : queue'[u] = queue[u]
  BY DEF TypeOK, Dequeue
<1>2. CASE l = t
  <2>1. i \in Nat /\ i # 1 /\ i - 1 \in DOMAIN Tail(queue[t]) /\ Tail(queue[t])[i - 1] = queue[t][i]
    BY <1>1, <1>2
  <2> QED BY <1>1, <1>2, <2>1
<1>3. CASE l # t
  BY <1>1, <1>3
<1> QED BY <1>2, <1>3

LEMMA FlightTake ==
  ASSUME LifeInv, NEW t \in Loop, queue[t] # <<>>, Dequeue(t), UNCHANGED <<pc, arg>>,
         NEW task, task.chan \in Conn
  PROVE  Flying(task)' <=> Flying(task) /\ task # Head(queue[t])
<1>1. TypeOK
  BY DEF LifeInv, TypeInv
<1>2. ASSUME Flying(task), task # Head(queue[t]) PROVE Flying(task)'
  BY <1>1, <1>2, RemainsQueued DEF Flying
<1>3. ASSUME Flying(task)' PROVE Flying(task) /\ task # Head(queue[t])
  BY <1>3, TakesOnly DEF Flying
<1> QED BY <1>2, <1>3
-----------------------------------------------------------------------------
(***************************************************************************)
(* Accepted connections.  A connection with empty buffers that is not on   *)
(* its way to its loop is watched there, so long as the table has an entry *)
(* for every descriptor there may be.                                      *)
(***************************************************************************)
RoomForAll == IsFiniteSet(Fd) /\ Cardinality(Fd) <= MAX

Kept == \A c \in Conn : state[c] = "open" /\ left[c] = {} =>
          InFlight(c, "ADD") \/ Watches(home[c], fdOf[c])

(* A table without an unused entry has one for each descriptor. *)
LEMMA RoomInTable ==
  ASSUME RoomForAll, NEW d \in PollData, TableOK(d), NEW f \in Fd, SlotsOf(d, f) = {}
  PROVE  SlotsOf(d, NoFd) # {}
<1> SUFFICES ASSUME \A i \in Slot : d.fd[i] # NoFd PROVE FALSE
  BY DEF SlotsOf
<1>1. d.fd \in [Slot -> Fd \ {f}]
  BY DEF PollData, SlotsOf
<1>2. IsFiniteSet(Slot) /\ Cardinality(Slot) = MAX
  <2>1. 0 \in Int /\ MAX - 1 \in Int /\ MAX >= 1
    BY PollAssumption
  <2>2. IsFiniteSet(0 .. MAX - 1)
        /\ Cardinality(0 .. MAX - 1) = IF 0 > MAX - 1 THEN 0 ELSE (MAX - 1) - 0 + 1
    BY <2>1, FS_Interval
  <2> QED BY <2>1, <2>2, PollAssumption DEF Slot
<1>3. IsFiniteSet(Fd \ {f}) /\ Cardinality(Fd \ {f}) = Cardinality(Fd) - 1
  BY FS_RemoveElement DEF RoomForAll
<1>4. Cardinality(Fd \ {f}) < Cardinality(Slot)
  BY <1>2, <1>3, FS_CardinalityType, PollAssumption DEF RoomForAll
<1>5. PICK i, j \in Slot : i # j /\ d.fd[i] = d.fd[j]
  BY <1>1, <1>2, <1>3, <1>4, FS_PigeonHole
<1> QED BY <1>5 DEF TableOK

LEMMA QuietKept ==
  ASSUME Kept,
         \A c \in Conn : state'[c] = "open" /\ left'[c] = {} =>
           /\ state[c] = "open" /\ left[c] = {} /\ home'[c] = home[c] /\ fdOf'[c] = fdOf[c]
           /\ InFlight(c, "ADD") => InFlight(c, "ADD")' \/ Watches(home[c], fdOf[c])'
           /\ Watches(home[c], fdOf[c]) => Watches(home[c], fdOf[c])'
  PROVE  Kept'
<1> SUFFICES ASSUME NEW c \in Conn, state'[c] = "open", left'[c] = {}
             PROVE  InFlight(c, "ADD")' \/ Watches(home[c], fdOf[c])'
  BY DEF Kept
<1> QED BY DEF Kept, Watches

(* The channel of the ADD finds neither map nor table occupied, and room.   *)
LEMMA AddKeeps ==
  ASSUME RoomForAll, LifeInv, Kept, NEW t \in Loop, eventLoopAdd(t)
  PROVE  Kept'
<1> USE DEF LifeInv, TypeInv
<1>1. PICK task \in Task : task = Head(queue[t])
  BY HeadTaskOK DEF eventLoopAdd, HasTask
<1>2. /\ queue[t] # <<>> /\ Dequeue(t) /\ task.type = "ADD"
      /\ UNCHANGED <<pc, arg, state, fdOf, home, left>>
      /\ Fits(t, task) /\ TaskOK(task)
  BY <1>1, TakesOnly DEF eventLoopAdd, HasTask, connVars
<1>3. \A l \in Loop, i \in Slot : poll[l].fd[i] # NoFd => poll'[l].fd[i] = poll[l].fd[i]
  <2>1. CASE poll' = poll
    BY <2>1
  <2>2. CASE task.chan \in Conn /\ poll' = [poll EXCEPT ![t] = pollAdd(@, fdOf[task.chan], {"in"})]
    <3>1. fdOf[task.chan] \in Fd
      BY <1>2, <2>2, ConstantFacts DEF TaskOK
    <3>2. poll'[t] = pollAdd(poll[t], fdOf[task.chan], {"in"}) /\ \A u \in Loop \ {t} : poll'[u] = poll[u]
      BY <2>2 DEF TypeOK
    <3>3. poll[t] \in PollData /\ {"in"} \in SUBSET Event
      BY ConstantFacts DEF TypeOK
    <3>4. \A i \in Slot : poll[t].fd[i] # NoFd =>
            pollAdd(poll[t], fdOf[task.chan], {"in"}).fd[i] = poll[t].fd[i]
      BY <3>1, <3>3, PollAdd
    <3> QED BY <3>2, <3>4
  <2> QED BY <1>1, <2>1, <2>2 DEF eventLoopAdd
<1>4. \A c \in Conn : state[c] = "open" /\ Watches(home[c], fdOf[c]) => Watches(home[c], fdOf[c])'
  <2> SUFFICES ASSUME NEW c \in Conn, state[c] = "open", Watches(home[c], fdOf[c])
               PROVE  Watches(home[c], fdOf[c])'
    OBVIOUS
  <2>1. PICK l \in Loop, f \in ConnFd : l = home[c] /\ f = fdOf[c]
    BY DEF TypeOK, OneOpen
  <2>2. PICK i \in Slot : poll[l].fd[i] = f /\ f # NoFd
    BY <2>1, ConstantFacts DEF Watches
  <2> QED BY <1>2, <1>3, <2>1, <2>2 DEF Watches
<1>5. ASSUME NEW c \in Conn, state[c] = "open", InFlight(c, "ADD")
      PROVE  InFlight(c, "ADD")' \/ Watches(home[c], fdOf[c])'
  <2>1. CASE task.chan = c
    <3>1. PICK f \in ConnFd : f = fdOf[c]
      BY <1>2, <2>1 DEF TaskOK
    <3>2. home[c] = t /\ list[t][f] # c
      BY <1>2, <2>1, <3>1 DEF Fits
    <3>3. list[t][f] \notin Conn
      BY <1>5, <3>1, <3>2 DEF MapMatchesPoll, OpenOn, OneOpen
    <3>4. list[t][f] = NULL
      BY <3>3 DEF TypeOK
    <3>5. poll' = [poll EXCEPT ![t] = pollAdd(@, f, {"in"})]
      BY <1>1, <2>1, <3>1, <3>4 DEF eventLoopAdd
    <3>6. PICK d \in PollData : d = poll[t] /\ TableOK(d) /\ SlotsOf(d, f) = {}
      <4>1. poll[t] \in PollData /\ TableOK(poll[t])
        BY DEF TypeOK, TablesOK
      <4>2. SlotsOf(poll[t], f) = {}
        BY <3>3 DEF MapMatchesPoll, Watches, SlotsOf
      <4> QED BY <4>1, <4>2
    <3>7. SlotsOf(d, NoFd) # {} /\ f \in Fd /\ {"in"} \in SUBSET Event
      BY <3>6, RoomInTable, ConstantFacts
    <3>8. \E i \in Slot : poll'[t].fd[i] = f
      <4>1. \E i \in Slot : pollAdd(d, f, {"in"}).fd[i] = f
        <5>1. PICK ev \in SUBSET Event : ev = {"in"}
          BY <3>7
        <5>2. SlotsOf(d, NoFd) # {} => \E i \in Slot : pollAdd(d, f, ev).fd[i] = f
          <6> HIDE DEF LifeInv, TypeInv
          <6> QED BY <3>6, <3>7, TableAdd
        <5> QED BY <3>7, <5>1, <5>2
      <4> QED BY <3>5, <3>6, <4>1 DEF TypeOK
    <3> QED BY <1>2, <3>1, <3>2, <3>8 DEF Watches
  <2>2. CASE task.chan # c
    <3>1. Flying([type |-> "ADD", chan |-> c])'
      BY <1>1, <1>2, <1>5, <2>2, FlightIsFlying, FlightTake
    <3> QED BY <3>1, FlightIsFlying
  <2> QED BY <2>1, <2>2
<1> QED BY <1>2, <1>4, <1>5, QuietKept

(* The DELETE of a connection with empty buffers frees it; of the table it  *)
(* clears no other connection's entry.                                      *)
LEMMA RemoveKeeps ==
  ASSUME LifeInv, Kept, NEW t \in Loop, eventLoopRemove(t)
  PROVE  Kept'
<1> USE DEF LifeInv, TypeInv
<1>1. PICK c : c = Head(queue[t]).chan
  OBVIOUS
<1>2. /\ queue[t] # <<>> /\ Dequeue(t) /\ Head(queue[t]).type = "DELETE"
      /\ UNCHANGED <<pc, arg, fdOf, home, left>> /\ tcpConnectionDestory(c)
      /\ Fits(t, Head(queue[t])) /\ TaskOK(Head(queue[t]))
  BY <1>1, TakesOnly DEF eventLoopRemove, HasTask
<1>3. PICK f \in ConnFd : f = fdOf[c] /\ c \in Conn /\ state[c] = "open" /\ home[c] = t
  BY <1>1, <1>2 DEF TaskOK, Fits
<1>4. poll'[t] = pollRemove(poll[t], f) /\ \A u \in Loop \ {t} : poll'[u] = poll[u]
  BY <1>1, <1>3 DEF eventLoopRemove, TypeOK
<1>5. \A l \in Loop, i \in Slot : l # t \/ poll[l].fd[i] # f => poll'[l].fd[i] = poll[l].fd[i]
  BY <1>4, PollRemove DEF TypeOK
<1>6. left[c] = {} => state'[c] = "freed"
  BY <1>2, <1>3 DEF tcpConnectionDestory, destoryChannel, TypeOK
<1>7. \A d \in Conn : d # c => state'[d] = state[d]
  BY <1>2, <1>3 DEF tcpConnectionDestory, destoryChannel, TypeOK
<1>8. ASSUME NEW d \in Conn, state[d] = "open", d # c
      PROVE  /\ InFlight(d, "ADD") => InFlight(d, "ADD")'
             /\ Watches(home[d], fdOf[d]) => Watches(home[d], fdOf[d])'
  <2>1. fdOf[d] # f
    BY <1>3, <1>8 DEF OneOpen
  <2>3. InFlight(d, "ADD") => InFlight(d, "ADD")'
    <3>1. [type |-> "ADD", chan |-> d].chan \in Conn /\ [type |-> "ADD", chan |-> d] # Head(queue[t])
      BY <1>2
    <3> QED BY <1>2, <3>1, FlightIsFlying, FlightTake
  <2>4. home[d] \in Loop
    BY DEF TypeOK
  <2> QED BY <1>2, <1>5, <2>1, <2>3, <2>4 DEF Watches
<1> QED BY <1>2, <1>6, <1>7, <1>8, QuietKept

LEMMA KeptStep == RoomForAll /\ LifeInv /\ Kept /\ [Next]_vars => Kept'
<1> SUFFICES ASSUME RoomForAll, LifeInv, Kept, [Next]_vars PROVE Kept'
  OBVIOUS
<1>1. TypeOK /\ TablesOK
  BY DEF LifeInv, TypeInv
<1>2. ASSUME UNCHANGED <<queue, fdOf, home>>, \A l \in Loop : poll'[l].fd = poll[l].fd,
             \A t \in Loop : pc[t] = "add" => pc'[t] = "add" /\ arg'[t] = arg[t],
             \A c \in Conn : state'[c] = "open" /\ left'[c] = {} => state[c] = "open" /\ left[c] = {}
      PROVE  Kept'
  <2>1. \A c \in Conn : InFlight(c, "ADD") => InFlight(c, "ADD")'
    BY <1>2 DEF InFlight
  <2>2. \A l \in Loop : \A f : Watches(l, f) => Watches(l, f)'
    BY <1>2 DEF Watches
  <2>3. \A c \in Conn : Watches(home[c], fdOf[c]) => Watches(home[c], fdOf[c])'
    BY <1>1, <1>2, <2>2 DEF Watches, TypeOK
  <2> QED BY <1>2, <2>1, <2>3, QuietKept
<1>3. CASE UNCHANGED vars
  BY <1>2, <1>3 DEF vars
<1>4. ASSUME NEW c \in Conn, Connect(c) \/ \E kind \in RequestKind : Send(c, kind) PROVE Kept'
  BY <1>1, <1>2, <1>4 DEF Connect, Send, TypeOK
<1>5. ASSUME NEW t \in Loop, PollReturns(t) PROVE Kept'
  <2>1. \A l \in Loop : poll'[l].fd = poll[l].fd
    BY <1>1, <1>5, PollReturnsTable
  <2> QED BY <1>1, <1>2, <1>5, <2>1 DEF PollReturns, Goto, connVars, TypeOK
<1>6. ASSUME NEW t \in Loop, \/ readLocalMessage(t) \/ acceptFails(t) \/ taskWakeup(t)
                             \/ LockTasks(t) \/ UnlockTasks(t) \/ tcpConnectionInitReturns(t)
      PROVE  Kept'
  <2>1. UNCHANGED <<poll, queue, state, fdOf, home, left>>
    BY <1>6 DEF readLocalMessage, acceptFails, taskWakeup, LockTasks, UnlockTasks,
                tcpConnectionInitReturns, connVars
  <2>2. \A u \in Loop : pc[u] = "add" => pc'[u] = "add" /\ arg'[u] = arg[u]
    BY <1>1, <1>6 DEF readLocalMessage, acceptFails, taskWakeup, LockTasks, UnlockTasks,
                      tcpConnectionInitReturns, Goto, TypeOK
  <2> QED BY <1>2, <2>1, <2>2
<1>7. ASSUME NEW t \in Loop, processRead(t) PROVE Kept'
  <2>1. \A c \in Conn : left'[c] = {} => left[c] = {}
    BY <1>1, <1>7 DEF processRead, TypeOK
  <2>2. UNCHANGED <<poll, queue, state, fdOf, home>>
    BY <1>7 DEF processRead
  <2>3. \A u \in Loop : pc[u] = "add" => pc'[u] = "add" /\ arg'[u] = arg[u]
    BY <1>1, <1>7 DEF processRead, Goto, TypeOK
  <2> QED BY <1>2, <2>1, <2>2, <2>3
<1>8. ASSUME NEW t \in Loop, NEW c \in Conn, NEW f \in ConnFd, acceptConnection(t, c, f)
      PROVE  Kept'
  <2>1. pc'[t] = "add" /\ arg'[t].task = [type |-> "ADD", chan |-> c]
    BY <1>1, <1>8 DEF acceptConnection, Goto, TypeOK
  <2>2. InFlight(c, "ADD")'
    BY <2>1 DEF InFlight
  <2>3. \A u \in Loop : pc[u] = "add" => pc'[u] = "add" /\ arg'[u] = arg[u]
    BY <1>1, <1>8 DEF acceptConnection, Goto, TypeOK
  <2>4. \A d \in Conn : InFlight(d, "ADD") => InFlight(d, "ADD")'
    BY <1>8, <2>3 DEF acceptConnection, InFlight
  <2>5. UNCHANGED <<poll, left>>
        /\ \A d \in Conn \ {c} : state'[d] = state[d] /\ fdOf'[d] = fdOf[d] /\ home'[d] = home[d]
    BY <1>1, <1>8 DEF acceptConnection, TypeOK
  <2>6. ASSUME NEW d \in Conn, d # c, state'[d] = "open", left'[d] = {}
        PROVE  (InFlight(d, "ADD") \/ Watches(home[d], fdOf[d]))'
    BY <2>4, <2>5, <2>6 DEF Kept, Watches
  <2> QED BY <2>2, <2>6 DEF Kept
<1>9. ASSUME NEW t \in Loop, eventLoopAddTask(t) PROVE Kept'
  <2>1. UNCHANGED <<poll, state, fdOf, home, left>>
    BY <1>9 DEF eventLoopAddTask, Enqueue, connVars
  <2>2. \A c \in Conn : InFlight(c, "ADD") => InFlight(c, "ADD")'
    BY <1>1, <1>9, FlightIsFlying, FlightQueue
  <2> QED BY <2>1, <2>2, QuietKept DEF Watches
<1> QED
  BY <1>3, <1>4, <1>5, <1>6, <1>7, <1>8, <1>9, AddKeeps, RemoveKeeps DEF Next, Clients, Step

(* What is watched is watched once, within what poll(2) is shown, and not    *)
(* before its ADD is carried out.                                           *)
LEMMA KeptIsHeld == LifeInv /\ Kept => AcceptedIsHeld
<1> SUFFICES ASSUME LifeInv, Kept, NEW c \in Conn, state[c] = "open", left[c] = {}
             PROVE  \/ InFlight(c, "ADD") /\ ~Watches(home[c], fdOf[c])
                    \/ /\ ~InFlight(c, "ADD")
                       /\ \E i \in 0 .. poll[home[c]].maxfd : SlotsOf(poll[home[c]], fdOf[c]) = {i}
  BY DEF AcceptedIsHeld
<1> USE DEF LifeInv, TypeInv
<1>1. PICK l \in Loop, f \in ConnFd : l = home[c] /\ f = fdOf[c]
  BY DEF TypeOK, OneOpen
<1>2. InFlight(c, "ADD") => list[l][f] # c
  BY <1>1 DEF InFlight, TasksFit, Fits
<1>3. Watches(l, f) => list[l][f] = c
  BY <1>1 DEF MapMatchesPoll, OpenOn, OneOpen
<1>4. ASSUME Watches(l, f)
      PROVE  \E i \in 0 .. poll[l].maxfd : SlotsOf(poll[l], f) = {i}
  <2>1. PICK i \in Slot : poll[l].fd[i] = f
    BY <1>4 DEF Watches
  <2>2. TableOK(poll[l]) /\ poll[l] \in PollData /\ f # NoFd
    BY ConstantFacts DEF TypeOK, TablesOK
  <2>3. SlotsOf(poll[l], f) = {i}
    BY <2>1, <2>2 DEF SlotsOf, TableOK
  <2>4. i \in 0 .. poll[l].maxfd
    <3>1. i <= poll[l].maxfd
      BY <2>1, <2>2 DEF TableOK
    <3>2. i \in Nat /\ poll[l].maxfd \in Nat
      BY <2>2, ConstantFacts DEF PollData
    <3> QED BY <3>1, <3>2
  <2> QED BY <2>3, <2>4
<1> QED BY <1>1, <1>2, <1>3, <1>4 DEF Kept

(* An accepted connection is neither forgotten nor held twice, provided the *)
(* table has as many entries as there are descriptors (both are 1024 by     *)
(* default): pollAdd's silent refusal of a full table never happens         *)
(* (TcpConnection.c:62-84, EventLoop.c:187-204, PollDispatcher.c:50-82).    *)
THEOREM AcceptedStaysHeld == ASSUME RoomForAll PROVE Spec => []AcceptedIsHeld
<1>1. Init => Kept
  BY DEF Init, Kept
<1>2. LifeInv /\ Kept /\ [Next]_vars => (LifeInv /\ Kept)'
  BY LifeStep, KeptStep
<1> QED BY <1>1, <1>2, InitLife, KeptIsHeld, PTL DEF Spec
-----------------------------------------------------------------------------
(***************************************************************************)
(* The task list is bounded.  Only the main thread queues to another loop, *)
(* and it blocks in the wake-up write that follows; so a list is paid for  *)
(* by the bytes in the pair, but for the bytes read since poll(2) last     *)
(* returned, a task not yet announced, and the loop's own.                 *)
(***************************************************************************)
SoleAcceptor ==
  \A t \in Loop : /\ pc[t] = "add" /\ t # 0 => arg[t].loop = t
                  /\ pc[t] = "wake" => t = 0

Unsaid(l) == IF pc[0] = "wake" /\ arg[0].loop = l THEN 1 ELSE 0
Own(l)    == IF pc[l] \in {"lock", "own"} THEN 1 ELSE 0
Unread(l) == IF pc[l] = "poll" \/ at[l] = 0 THEN 0 ELSE LocalBuf
Paid(l)   == Len(queue[l]) - Unsaid(l) - Own(l)

PaidFor(l) == Paid(l) * WakeLen <= pair[l] + Unread(l)
Counted    == \A l \in Loop : PaidFor(l)

(* The arithmetic of it, kept apart for the provers. *)
LEMMA TimesMonotone ==
  ASSUME NEW a \in Int, NEW b \in Int, NEW w \in Nat, a <= b
  PROVE  a * w <= b * w
OBVIOUS

LEMMA TimesNext ==
  ASSUME NEW a \in Int, NEW w \in Nat
  PROVE  (a + 1) * w = a * w + w
OBVIOUS

LEMMA Quotient ==
  ASSUME NEW n \in Int, NEW a \in Nat, NEW w \in Nat \ {0}, n * w <= a
  PROVE  n <= a \div w
<1> DEFINE q == a \div w
<1>1. q \in Int /\ a = w * q + (a % w) /\ a % w \in 0 .. w - 1
  OBVIOUS
<1> HIDE DEF q
<1>2. a < w * q + w
  <2>1. a % w < w
    BY <1>1
  <2>2. w * q \in Int /\ a % w \in Int
    BY <1>1
  <2> QED BY <1>1, <2>1, <2>2
<1>3. ASSUME n >= q + 1 PROVE FALSE
  <2>1. (q + 1) * w <= n * w
    BY <1>1, <1>3, TimesMonotone
  <2>2. (q + 1) * w = q * w + w /\ q * w = w * q
    BY <1>1, TimesNext
  <2>3. n * w \in Int /\ w * q \in Int
    BY <1>1
  <2> QED BY <1>2, <2>1, <2>2, <2>3
<1> QED BY <1>1, <1>3 DEF q

LEMMA CountsAreInt ==
  ASSUME NEW l \in Loop
  PROVE  /\ Unsaid(l) \in {0, 1} /\ Own(l) \in {0, 1}
         /\ TypeOK  => /\ Len(queue[l]) \in Nat /\ Paid(l) \in Int
                       /\ pair[l] \in Nat /\ pair[l] <= PairCap
                       /\ Unread(l) \in Nat /\ Unread(l) <= LocalBuf
         /\ TypeOK' => /\ Len(queue'[l]) \in Nat /\ Paid(l)' \in Int
                       /\ pair'[l] \in Nat /\ Unread(l)' \in Nat
<1>1. TypeOK  => Len(queue[l]) \in Nat /\ pair[l] \in Nat /\ pair[l] <= PairCap
  BY ConstantFacts DEF TypeOK
<1>2. TypeOK' => Len(queue'[l]) \in Nat /\ pair'[l] \in Nat
  BY ConstantFacts DEF TypeOK
<1> QED BY <1>1, <1>2, ConstantFacts DEF Paid, Unsaid, Own, Unread

LEMMA QuietCount ==
  ASSUME TypeOK, TypeOK', NEW l \in Loop, PaidFor(l), Paid(l)' <= Paid(l),
         pair[l] + Unread(l) <= pair'[l] + Unread(l)'
  PROVE  PaidFor(l)'
<1>1. Paid(l)' * WakeLen <= Paid(l) * WakeLen
  BY CountsAreInt, TimesMonotone, ConstantFacts
<1>2. Paid(l)' * WakeLen \in Int /\ Paid(l) * WakeLen \in Int
  BY CountsAreInt, ConstantFacts, SMTT(30)
<1>3. pair[l] + Unread(l) \in Int /\ pair'[l] + Unread(l)' \in Int
  BY CountsAreInt, ConstantFacts, SMTT(30)
<1>4. Paid(l) * WakeLen <= pair[l] + Unread(l)
  BY DEF PaidFor
<1>5. Paid(l)' * WakeLen <= pair'[l] + Unread(l)'
  BY <1>1, <1>2, <1>3, <1>4
<1> QED BY <1>5 DEF PaidFor

(* An empty list is paid for. *)
LEMMA EmptyCount ==
  ASSUME TypeOK', NEW l \in Loop, queue'[l] = <<>>
  PROVE  PaidFor(l)'
<1>1. Paid(l)' \in Int /\ Paid(l)' <= 0
  BY CountsAreInt DEF Paid, Unsaid, Own
<1>2. Paid(l)' * WakeLen <= 0 * WakeLen
  BY <1>1, TimesMonotone, ConstantFacts
<1>3. 0 * WakeLen = 0 /\ Paid(l)' * WakeLen \in Int
  BY <1>1, ConstantFacts
<1>4. pair'[l] + Unread(l)' \in Nat
  BY CountsAreInt, ConstantFacts
<1>5. Paid(l)' * WakeLen <= pair'[l] + Unread(l)'
  BY <1>2, <1>3, <1>4
<1> QED BY <1>5 DEF PaidFor

(* Callbacks of the workers queue to their own loop, whose channels theirs   *)
(* are; the listener is the main loop's.                                    *)
LEMMA SoleAcceptorStep ==
  ASSUME LifeInv, SoleAcceptor, [Next]_vars
  PROVE  SoleAcceptor'
<1> USE DEF LifeInv, TypeInv
<1>1. ASSUME NEW t \in Loop, pc' = pc \/ \E p \in PC \ {"add", "wake"} : pc' = [pc EXCEPT ![t] = p],
             arg' = arg
      PROVE  SoleAcceptor'
  BY <1>1 DEF SoleAcceptor, TypeOK
<1>2. CASE UNCHANGED <<pc, arg>>
  BY <1>2 DEF SoleAcceptor
<1>3. ASSUME NEW t \in Loop, \/ PollReturns(t) \/ taskWakeup(t) \/ LockTasks(t)
                             \/ UnlockTasks(t) \/ tcpConnectionInitReturns(t)
      PROVE  SoleAcceptor'
  BY <1>1, <1>3 DEF PollReturns, taskWakeup, LockTasks, UnlockTasks, tcpConnectionInitReturns,
                    Goto, PC
<1>4. ASSUME NEW t \in Loop, \/ acceptFails(t) \/ processRead(t)
                             \/ \E c \in Conn, f \in ConnFd : acceptConnection(t, c, f)
      PROVE  SoleAcceptor'
  <2>1. /\ pc'[t] = "add" /\ \A u \in Loop \ {t} : pc'[u] = pc[u] /\ arg'[u] = arg[u]
    BY <1>4 DEF acceptFails, processRead, acceptConnection, Goto, TypeOK
  <2>2. Active(t) # {} /\ pc[t] = "scan"
    BY <1>4 DEF acceptFails, processRead, acceptConnection
  <2>3. PICK i \in Slot : i = Current(t)
    BY <2>2, CurrentInSlot
  <2>4. CASE processRead(t)
    <3>1. home[list[t][poll[t].fd[i]]] = t
      BY <2>2, <2>3, <2>4, ReadsOwn, ZenonT(30) DEF processRead, CurrentFd
    <3>2. arg'[t].loop = t
      BY <2>3, <2>4, <3>1 DEF processRead, CurrentFd, TypeOK
    <3> QED BY <2>1, <3>2 DEF SoleAcceptor
  <2>5. CASE ~processRead(t)
    <3>1. t = 0
      BY <1>4, <2>3, <2>5 DEF acceptFails, acceptConnection, CurrentFd, TablesOK
    <3> QED BY <2>1, <3>1 DEF SoleAcceptor
  <2> QED BY <2>4, <2>5
<1>5. ASSUME NEW t \in Loop, eventLoopAddTask(t) PROVE SoleAcceptor'
  <2>1. /\ pc[t] = "add" /\ pc'[t] = (IF arg[t].loop = t THEN "lock" ELSE "wake") /\ arg' = arg
        /\ \A u \in Loop \ {t} : pc'[u] = pc[u]
    BY <1>5 DEF eventLoopAddTask, Enqueue, Goto, TypeOK
  <2> QED BY <2>1 DEF SoleAcceptor
<1>6. UNCHANGED vars => UNCHANGED <<pc, arg>>
  BY DEF vars
<1>7. \A t \in Loop : readLocalMessage(t) \/ eventLoopAdd(t) \/ eventLoopRemove(t) =>
        UNCHANGED <<pc, arg>>
  BY DEF readLocalMessage, eventLoopAdd, eventLoopRemove
<1>8. Clients => UNCHANGED <<pc, arg>>
  BY DEF Clients, Connect, Send
<1> QED
  BY <1>2, <1>3, <1>4, <1>5, <1>6, <1>7, <1>8 DEF Next, Step

(* A thread's step at which nothing it counts by changes, up to its turn at *)
(* the table, which may only add what it has read.                          *)
LEMMA QuietThread ==
  ASSUME TypeOK, TypeOK', Counted, NEW t \in Loop, UNCHANGED <<queue, pair>>,
         \A u \in Loop \ {t} : pc'[u] = pc[u] /\ at'[u] = at[u] /\ arg'[u] = arg[u],
         pc[t] # "wake" /\ pc'[t] # "wake",
         pc[t] \in {"lock", "own"} <=> pc'[t] \in {"lock", "own"},
         Unread(t) <= Unread(t)'
  PROVE  Counted'
<1> SUFFICES ASSUME NEW l \in Loop PROVE PaidFor(l)'
  BY DEF Counted
<1>1. PaidFor(l)
  BY DEF Counted
<1>2. 0 \in Loop
  BY ConstantFacts
<1>3. Unsaid(l)' = Unsaid(l) /\ Own(l)' = Own(l)
  BY <1>2 DEF Unsaid, Own
<1>4. Paid(l)' = Paid(l) /\ Paid(l) \in Int
  BY <1>3, CountsAreInt DEF Paid
<1>5. Unread(l) <= Unread(l)'
  <2>1. CASE l = t
    BY <2>1
  <2>2. CASE l # t
    <3>1. Unread(l)' = Unread(l)
      BY <2>2 DEF Unread
    <3> QED BY <3>1, CountsAreInt, ConstantFacts
  <2> QED BY <2>1, <2>2
<1>6. pair[l] + Unread(l) <= pair'[l] + Unread(l)'
  BY <1>5, CountsAreInt
<1> QED BY <1>1, <1>4, <1>6, QuietCount

(* A callback's turn leaves at beyond 0. *)
LEMMA TurnCounts ==
  ASSUME TypeOK, NEW t \in Loop, Active(t) # {}, at' = Resume(t)
  PROVE  at'[t] # 0
<1>1. Current(t) \in Slot /\ at'[t] = Current(t) + 1
  BY ActiveAfter
<1> QED BY <1>1, PollAssumption DEF Slot

LEMMA CountedStep ==
  ASSUME LifeInv, TypeOK', SoleAcceptor, Counted, [Next]_vars
  PROVE  Counted'
<1>1. TypeOK /\ TypeInv /\ 0 \in Loop
  BY ConstantFacts DEF LifeInv, TypeInv
<1>2. CASE UNCHANGED <<pc, at, arg, queue, pair>>
  BY <1>2 DEF Counted, PaidFor, Paid, Unsaid, Own, Unread
<1>3. ASSUME NEW t \in Loop, PollReturns(t) PROVE Counted'
  <2>1. /\ pc[t] = "poll" /\ pc'[t] = "scan" /\ at'[t] = 0 /\ UNCHANGED <<arg, queue, pair>>
        /\ \A u \in Loop \ {t} : pc'[u] = pc[u] /\ at'[u] = at[u]
    BY <1>1, <1>3, ZenonT(30) DEF PollReturns, Goto, TypeOK
  <2>2. Unread(t) = 0 /\ Unread(t)' = 0
    BY <2>1 DEF Unread
  <2> QED BY <1>1, <2>1, <2>2, QuietThread
<1>4. ASSUME NEW t \in Loop, \/ acceptFails(t) \/ processRead(t)
                             \/ \E c \in Conn, f \in ConnFd : acceptConnection(t, c, f)
      PROVE  Counted'
  <2>1. /\ Active(t) # {} /\ pc[t] = "scan" /\ at' = Resume(t) /\ UNCHANGED <<queue, pair>>
        /\ pc'[t] = "add" /\ \A u \in Loop \ {t} : pc'[u] = pc[u] /\ arg'[u] = arg[u]
    <3>1. /\ Active(t) # {} /\ pc[t] = "scan" /\ at' = Resume(t) /\ UNCHANGED <<queue, pair>>
          /\ pc' = [pc EXCEPT ![t] = "add"]
          /\ \E a : arg' = [arg EXCEPT ![t] = a]
      BY <1>4 DEF acceptFails, processRead, acceptConnection, Goto
    <3> QED BY <1>1, <3>1 DEF TypeOK
  <2>2. at'[t] # 0 /\ \A u \in Loop \ {t} : at'[u] = at[u]
    BY <1>1, <2>1, TurnCounts, ActiveAfter
  <2>3. Unread(t)' = LocalBuf /\ Unread(t) <= LocalBuf
    BY <1>1, <2>1, <2>2, CountsAreInt, ConstantFacts DEF Unread
  <2> QED BY <1>1, <2>1, <2>2, <2>3, QuietThread
<1>5. ASSUME NEW t \in Loop, LockTasks(t) \/ tcpConnectionInitReturns(t) PROVE Counted'
  <2>1. /\ pc[t] # "poll" /\ pc'[t] # "poll" /\ UNCHANGED <<at, arg, queue, pair>>
        /\ pc[t] # "wake" /\ pc'[t] # "wake"
        /\ pc[t] \in {"lock", "own"} <=> pc'[t] \in {"lock", "own"}
        /\ \A u \in Loop \ {t} : pc'[u] = pc[u]
    BY <1>1, <1>5 DEF LockTasks, tcpConnectionInitReturns, Goto, TypeOK
  <2>2. Unread(t)' = Unread(t)
    BY <2>1 DEF Unread
  <2>3. Unread(t) <= Unread(t)'
    BY <1>1, <2>2, CountsAreInt, ConstantFacts
  <2> QED BY <1>1, <2>1, <2>3, QuietThread
<1>6. ASSUME NEW t \in Loop, readLocalMessage(t) PROVE Counted'
  <2> SUFFICES ASSUME NEW l \in Loop PROVE PaidFor(l)'
    BY DEF Counted
  <2>1. /\ Active(t) # {} /\ CurrentFd(t) = WakeFd /\ pc[t] = "scan" /\ at' = Resume(t)
        /\ UNCHANGED <<pc, arg, queue>>
        /\ pair'[t] = UnreadAfterRead(t) /\ \A u \in Loop \ {t} : pair'[u] = pair[u]
    BY <1>1, <1>6 DEF readLocalMessage, TypeOK
  <2>2. at'[t] # 0 /\ \A u \in Loop \ {t} : at'[u] = at[u]
    BY <1>1, <2>1, TurnCounts, ActiveAfter
  <2>3. at[t] = 0
    <3>1. PICK m \in Slot : m = Current(t) /\ m \in Active(t)
      BY <1>1, <2>1, ActiveAfter
    <3>2. poll[t].fd[m] = poll[t].fd[0] /\ poll[t].fd[m] # NoFd
      BY <2>1, <3>1, ConstantFacts DEF CurrentFd, LifeInv, WakeWatched
    <3>3. m = 0
      BY <3>2, ConstantFacts DEF LifeInv, TablesOK, TableOK
    <3>4. at[t] <= 0 /\ at[t] \in Nat
      BY <1>1, <3>1, <3>3, PollAssumption DEF Active, ReadActive, TypeOK
    <3> QED BY <3>4
  <2>4. Paid(l)' = Paid(l) /\ Paid(l) \in Int /\ PaidFor(l)
    BY <1>1, <2>1, CountsAreInt DEF Paid, Unsaid, Own, Counted
  <2>5. pair[l] + Unread(l) <= pair'[l] + Unread(l)'
    <3>1. CASE l = t
      <4>1. Unread(l) = 0 /\ Unread(l)' = LocalBuf
        BY <2>1, <2>2, <2>3, <3>1 DEF Unread
      <4>2. pair[l] \in Nat /\ pair'[l] = IF pair[l] > LocalBuf THEN pair[l] - LocalBuf ELSE 0
        BY <1>1, <2>1, <3>1, CountsAreInt DEF UnreadAfterRead
      <4> QED BY <4>1, <4>2, ConstantFacts
    <3>2. CASE l # t
      <4>1. Unread(l)' = Unread(l) /\ pair'[l] = pair[l]
        BY <2>1, <2>2, <3>2 DEF Unread
      <4> QED BY <1>1, <4>1, CountsAreInt, ConstantFacts, SMTT(30)
    <3> QED BY <3>1, <3>2
  <2>6. Paid(l)' <= Paid(l)
    BY <2>4
  <2> QED BY <1>1, <2>4, <2>5, <2>6, QuietCount
<1>7. ASSUME NEW t \in Loop, eventLoopAddTask(t) PROVE Counted'
  <2> SUFFICES ASSUME NEW l \in Loop PROVE PaidFor(l)'
    BY DEF Counted
  <2>1. PICK k \in Loop : k = arg[t].loop
    BY <1>1 DEF TypeOK
  <2>2. /\ pc[t] = "add" /\ pc'[t] = (IF k = t THEN "lock" ELSE "wake")
        /\ \A u \in Loop \ {t} : pc'[u] = pc[u]
        /\ UNCHANGED <<at, arg, pair>>
        /\ queue'[k] = Append(queue[k], arg[t].task) /\ \A u \in Loop \ {k} : queue'[u] = queue[u]
    BY <1>1, <1>7, <2>1, SMTT(30) DEF eventLoopAddTask, Enqueue, Goto, TypeOK
  <2>3. k = t \/ t = 0
    BY <2>1, <2>2 DEF SoleAcceptor
  <2>4. Len(queue'[k]) = Len(queue[k]) + 1
    <3>1. queue[k] \in Seq(Task)
      BY <1>1 DEF TypeOK
    <3> QED BY <2>2, <3>1
  <2>5. Paid(l)' = Paid(l)
    <3>1. CASE l = k
      <4>1. Unsaid(l)' + Own(l)' = Unsaid(l) + Own(l) + 1
        BY <1>1, <2>1, <2>2, <2>3, <3>1 DEF Unsaid, Own
      <4>2. Unsaid(l) \in Int /\ Own(l) \in Int /\ Unsaid(l)' \in Int /\ Own(l)' \in Int
        BY DEF Unsaid, Own
      <4>3. Len(queue[l]) \in Int
        BY <1>1, CountsAreInt
      <4>4. Len(queue'[l]) = Len(queue[l]) + 1
        BY <2>4, <3>1
      <4>5. PICK n, u, o, v, p \in Int : /\ n = Len(queue[l]) /\ u = Unsaid(l) /\ o = Own(l)
                                        /\ v = Unsaid(l)' /\ p = Own(l)'
        BY <4>2, <4>3
      <4>6. v + p = u + o + 1
        BY <4>1, <4>5
      <4>7. (n + 1) - v - p = n - u - o
        BY <4>6
      <4>8. Paid(l) = n - u - o /\ Paid(l)' = (n + 1) - v - p
        BY <4>4, <4>5 DEF Paid
      <4> QED BY <4>7, <4>8
    <3>2. CASE l # k
      <4>1. Unsaid(l)' = Unsaid(l) /\ Own(l)' = Own(l)
        BY <1>1, <2>1, <2>2, <2>3, <3>2 DEF Unsaid, Own
      <4> QED BY <2>2, <3>2, <4>1 DEF Paid
    <3> QED BY <3>1, <3>2
  <2>6. Unread(l)' = Unread(l) /\ pair'[l] = pair[l]
    BY <2>2 DEF Unread
  <2> QED BY <2>5, <2>6 DEF Counted, PaidFor
<1>8. ASSUME NEW t \in Loop, taskWakeup(t) PROVE Counted'
  <2> SUFFICES ASSUME NEW l \in Loop PROVE PaidFor(l)'
    BY DEF Counted
  <2>1. t = 0 /\ pc[0] = "wake"
    BY <1>8 DEF taskWakeup, SoleAcceptor
  <2>2. PICK k \in Loop : k = arg[0].loop
    BY <1>1 DEF TypeOK
  <2>3. /\ pc'[0] = "made" /\ \A u \in Loop \ {0} : pc'[u] = pc[u]
        /\ UNCHANGED <<at, arg, queue>>
        /\ pair'[k] = pair[k] + WakeLen /\ \A u \in Loop \ {k} : pair'[u] = pair[u]
    BY <1>1, <1>8, <2>1, <2>2, SMTT(30) DEF taskWakeup, Goto, TypeOK
  <2>4. Unread(l)' = Unread(l) /\ Own(l)' = Own(l)
    BY <1>1, <2>1, <2>3 DEF Unread, Own
  <2>5. CASE l = k
    <3>1. Unsaid(l) = 1 /\ Unsaid(l)' = 0 /\ Own(l) \in Int /\ Len(queue[l]) \in Int
      BY <1>1, <2>1, <2>2, <2>3, <2>5, CountsAreInt DEF Unsaid, Own
    <3>2. Paid(l)' = Paid(l) + 1
      BY <2>3, <2>4, <3>1 DEF Paid
    <3>3. Paid(l) \in Int /\ WakeLen \in Nat
      BY <1>1, CountsAreInt, ConstantFacts
    <3>4. Paid(l)' * WakeLen = Paid(l) * WakeLen + WakeLen /\ Paid(l) * WakeLen \in Int
      BY <3>2, <3>3, TimesNext
    <3>5. Paid(l) * WakeLen <= pair[l] + Unread(l)
      BY DEF Counted, PaidFor
    <3>6. pair[l] \in Int /\ Unread(l) \in Int
      BY <1>1, CountsAreInt, SMTT(30)
    <3>7. Paid(l)' * WakeLen <= pair'[l] + Unread(l)'
      BY <2>3, <2>4, <2>5, <3>3, <3>4, <3>5, <3>6
    <3> QED BY <3>7 DEF PaidFor
  <2>6. CASE l # k
    <3>1. Unsaid(l)' = Unsaid(l) /\ pair'[l] = pair[l]
      BY <2>1, <2>2, <2>3, <2>6 DEF Unsaid
    <3>2. Paid(l)' = Paid(l)
      BY <2>3, <2>4, <3>1 DEF Paid
    <3> QED BY <2>4, <3>1, <3>2 DEF Counted, PaidFor
  <2> QED BY <2>5, <2>6
<1>9. ASSUME NEW t \in Loop, eventLoopAdd(t) \/ eventLoopRemove(t) PROVE Counted'
  <2> SUFFICES ASSUME NEW l \in Loop PROVE PaidFor(l)'
    BY DEF Counted
  <2>1. /\ queue[t] # <<>> /\ UNCHANGED <<pc, at, arg, pair>>
        /\ queue'[t] = Tail(queue[t]) /\ \A u \in Loop \ {t} : queue'[u] = queue[u]
    BY <1>1, <1>9, ZenonT(30) DEF eventLoopAdd, eventLoopRemove, HasTask, Dequeue, TypeOK
  <2>2. Len(queue'[t]) <= Len(queue[t])
    <3>1. queue[t] \in Seq(Task)
      BY <1>1 DEF TypeOK
    <3> QED BY <2>1, <3>1
  <2>3. Len(queue'[l]) <= Len(queue[l]) /\ Len(queue'[l]) \in Int /\ Len(queue[l]) \in Int
    <3>1. Len(queue'[l]) \in Int /\ Len(queue[l]) \in Int
      BY <1>1, CountsAreInt
    <3>2. l # t => queue'[l] = queue[l]
      BY <2>1
    <3> QED BY <2>2, <3>1, <3>2
  <2>4. Unread(l)' = Unread(l) /\ pair'[l] = pair[l] /\ Unsaid(l)' = Unsaid(l) /\ Own(l)' = Own(l)
    BY <2>1 DEF Unread, Unsaid, Own
  <2>5. Unsaid(l) \in Int /\ Own(l) \in Int
    BY DEF Unsaid, Own
  <2>6. Paid(l)' <= Paid(l)
    BY <2>3, <2>4, <2>5 DEF Paid
  <2>7. pair[l] + Unread(l) <= pair'[l] + Unread(l)'
    BY <1>1, <2>4, CountsAreInt
  <2> QED BY <1>1, <2>6, <2>7, QuietCount DEF Counted
<1>10. ASSUME NEW t \in Loop, UnlockTasks(t) PROVE Counted'
  <2> SUFFICES ASSUME NEW l \in Loop PROVE PaidFor(l)'
    BY DEF Counted
  <2>1. /\ queue[t] = <<>> /\ UNCHANGED <<at, arg, queue, pair>>
        /\ pc[t] # "wake" /\ pc'[t] # "wake" /\ \A u \in Loop \ {t} : pc'[u] = pc[u]
    BY <1>1, <1>10 DEF UnlockTasks, Goto, TypeOK
  <2>2. CASE l = t
    BY <2>1, <2>2, EmptyCount
  <2>3. CASE l # t
    <3>1. /\ Unread(l)' = Unread(l) /\ Unsaid(l)' = Unsaid(l) /\ Own(l)' = Own(l)
          /\ Paid(l)' = Paid(l) /\ pair'[l] = pair[l]
      BY <1>1, <2>1, <2>3 DEF Unread, Unsaid, Own, Paid
    <3> QED BY <3>1 DEF Counted, PaidFor
  <2> QED BY <2>2, <2>3
<1>11. UNCHANGED vars \/ Clients => UNCHANGED <<pc, at, arg, queue, pair>>
  BY DEF vars, Clients, Connect, Send
<1> QED
  BY <1>2, <1>3, <1>4, <1>5, <1>6, <1>7, <1>8, <1>9, <1>10, <1>11 DEF Next, Step

(* The task list of a loop never grows past what its socket pair and one    *)
(* read of it can hold, plus two (EventLoop.c:112-151, the wake-up write    *)
(* that blocks; EventLoop.c:22-33, the bounded read), for any sizes.        *)
THEOREM QueueStaysBounded == Spec => []QueueBounded
<1> DEFINE BoundInv == LifeInv /\ SoleAcceptor /\ Counted
<1>1. Init => BoundInv
  <2> SUFFICES ASSUME Init PROVE BoundInv
    OBVIOUS
  <2>1. LifeInv /\ SoleAcceptor
    BY InitLife DEF Init, SoleAcceptor
  <2>2. ASSUME NEW l \in Loop PROVE PaidFor(l)
    <3>1. Paid(l) = 0 /\ pair[l] = 0 /\ Unread(l) = 0
      BY <2>2, ConstantFacts DEF Init, Paid, Unsaid, Own, Unread
    <3>2. 0 * WakeLen = 0
      BY ConstantFacts
    <3> QED BY <3>1, <3>2 DEF PaidFor
  <2> QED BY <2>1, <2>2 DEF Counted
<1>2. BoundInv /\ [Next]_vars => BoundInv'
  <2> SUFFICES ASSUME BoundInv, [Next]_vars PROVE BoundInv'
    OBVIOUS
  <2>1. LifeInv' /\ TypeOK'
    BY LifeStep DEF LifeInv, TypeInv
  <2> QED BY <2>1, SoleAcceptorStep, CountedStep
<1>3. BoundInv => QueueBounded
  <2> SUFFICES ASSUME LifeInv, Counted, NEW l \in Loop
               PROVE  Len(queue[l]) <= (PairCap + LocalBuf) \div WakeLen + 2
    BY DEF QueueBounded, QueueBound
  <2> DEFINE A == PairCap + LocalBuf
  <2>1. /\ Len(queue[l]) \in Nat /\ Paid(l) \in Int
        /\ pair[l] \in Nat /\ pair[l] <= PairCap /\ Unread(l) \in Nat /\ Unread(l) <= LocalBuf
    BY CountsAreInt DEF LifeInv, TypeInv
  <2>2. A \in Nat /\ WakeLen \in Nat \ {0} /\ pair[l] + Unread(l) <= A
    BY <2>1, ConstantFacts
  <2>3. Paid(l) * WakeLen <= pair[l] + Unread(l) /\ Paid(l) * WakeLen \in Int
    BY <2>1, <2>2 DEF Counted, PaidFor
  <2>4. Paid(l) * WakeLen <= A
    BY <2>1, <2>2, <2>3, ConstantFacts
  <2>5. Paid(l) <= A \div WakeLen
    BY <2>1, <2>2, <2>4, Quotient
  <2>6. Len(queue[l]) <= Paid(l) + 2
    <3>1. Unsaid(l) \in {0, 1} /\ Own(l) \in {0, 1}
      BY CountsAreInt
    <3> QED BY <2>1, <3>1 DEF Paid
  <2>7. A \div WakeLen \in Int
    BY <2>2
  <2> HIDE DEF A
  <2>8. Len(queue[l]) <= A \div WakeLen + 2
    BY <2>1, <2>5, <2>6, <2>7
  <2> QED BY <2>8 DEF A
<1> QED BY <1>1, <1>2, <1>3, PTL DEF Spec
-----------------------------------------------------------------------------
(***************************************************************************)
(* The refinement of ConnService.  Besides LifeInv it takes the fate of    *)
(* leftover bytes: a connection has them only from the read that asked for *)
(* its DELETE, and once that is carried out it is no longer watched.       *)
(***************************************************************************)
LeftInv ==
  \A c \in Conn : left[c] # {} =>
    /\ state[c] = "open" /\ ~InFlight(c, "ADD")
    /\ Watches(home[c], fdOf[c]) => InFlight(c, "DELETE")

LEMMA QuietLeft ==
  ASSUME LeftInv,
         \A c \in Conn : left'[c] # {} =>
           /\ left[c] # {} /\ state'[c] = state[c]
           /\ InFlight(c, "ADD")' => InFlight(c, "ADD")
           /\ Watches(home[c], fdOf[c])' => /\ Watches(home[c], fdOf[c])
                                            /\ InFlight(c, "DELETE") => InFlight(c, "DELETE")'
  PROVE  LeftInv'
<1> SUFFICES ASSUME NEW c \in Conn, left'[c] # {}
             PROVE  (/\ state[c] = "open" /\ ~InFlight(c, "ADD")
                     /\ Watches(home[c], fdOf[c]) => InFlight(c, "DELETE"))'
  BY DEF LeftInv
<1> QED BY DEF LeftInv

(* How far the promise says a connection has got.  Tasks under way belong   *)
(* to open connections, so the cases of Phase exclude each other.           *)
PhaseIs(c) ==
  /\ state[c] = "idle"    => Phase(c) = "idle"
  /\ state[c] = "backlog" => Phase(c) = "waiting"
  /\ state[c] = "freed"   => Phase(c) = "released"
  /\ state[c] = "open"    => Phase(c) = IF InFlight(c, "DELETE") THEN "answered"
                                        ELSE IF left[c] = {} THEN "accepted" ELSE "stranded"

Phased == \A c \in Conn : PhaseIs(c)

LEMMA PhaseCases == LifeInv => Phased
<1> SUFFICES ASSUME LifeInv, NEW c \in Conn PROVE PhaseIs(c)
  BY DEF Phased
<1>1. InFlight(c, "DELETE") => state[c] = "open"
  BY DEF LifeInv, TasksFit, Fits, InFlight
<1>2. CASE InFlight(c, "DELETE")
  BY <1>1, <1>2 DEF PhaseIs, Phase
<1>3. CASE ~InFlight(c, "DELETE")
  <2>1. ASSUME state[c] = "idle" PROVE Phase(c) = "idle"
    BY <1>3, <2>1 DEF Phase
  <2>2. ASSUME state[c] = "backlog" PROVE Phase(c) = "waiting"
    BY <1>3, <2>2 DEF Phase
  <2>3. ASSUME state[c] = "freed" PROVE Phase(c) = "released"
    BY <1>3, <2>3 DEF Phase
  <2>4. ASSUME state[c] = "open"
        PROVE  Phase(c) = IF left[c] = {} THEN "accepted" ELSE "stranded"
    BY <1>3, <2>4 DEF Phase
  <2> QED BY <1>3, <2>1, <2>2, <2>3, <2>4 DEF PhaseIs
<1> QED BY <1>2, <1>3

(* What does not touch a connection, its tasks or its descriptor leaves it   *)
(* where it is.                                                             *)
LEMMA SamePhase ==
  ASSUME TypeOK, Phased, Phased',
         NEW c \in Conn, state'[c] = state[c], left'[c] = left[c],
         state[c] = "open" => (InFlight(c, "DELETE")' <=> InFlight(c, "DELETE"))
  PROVE  Phase(c)' = Phase(c)
<1>1. PhaseIs(c) /\ PhaseIs(c)'
  BY DEF Phased
<1>2. state[c] \in {"idle", "backlog", "open", "freed"}
  BY DEF TypeOK
<1> QED BY <1>1, <1>2 DEF PhaseIs

LEMMA Stutters ==
  ASSUME TypeOK, Phased, Phased', UNCHANGED <<state, left, fdOf, home>>,
         \A c \in Conn : state[c] = "open" => (InFlight(c, "DELETE")' <=> InFlight(c, "DELETE"))
  PROVE  UNCHANGED Abstract!vars
<1>1. \A c \in Conn : Phase(c)' = Phase(c)
  BY SamePhase
<1> QED BY <1>1 DEF Abstract!vars


(* The steps the promise does not see. *)
LEMMA ServeQuiet ==
  ASSUME LifeInv, Phased', LeftInv, UNCHANGED <<state, left, fdOf, home>>,
         \A l \in Loop : poll'[l].fd = poll[l].fd,
         \A c \in Conn, type \in {"ADD", "DELETE"} : InFlight(c, type)' <=> InFlight(c, type)
  PROVE  LeftInv' /\ UNCHANGED Abstract!vars
<1>1. \A c \in Conn : Watches(home[c], fdOf[c])' => Watches(home[c], fdOf[c])
  BY DEF Watches, LifeInv, TypeInv, TypeOK
<1>2. LeftInv'
  BY <1>1, QuietLeft
<1> QED BY <1>2, PhaseCases, Stutters DEF LifeInv, TypeInv

LEMMA ConnectServes ==
  ASSUME LifeInv, Phased', LeftInv, NEW c \in Conn, Connect(c)
  PROVE  LeftInv' /\ Abstract!Next
<1>1. /\ state[c] = "idle" /\ UNCHANGED <<pc, arg, poll, queue, fdOf, home, left>>
      /\ state'[c] = "backlog" /\ \A d \in Conn \ {c} : state'[d] = state[d]
  BY DEF Connect, LifeInv, TypeInv, TypeOK
<1>2. \A d \in Conn : \A type : InFlight(d, type)' <=> InFlight(d, type)
  BY <1>1 DEF InFlight
<1>3. LeftInv'
  BY <1>1, <1>2, QuietLeft DEF LeftInv, Watches
<1>4. /\ Phase(c) = "idle" /\ Phase(c)' = "waiting"
      /\ \A d \in Conn \ {c} : Phase(d)' = Phase(d)
  BY <1>1, <1>2, PhaseCases, SamePhase DEF Phased, PhaseIs, LifeInv, TypeInv
<1>5. Abstract!Arrive(c)
  BY <1>1, <1>4 DEF Abstract!Arrive, Abstract!To
<1> QED BY <1>3, <1>5 DEF Abstract!Next

LEMMA AcceptServes ==
  ASSUME LifeInv, Phased', LeftInv, NEW t \in Loop, NEW c \in Conn, NEW f \in ConnFd,
         acceptConnection(t, c, f)
  PROVE  LeftInv' /\ Abstract!Next
<1> USE DEF LifeInv, TypeInv
<1>1. PICK k \in Loop : k = Taken
  BY TakenIsLoop
<1> DEFINE new == [type |-> "ADD", chan |-> c]
<1>2. /\ state[c] = "backlog" /\ OpenOn(f) = {}
      /\ pc[t] = "scan" /\ pc' = [pc EXCEPT ![t] = "add"]
      /\ arg' = [arg EXCEPT ![t] = [loop |-> k, task |-> new]]
      /\ fdOf' = [fdOf EXCEPT ![c] = f] /\ home' = [home EXCEPT ![c] = k]
      /\ UNCHANGED <<poll, queue, left>>
      /\ state'[c] = "open" /\ \A d \in Conn \ {c} : state'[d] = state[d]
  BY <1>1 DEF acceptConnection, FreeFds, Goto, TypeOK
<1>3. left[c] = {}
  BY <1>2 DEF LeftInv
<1>4. new \in Task
  BY DEF Task, Chan
<1>5. \A d \in Conn, type \in {"ADD", "DELETE"} :
        InFlight(d, type)' <=> InFlight(d, type) \/ (type = "ADD" /\ d = c)
  <2> SUFFICES ASSUME NEW d \in Conn, NEW type \in {"ADD", "DELETE"}
               PROVE  InFlight(d, type)' <=> InFlight(d, type) \/ (type = "ADD" /\ d = c)
    OBVIOUS
  <2> DEFINE task == [type |-> type, chan |-> d]
  <2>1. Flying(task)' <=> Flying(task) \/ task = new
    <3> HIDE DEF task
    <3> QED BY <1>2, <1>4, FlightPend
  <2>2. task = new <=> type = "ADD" /\ d = c
    OBVIOUS
  <2> QED BY <2>1, <2>2, FlightIsFlying
<1>6. ~InFlight(c, "DELETE")
  BY <1>2 DEF InFlight, TasksFit, Fits
<1>7. ~InFlight(c, "DELETE")' /\ \A d \in Conn \ {c}, type \in {"ADD", "DELETE"} :
                               InFlight(d, type)' <=> InFlight(d, type)
  BY <1>5, <1>6
<1>8. LeftInv'
  <2>1. \A d \in Conn : left'[d] # {} => d # c /\ fdOf'[d] = fdOf[d] /\ home'[d] = home[d]
    BY <1>2, <1>3 DEF TypeOK
  <2> QED BY <1>2, <1>7, <2>1, QuietLeft DEF Watches
<1>9. /\ Phase(c) = "waiting" /\ Phase(c)' = "accepted"
      /\ \A d \in Conn \ {c} : Phase(d)' = Phase(d)
  BY <1>2, <1>3, <1>7, PhaseCases, SamePhase DEF Phased, PhaseIs
<1>10. \A d \in Conn : Phase(d) \in {"accepted", "answered", "stranded"} => fdOf[d] # f
  BY <1>2, PhaseCases DEF Phased, PhaseIs, OpenOn, TypeOK
<1>11. Abstract!Accept(c, f, k)
  BY <1>2, <1>9, <1>10 DEF Abstract!Accept, Abstract!To, Abstract!Holding
<1> QED BY <1>8, <1>11 DEF Abstract!Next

(* A loop's thread answers one connection at a time: it goes on from its    *)
(* DELETE task to nothing else before that is carried out.                  *)
LEMMA ReadServes ==
  ASSUME LifeInv, Phased', LeftInv, NEW t \in Loop, processRead(t)
  PROVE  LeftInv' /\ Abstract!Next
<1> USE DEF LifeInv, TypeInv
<1>1. PICK i \in Slot : i = Current(t) /\ poll[t].fd[i] \in ConnFd
  BY CurrentInSlot DEF processRead, CurrentFd
<1>2. PICK c \in Conn : c = list[t][poll[t].fd[i]]
  BY <1>1 DEF processRead, CurrentFd
<1>3. /\ pc[t] = "scan" /\ state[c] = "open" /\ home[c] = t /\ fdOf[c] = poll[t].fd[i]
      /\ \A l \in Loop : \A j \in DOMAIN queue[l] : queue[l][j].chan # c
      /\ \A u \in Loop : pc[u] = "add" => arg[u].task.chan # c
  BY <1>1, <1>2, ReadsOwn, SMTT(30) DEF processRead
<1> DEFINE new == [type |-> "DELETE", chan |-> c]
<1>4. /\ pc' = [pc EXCEPT ![t] = "add"] /\ arg' = [arg EXCEPT ![t] = [loop |-> t, task |-> new]]
      /\ UNCHANGED <<poll, queue, state, fdOf, home>>
      /\ \A d \in Conn \ {c} : left'[d] = left[d]
  BY <1>1, <1>2, <1>3 DEF processRead, Goto, CurrentFd, TypeOK
<1>5. \A type : ~InFlight(c, type)
  BY <1>3 DEF InFlight
<1>6. left[c] = {}
  BY <1>1, <1>3, <1>5 DEF LeftInv, Watches
<1>7. new \in Task
  BY DEF Task, Chan
<1>8. \A d \in Conn, type \in {"ADD", "DELETE"} :
        InFlight(d, type)' <=> InFlight(d, type) \/ (type = "DELETE" /\ d = c)
  <2> SUFFICES ASSUME NEW d \in Conn, NEW type \in {"ADD", "DELETE"}
               PROVE  InFlight(d, type)' <=> InFlight(d, type) \/ (type = "DELETE" /\ d = c)
    OBVIOUS
  <2> DEFINE task == [type |-> type, chan |-> d]
  <2>1. Flying(task)' <=> Flying(task) \/ task = new
    <3> HIDE DEF task
    <3> QED BY <1>3, <1>4, <1>7, FlightPend
  <2>2. task = new <=> type = "DELETE" /\ d = c
    OBVIOUS
  <2> QED BY <2>1, <2>2, FlightIsFlying
<1>9. /\ InFlight(c, "DELETE")' /\ ~InFlight(c, "ADD")'
      /\ \A d \in Conn \ {c}, type \in {"ADD", "DELETE"} :
                               InFlight(d, type)' <=> InFlight(d, type)
  BY <1>5, <1>8
<1>10. LeftInv'
  <2>1. ASSUME NEW d \in Conn, left'[d] # {}
        PROVE  (/\ state[d] = "open" /\ ~InFlight(d, "ADD")
                /\ Watches(home[d], fdOf[d]) => InFlight(d, "DELETE"))'
    <3>1. CASE d = c
      BY <1>3, <1>4, <1>9, <3>1
    <3>2. CASE d # c
      BY <1>4, <1>9, <2>1, <3>2 DEF LeftInv, Watches
    <3> QED BY <3>1, <3>2
  <2> QED BY <2>1 DEF LeftInv
<1>11. /\ Phase(c) = "accepted" /\ Phase(c)' = "answered"
       /\ \A d \in Conn \ {c} : Phase(d)' = Phase(d)
  BY <1>3, <1>4, <1>5, <1>6, <1>9, PhaseCases, SamePhase DEF Phased, PhaseIs
<1>12. \A d \in Conn : Phase(d) = "answered" => home[d] # t
  <2> SUFFICES ASSUME NEW d \in Conn, Phase(d) = "answered", home[d] = t PROVE FALSE
    OBVIOUS
  <2>1. InFlight(d, "DELETE")
    BY PhaseCases DEF Phased, PhaseIs, TypeOK
  <2>2. CASE \E u \in Loop : pc[u] = "add" /\ arg[u].task = [type |-> "DELETE", chan |-> d]
    BY <1>3, <2>2 DEF TasksFit, Fits, DeletesOwn
  <2>3. CASE \E l \in Loop : \E j \in DOMAIN queue[l] : queue[l][j] = [type |-> "DELETE", chan |-> d]
    BY <1>3, <2>3 DEF TasksFit, Fits, DeletesOwn
  <2> QED BY <2>1, <2>2, <2>3 DEF InFlight
<1>13. Abstract!Answer(c)
  BY <1>3, <1>4, <1>11, <1>12 DEF Abstract!Answer, Abstract!To
<1> QED BY <1>10, <1>13 DEF Abstract!Next

LEMMA AddServes ==
  ASSUME LifeInv, Phased', LeftInv, NEW t \in Loop, eventLoopAdd(t)
  PROVE  LeftInv' /\ UNCHANGED Abstract!vars
<1> USE DEF LifeInv, TypeInv
<1>1. /\ pc[t] \in {"own", "run"} /\ queue[t] # <<>> /\ Head(queue[t]).type = "ADD" /\ Dequeue(t)
      /\ UNCHANGED <<pc, arg, state, fdOf, home, left>>
  BY DEF eventLoopAdd, HasTask, connVars
<1>2. \A d \in Conn : /\ InFlight(d, "DELETE")' <=> InFlight(d, "DELETE")
                      /\ InFlight(d, "ADD")' => InFlight(d, "ADD")
  <2> SUFFICES ASSUME NEW d \in Conn
               PROVE  /\ InFlight(d, "DELETE")' <=> InFlight(d, "DELETE")
                      /\ InFlight(d, "ADD")' => InFlight(d, "ADD")
    OBVIOUS
  <2> DEFINE task(type) == [type |-> type, chan |-> d]
  <2>1. task("DELETE") # Head(queue[t])
    BY <1>1
  <2>2. \A type : Flying(task(type))' <=> Flying(task(type)) /\ task(type) # Head(queue[t])
    BY <1>1, FlightTake
  <2> QED BY <2>1, <2>2, FlightIsFlying
<1>3. PICK c : c = Head(queue[t]).chan
  OBVIOUS
<1>4. ASSUME c \in Conn /\ list[t][fdOf[c]] = NULL PROVE LeftInv'
  <2>1. queue[t] \in Seq(Task)
    BY DEF TypeOK
  <2>2. 1 \in DOMAIN queue[t] /\ queue[t][1] = Head(queue[t]) /\ Head(queue[t]) \in Task
    BY <1>1, <2>1
  <2>3. Head(queue[t]) = [type |-> "ADD", chan |-> c]
    BY <1>1, <1>3, <2>2 DEF Task
  <2>4. InFlight(c, "ADD") /\ state[c] = "open" /\ home[c] = t
    BY <1>3, <1>4, <2>2, <2>3 DEF InFlight, TasksFit, Fits
  <2>5. left[c] = {}
    BY <1>4, <2>4 DEF LeftInv
  <2>6. PICK f \in ConnFd : f = fdOf[c]
    BY <1>4, <2>4 DEF OneOpen
  <2>7. poll' = [poll EXCEPT ![t] = pollAdd(@, f, {"in"})]
    BY <1>3, <1>4, <2>6 DEF eventLoopAdd
  <2>8. SlotsOf(poll[t], f) = {}
    BY <1>4, <2>6, ReactorAssumption DEF MapMatchesPoll, Watches, SlotsOf
  <2>9. \A i \in Slot : poll'[t].fd[i] \in {poll[t].fd[i], f}
    <3>1. poll[t] \in PollData /\ TableOK(poll[t]) /\ f \in Fd /\ {"in"} \in SUBSET Event
      BY ConstantFacts DEF TypeOK, TablesOK
    <3> QED BY <2>7, <2>8, <3>1, TableAdd DEF TypeOK
  <2>10. \A l \in Loop \ {t} : poll'[l] = poll[l]
    BY <2>7 DEF TypeOK
  <2>11. \A d \in Conn : left[d] # {} /\ Watches(home[d], fdOf[d])' => Watches(home[d], fdOf[d])
    <3> SUFFICES ASSUME NEW d \in Conn, left[d] # {}, Watches(home[d], fdOf[d])'
                 PROVE  Watches(home[d], fdOf[d])
      OBVIOUS
    <3>1. d # c /\ state[d] = "open"
      BY <2>5 DEF LeftInv
    <3>2. fdOf[d] # f
      BY <1>4, <2>4, <2>6, <3>1 DEF OneOpen
    <3>3. home[d] \in Loop /\ home'[d] = home[d] /\ fdOf'[d] = fdOf[d]
      BY <1>1 DEF TypeOK
    <3>4. PICK i \in Slot : poll'[home[d]].fd[i] = fdOf[d]
      BY <3>3 DEF Watches
    <3>5. poll[home[d]].fd[i] = fdOf[d]
      BY <2>9, <2>10, <3>2, <3>3, <3>4
    <3> QED BY <3>5 DEF Watches
  <2> QED BY <1>1, <1>2, <2>11, QuietLeft
<1>5. ASSUME ~(c \in Conn /\ list[t][fdOf[c]] = NULL) PROVE LeftInv'
  <2>1. UNCHANGED poll
    BY <1>3, <1>5 DEF eventLoopAdd
  <2> QED BY <1>1, <1>2, <2>1, QuietLeft DEF Watches
<1>6. UNCHANGED Abstract!vars
  BY <1>1, <1>2, PhaseCases, Stutters
<1> QED BY <1>4, <1>5, <1>6

(* The DELETE carried out: what has leftover bytes is stranded, what has    *)
(* none released (TcpConnection.c:86-99).                                   *)
LEMMA RemoveServes ==
  ASSUME LifeInv, Phased', LeftInv, NEW t \in Loop, eventLoopRemove(t)
  PROVE  LeftInv' /\ Abstract!Next
<1> USE DEF LifeInv, TypeInv
<1>1. PICK c : c = Head(queue[t]).chan
  OBVIOUS
<1>2. /\ pc[t] \in {"own", "run"} /\ queue[t] # <<>> /\ Head(queue[t]).type = "DELETE" /\ Dequeue(t)
      /\ UNCHANGED <<pc, arg, fdOf, home, left>>
  BY DEF eventLoopRemove, HasTask
<1>3. Fits(t, Head(queue[t])) /\ TaskOK(Head(queue[t]))
  BY <1>1, <1>2, TakesOnly
<1>4. c \in Conn /\ state[c] = "open" /\ home[c] = t
  BY <1>1, <1>2, <1>3 DEF Fits, TaskOK
<1>5. PICK f \in ConnFd : f = fdOf[c]
  BY <1>4 DEF OneOpen
<1>6. Head(queue[t]) = [type |-> "DELETE", chan |-> c] /\ Flying([type |-> "DELETE", chan |-> c])
  <2>1. queue[t] \in Seq(Task)
    BY DEF TypeOK
  <2>2. 1 \in DOMAIN queue[t] /\ queue[t][1] = Head(queue[t]) /\ Head(queue[t]) \in Task
    BY <1>2, <2>1
  <2> QED BY <1>1, <1>2, <2>2 DEF Flying, Task
<1>7. /\ InFlight(c, "DELETE") /\ ~InFlight(c, "DELETE")'
      /\ InFlight(c, "ADD")' => InFlight(c, "ADD")
      /\ \A d \in Conn \ {c} : \A type : InFlight(d, type)' <=> InFlight(d, type)
  <2>1. \A d \in Conn : \A type : InFlight(d, type)'
          <=> InFlight(d, type) /\ [type |-> type, chan |-> d] # Head(queue[t])
    <3> SUFFICES ASSUME NEW d \in Conn, NEW type
                 PROVE  InFlight(d, type)'
                          <=> InFlight(d, type) /\ [type |-> type, chan |-> d] # Head(queue[t])
      OBVIOUS
    <3> DEFINE task == [type |-> type, chan |-> d]
    <3>1. task.chan \in Conn
      OBVIOUS
    <3>2. Flying(task)' <=> Flying(task) /\ task # Head(queue[t])
      <4> HIDE DEF task
      <4> QED BY <1>2, <3>1, FlightTake
    <3> QED BY <3>2, FlightIsFlying
  <2>2. InFlight(c, "DELETE")
    BY <1>6, FlightIsFlying
  <2>3. ~InFlight(c, "DELETE")' /\ (InFlight(c, "ADD")' => InFlight(c, "ADD"))
    BY <1>4, <1>6, <2>1
  <2>4. \A d \in Conn \ {c} : \A type : [type |-> type, chan |-> d] # Head(queue[t])
    BY <1>1
  <2>5. \A d \in Conn \ {c} : \A type : InFlight(d, type)' <=> InFlight(d, type)
    BY <2>1, <2>4
  <2> QED BY <2>2, <2>3, <2>5
<1>8. /\ tcpConnectionDestory(c) /\ poll' = [poll EXCEPT ![t] = pollRemove(@, f)]
      /\ \A d \in Conn \ {c} : state'[d] = state[d]
  BY <1>1, <1>4, <1>5 DEF eventLoopRemove, tcpConnectionDestory, destoryChannel, TypeOK
<1>9. /\ \A l \in Loop, g \in ConnFd : Watches(l, g)' => Watches(l, g)
      /\ ~Watches(t, f)'
  <2>1. poll[t] \in PollData /\ TableOK(poll[t]) /\ f # NoFd /\ poll'[t] = pollRemove(poll[t], f)
    BY <1>8, ConstantFacts DEF TypeOK, TablesOK
  <2>2. \A i \in Slot : poll'[t].fd[i] = IF poll[t].fd[i] = f THEN NoFd ELSE poll[t].fd[i]
    BY <2>1, TableRemove
  <2>3. \A l \in Loop \ {t} : poll'[l] = poll[l]
    BY <1>8 DEF TypeOK
  <2> QED BY <2>1, <2>2, <2>3, ConstantFacts DEF Watches
<1>10. LeftInv'
  <2> SUFFICES ASSUME NEW d \in Conn, left'[d] # {}
               PROVE  (/\ state[d] = "open" /\ ~InFlight(d, "ADD")
                       /\ Watches(home[d], fdOf[d]) => InFlight(d, "DELETE"))'
    BY DEF LeftInv
  <2>1. /\ left[d] # {} /\ state[d] = "open" /\ ~InFlight(d, "ADD")
        /\ Watches(home[d], fdOf[d]) => InFlight(d, "DELETE")
        /\ home[d] \in Loop /\ fdOf[d] \in ConnFd
    BY <1>2 DEF LeftInv, OneOpen, TypeOK
  <2>2. CASE d = c
    <3>1. UNCHANGED state
      BY <1>8, <2>1, <2>2 DEF tcpConnectionDestory
    <3> QED BY <1>2, <1>4, <1>5, <1>7, <1>9, <2>1, <2>2, <3>1 DEF Watches
  <2>3. CASE d # c
    <3>1. Watches(home[d], fdOf[d])' => Watches(home[d], fdOf[d])
      BY <1>2, <1>9, <2>1 DEF Watches
    <3> QED BY <1>7, <1>8, <2>1, <2>3, <3>1
  <2> QED BY <2>2, <2>3
<1>11. Phase(c) = "answered" /\ \A d \in Conn \ {c} : Phase(d)' = Phase(d)
  BY <1>2, <1>4, <1>7, <1>8, PhaseCases, SamePhase DEF Phased, PhaseIs
<1>12. CASE left[c] = {}
  <2>1. state'[c] = "freed"
    BY <1>4, <1>8, <1>12 DEF tcpConnectionDestory, destoryChannel, TypeOK
  <2>2. Phase(c)' = "released"
    BY <1>4, <2>1 DEF Phased, PhaseIs
  <2>3. Abstract!Release(c)
    BY <1>2, <1>4, <1>11, <2>2 DEF Abstract!Release, Abstract!To
  <2> QED BY <1>4, <1>10, <2>3 DEF Abstract!Next
<1>13. CASE left[c] # {}
  <2>1. state'[c] = "open"
    BY <1>4, <1>8, <1>13 DEF tcpConnectionDestory
  <2>2. Phase(c)' = "stranded"
    BY <1>2, <1>4, <1>7, <1>13, <2>1 DEF Phased, PhaseIs
  <2>3. Abstract!Strand(c)
    BY <1>2, <1>4, <1>11, <2>2 DEF Abstract!Strand, Abstract!To
  <2> QED BY <1>4, <1>10, <2>3 DEF Abstract!Next
<1> QED BY <1>12, <1>13

LEMMA ServeStep == LifeInv /\ LeftInv /\ [Next]_vars => LeftInv' /\ [Abstract!Next]_(Abstract!vars)
<1>1. LifeInv' => Phased'
  BY PhaseCases, PTL
<1> SUFFICES ASSUME LifeInv, LeftInv, [Next]_vars
             PROVE  LeftInv' /\ [Abstract!Next]_(Abstract!vars)
  OBVIOUS
<1>2. Phased' /\ TypeOK /\ TablesOK
  BY <1>1, LifeStep DEF LifeInv, TypeInv
<1>3. ASSUME UNCHANGED <<queue, state, left, fdOf, home>>,
             \A l \in Loop : poll'[l].fd = poll[l].fd,
             \A t \in Loop : /\ pc'[t] = "add" <=> pc[t] = "add"
                             /\ pc[t] = "add" => arg'[t] = arg[t]
      PROVE  LeftInv' /\ UNCHANGED Abstract!vars
  <2>1. \A c \in Conn, type \in {"ADD", "DELETE"} : InFlight(c, type)' <=> InFlight(c, type)
    BY <1>3, FlightSame, FlightIsFlying
  <2> QED BY <1>2, <1>3, <2>1, ServeQuiet
<1>4. CASE UNCHANGED vars
  BY <1>3, <1>4 DEF vars
<1>5. ASSUME NEW c \in Conn, NEW kind \in RequestKind, Send(c, kind)
      PROVE  LeftInv' /\ UNCHANGED Abstract!vars
  BY <1>3, <1>5 DEF Send
<1>6. ASSUME NEW t \in Loop, PollReturns(t) PROVE LeftInv' /\ UNCHANGED Abstract!vars
  <2>1. \A l \in Loop : poll'[l].fd = poll[l].fd
    BY <1>2, <1>6, PollReturnsTable
  <2>2. /\ UNCHANGED <<arg, queue, state, left, fdOf, home>>
        /\ \A u \in Loop : pc'[u] = "add" <=> pc[u] = "add"
    BY <1>2, <1>6 DEF PollReturns, Goto, connVars, TypeOK
  <2> QED BY <1>3, <2>1, <2>2
<1>7. ASSUME NEW t \in Loop, readLocalMessage(t) PROVE LeftInv' /\ UNCHANGED Abstract!vars
  BY <1>3, <1>7 DEF readLocalMessage, connVars
<1>8. ASSUME NEW t \in Loop, taskWakeup(t) \/ LockTasks(t) \/ UnlockTasks(t)
                               \/ tcpConnectionInitReturns(t)
      PROVE  LeftInv' /\ UNCHANGED Abstract!vars
  <2>1. UNCHANGED <<arg, poll, queue, state, left, fdOf, home>>
    BY <1>8 DEF taskWakeup, LockTasks, UnlockTasks, tcpConnectionInitReturns, connVars
  <2>2. \A u \in Loop : pc'[u] = "add" <=> pc[u] = "add"
    BY <1>2, <1>8 DEF taskWakeup, LockTasks, UnlockTasks, tcpConnectionInitReturns, Goto, TypeOK
  <2> QED BY <1>3, <2>1, <2>2
<1>9. ASSUME NEW t \in Loop, acceptFails(t) PROVE LeftInv' /\ UNCHANGED Abstract!vars
  <2>1. PICK k \in Loop : k = Taken
    BY <1>2, TakenIsLoop
  <2> DEFINE new == [type |-> "ADD", chan |-> BadConn]
  <2>2. /\ pc[t] = "scan" /\ pc' = [pc EXCEPT ![t] = "add"]
        /\ arg' = [arg EXCEPT ![t] = [loop |-> k, task |-> new]]
        /\ UNCHANGED <<poll, queue, state, left, fdOf, home>>
    BY <1>9, <2>1 DEF acceptFails, Goto, connVars
  <2>3. new \in Task
    BY DEF Task, Chan
  <2>4. \A task : Flying(task)' <=> Flying(task) \/ task = new
    <3> HIDE DEF new
    <3> QED BY <1>2, <2>2, <2>3, FlightPend
  <2>5. \A c \in Conn, type \in {"ADD", "DELETE"} : InFlight(c, type)' <=> InFlight(c, type)
    <3>1. \A c \in Conn : \A type : [type |-> type, chan |-> c] # new
      BY ReactorAssumption
    <3> QED BY <2>4, <3>1, FlightIsFlying
  <2> QED BY <1>2, <2>2, <2>5, ServeQuiet
<1>10. ASSUME NEW t \in Loop, eventLoopAddTask(t) PROVE LeftInv' /\ UNCHANGED Abstract!vars
  <2>1. \A c \in Conn, type \in {"ADD", "DELETE"} : InFlight(c, type)' <=> InFlight(c, type)
    BY <1>2, <1>10, FlightQueue, FlightIsFlying
  <2>2. UNCHANGED <<poll, state, left, fdOf, home>>
    BY <1>10 DEF eventLoopAddTask, Enqueue, connVars
  <2> QED BY <1>2, <2>1, <2>2, ServeQuiet
<1>11. ASSUME NEW t \in Loop, eventLoopAdd(t) PROVE LeftInv' /\ UNCHANGED Abstract!vars
  BY <1>2, <1>11, AddServes
<1>12. ASSUME NEW t \in Loop, \/ processRead(t) \/ eventLoopRemove(t)
                              \/ \E c \in Conn, f \in ConnFd : acceptConnection(t, c, f)
       PROVE  LeftInv' /\ Abstract!Next
  BY <1>2, <1>12, ReadServes, RemoveServes, AcceptServes
<1>13. ASSUME NEW c \in Conn, Connect(c) PROVE LeftInv' /\ Abstract!Next
  BY <1>2, <1>13, ConnectServes
<1> QED
  BY <1>4, <1>5, <1>6, <1>7, <1>8, <1>9, <1>10, <1>11, <1>12, <1>13 DEF Next, Clients, Step

LEMMA InitServes == Init => LeftInv /\ Abstract!Init
<1> SUFFICES ASSUME Init PROVE LeftInv /\ Abstract!Init
  OBVIOUS
<1>1. LeftInv
  BY DEF Init, LeftInv
<1>2. \A c \in Conn : Phase(c) = "idle"
  BY InitLife, PhaseCases DEF Init, Phased, PhaseIs
<1>3. home \in [Conn -> Loop]
  BY InitLife DEF LifeInv, TypeInv, TypeOK
<1> QED BY <1>1, <1>2, <1>3 DEF Init, Abstract!Init

(* The server keeps the promise of ConnService, for any number of worker    *)
(* threads, connections and descriptors: every accepted connection is on a  *)
(* descriptor nobody else holds, is answered once, by the one loop it was    *)
(* given to and by none while that loop answers another, and is then at     *)
(* once released or stranded for good.                                      *)
THEOREM ServesEachOnce == Spec => ImplementsConnService
<1>1. Init => LifeInv /\ LeftInv /\ Abstract!Init
  BY InitLife, InitServes
<1>2. LifeInv /\ LeftInv /\ [Next]_vars => LifeInv' /\ LeftInv' /\ [Abstract!Next]_(Abstract!vars)
  BY LifeStep, ServeStep
<1> QED BY <1>1, <1>2, PTL DEF Spec, ImplementsConnService, Abstract!Spec
=============================================================================
