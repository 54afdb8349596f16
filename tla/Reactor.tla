------------------------------- MODULE Reactor -------------------------------
(***************************************************************************)
(* The running server: the main event loop (loop 0), which accepts, and    *)
(* the worker loops 1..ThreadNum, which serve the accepted connections     *)
(* (EventLoop.c, TcpServer.c, TcpConnection.c, over PollDispatcher.c).     *)
(* Thread t runs loop t.  Threads meet at three places only: a loop's task *)
(* queue under its mutex, a loop's wake-up socket pair, and the kernel,    *)
(* which hands out the descriptors.                                        *)
(*                                                                         *)
(* Behaviours start where tcpServerRun enters eventLoopRun: every worker   *)
(* runs, every loop watches its own wake-up socket, loop 0 the listener.   *)
(* How the server gets there is ThreadPool's subject.                      *)
(*                                                                         *)
(* A channel is named by its connection.  Conn is the supply of clients,   *)
(* each making at most one connection, which bounds the model.             *)
(***************************************************************************)
EXTENDS Sequences, PollDispatcher

CONSTANTS
  ThreadNum,        \* worker threads; 0 makes the main loop serve as well
  Conn,             \* clients, and the connections made for them
  WakeFd,           \* a loop's own socketPair[1]
  ListenFd,         \* the listening socket
  RequestKind,      \* what clients may send, a subset of AllKinds
  WakeLen,          \* bytes of one wake-up message (7 in the source)
  LocalBuf,         \* bytes readLocalMessage reads at once (256)
  PairCap,          \* bytes a socket pair holds before write blocks
  BadConn,          \* the connection made when accept fails: its fd is -1
  NULL

AllKinds == {"complete",   \* one well-formed request and not a byte more
             "surplus",    \* a well-formed request followed by more bytes
             "partial",    \* bytes that do not yet parse as a request
             "unread",     \* a request whose answer is never sent to the end: the
                           \* client stops reading, or the file is cut short
             "eof"}        \* an orderly close, nothing sent

ConnFd == Fd \ {WakeFd, ListenFd}
Loop   == 0 .. ThreadNum

ASSUME ReactorAssumption ==
  /\ ThreadNum \in Nat
  /\ {WakeFd, ListenFd} \subseteq Fd /\ WakeFd # ListenFd
  /\ RequestKind \subseteq AllKinds
  /\ WakeLen \in Nat \ {0} /\ LocalBuf \in Nat \ {0}
  /\ PairCap \in Nat /\ PairCap >= WakeLen
  /\ BadConn \notin Conn /\ NULL \notin Conn
  /\ MAX >= 2

Chan == Conn \cup {BadConn}
Task == [type : {"ADD", "DELETE"}, chan : Chan]

VARIABLES
  pc,      \* where thread t stands, see PC
  at,      \* index of pollDispatcher's loop over the table
  arg,     \* the arguments of thread t's eventLoopAddTask call
  poll,    \* dispatcherData of each loop
  list,    \* channelMap->list of each loop, at connection descriptors
  queue,   \* task list of each loop, from head to tail
  pair,    \* bytes written to socketPair[0] and not yet read
  next,    \* pool->index
  state,   \* what became of each client
  fdOf,    \* conn->channel->fd
  home,    \* conn->evLoop
  inbox,   \* what the client's socket holds for reading
  left     \* which of a connection's buffers hold unconsumed bytes

vars == <<pc, at, arg, poll, list, queue, pair, next, state, fdOf, home, inbox, left>>
connVars == <<state, fdOf, home, inbox, left>>

PC == {"poll",   \* in dispatch: about to call poll(2), or blocked there
       "scan",   \* in dispatch: visiting the table
       "add",    \* entering eventLoopAddTask
       "wake",   \* in eventLoopAddTask, after unlock: taskWakeup is next
       "lock",   \* in eventLoopAddTask, after unlock: own queue is next
       "own",    \* eventLoopProcessTask, called by eventLoopAddTask
       "run",    \* eventLoopProcessTask, called by eventLoopRun
       "made"}   \* tcpConnectionInit, after eventLoopAddTask returned

TypeOK ==
  /\ pc    \in [Loop -> PC]
  /\ at    \in [Loop -> 0 .. MAX]
  /\ arg   \in [Loop -> [loop : Loop, task : Task]]
  /\ poll  \in [Loop -> PollData]
  /\ list  \in [Loop -> [ConnFd -> Conn \cup {NULL}]]
  /\ queue \in [Loop -> Seq(Task)]
  /\ pair  \in [Loop -> 0 .. PairCap]
  /\ next  \in Loop /\ (ThreadNum > 0 => next < ThreadNum)
  /\ state \in [Conn -> {"idle", "backlog", "open", "freed"}]
  /\ fdOf  \in [Conn -> ConnFd \cup {NoFd}]
  /\ home  \in [Conn -> Loop]
  /\ inbox \in [Conn -> AllKinds \cup {"none"}]
  /\ left  \in [Conn -> SUBSET {"read", "write"}]

(***************************************************************************)
(* The table of a loop after start-up: the wake-up channel added by        *)
(* eventLoopInitEx, then, in the main loop, the listener's.                *)
(***************************************************************************)
StartTable(l) ==
  LET own == pollAdd(pollInit, WakeFd, {"in"})
  IN  IF l = 0 THEN pollAdd(own, ListenFd, {"in"}) ELSE own

NoArg == [loop |-> 0, task |-> [type |-> "ADD", chan |-> BadConn]]

Init ==
  /\ pc    = [t \in Loop |-> "poll"]
  /\ at    = [t \in Loop |-> 0]
  /\ arg   = [t \in Loop |-> NoArg]
  /\ poll  = [l \in Loop |-> StartTable(l)]
  /\ list  = [l \in Loop |-> [f \in ConnFd |-> NULL]]
  /\ queue = [l \in Loop |-> <<>>]
  /\ pair  = [l \in Loop |-> 0]
  /\ next  = 0
  /\ state = [c \in Conn |-> "idle"]
  /\ fdOf  = [c \in Conn |-> NoFd]
  /\ home  = [c \in Conn |-> 0]
  /\ inbox = [c \in Conn |-> "none"]
  /\ left  = [c \in Conn |-> {}]
-----------------------------------------------------------------------------
(***************************************************************************)
(* Clients and the kernel.                                                 *)
(***************************************************************************)
Connect(c) ==
  /\ state[c] = "idle"
  /\ state' = [state EXCEPT ![c] = "backlog"]
  /\ UNCHANGED <<pc, at, arg, poll, list, queue, pair, next, fdOf, home, inbox, left>>

Send(c, kind) ==
  /\ state[c] \in {"backlog", "open"}
  /\ inbox[c] = "none"
  /\ inbox' = [inbox EXCEPT ![c] = kind]
  /\ UNCHANGED <<pc, at, arg, poll, list, queue, pair, next, state, fdOf, home, left>>

OpenOn(f) == {c \in Conn : state[c] = "open" /\ fdOf[c] = f}
FreeFds   == {f \in ConnFd : OpenOn(f) = {}}

(* What poll(2) reports of a descriptor of loop l.  Connections never ask   *)
(* for POLLOUT: writeEventEnable is called under MSG_SEND_AUTO only, which  *)
(* TcpConnection.h leaves undefined.                                        *)
Readable(l, f) ==
  CASE f = WakeFd   -> pair[l] > 0
    [] f = ListenFd -> \E c \in Conn : state[c] = "backlog"
    [] OTHER        -> \E c \in OpenOn(f) : inbox[c] # "none"

Holds(l, f, e) == e = "in" /\ Readable(l, f)
-----------------------------------------------------------------------------
(***************************************************************************)
(* dispatcher->dispatch of thread t (pollDispatcher).                      *)
(***************************************************************************)
Goto(t, label) == pc' = [pc EXCEPT ![t] = label]

(* poll(2) returns, with descriptors ready or after its timeout with none. *)
PollReturns(t) ==
  /\ pc[t] = "poll"
  /\ poll' = [poll EXCEPT ![t] = pollWait(@, LAMBDA f, e : Holds(t, f, e))]
  /\ at' = [at EXCEPT ![t] = 0]
  /\ Goto(t, "scan")
  /\ UNCHANGED <<arg, list, queue, pair, next, connVars>>

Active(t)   == ReadActive(poll[t], at[t])
Current(t)  == Min(Active(t))
CurrentFd(t) == poll[t].fd[Current(t)]
Resume(t)   == [at EXCEPT ![t] = Current(t) + 1]

(* Seeded fault: the callback reads nothing. *)
UnreadAfterNoRead(t) == pair[t]

(* What one read of at most LocalBuf bytes leaves in the pair. *)
UnreadAfterRead(t) == IF pair[t] > LocalBuf THEN pair[t] - LocalBuf ELSE 0

(* eventActivate on the wake-up channel: one bounded read empties what it  *)
(* can of the pair.  The read blocks while the pair is empty.              *)
readLocalMessage(t) ==
  /\ pc[t] = "scan" /\ Active(t) # {} /\ CurrentFd(t) = WakeFd
  /\ pair[t] > 0
  /\ pair' = [pair EXCEPT ![t] = UnreadAfterRead(t)]
  /\ at' = Resume(t)
  /\ UNCHANGED <<pc, arg, poll, list, queue, next, connVars>>

(* takeWorkerEventLoop: the workers in turn, or the main loop if there are *)
(* none.                                                                   *)
Taken == IF ThreadNum = 0 THEN 0 ELSE next + 1

(* Seeded fault: the index is not brought back. *)
takeWorkerEventLoopNoWrap == next' = next + 1

takeWorkerEventLoop == next' = IF ThreadNum = 0 THEN next ELSE (next + 1) % ThreadNum

(* eventActivate on the listener: accept, then tcpConnectionInit up to its *)
(* call of eventLoopAddTask.  accept blocks while no client waits.  The    *)
(* kernel may return any unused descriptor: workers open files meanwhile.  *)
acceptConnection(t, c, f) ==
  /\ pc[t] = "scan" /\ Active(t) # {} /\ CurrentFd(t) = ListenFd
  /\ state[c] = "backlog" /\ f \in FreeFds
  /\ state' = [state EXCEPT ![c] = "open"]
  /\ fdOf'  = [fdOf EXCEPT ![c] = f]
  /\ home'  = [home EXCEPT ![c] = Taken]
  /\ takeWorkerEventLoop
  /\ arg' = [arg EXCEPT ![t] = [loop |-> Taken, task |-> [type |-> "ADD", chan |-> c]]]
  /\ at' = Resume(t)
  /\ Goto(t, "add")
  /\ UNCHANGED <<poll, list, queue, pair, inbox, left>>

(* The same with every descriptor in use: accept returns -1 and leaves the *)
(* client in the backlog; the code does not look, and makes a connection   *)
(* whose descriptor is -1.                                                 *)
acceptFails(t) ==
  /\ pc[t] = "scan" /\ Active(t) # {} /\ CurrentFd(t) = ListenFd
  /\ \E c \in Conn : state[c] = "backlog"
  /\ FreeFds = {}
  /\ takeWorkerEventLoop
  /\ arg' = [arg EXCEPT ![t] = [loop |-> Taken, task |-> [type |-> "ADD", chan |-> BadConn]]]
  /\ at' = Resume(t)
  /\ Goto(t, "add")
  /\ UNCHANGED <<poll, list, queue, pair, connVars>>

(* What each kind of input leaves in the buffers.  A request that parses is *)
(* answered, and its answer sent, from inside the parse, which consumes it  *)
(* but not the bytes that follow.  Of one cut short or malformed, the read  *)
(* buffer keeps at most what follows its last whole line, and the write     *)
(* buffer the 400, which is not sent; that one is left is what matters.     *)
LeftBy == [complete |-> {}, surplus |-> {"read"}, partial |-> {"read", "write"}, eof |-> {}]

(* eventActivate on a connection: the whole of processRead up to its call  *)
(* of eventLoopAddTask.  readv blocks while the socket is empty; and of an  *)
(* answer that its client does not read, send or sendfile never returns.   *)
processRead(t) ==
  /\ pc[t] = "scan" /\ Active(t) # {} /\ CurrentFd(t) \in ConnFd
  /\ LET c == list[t][CurrentFd(t)] IN
       /\ c \in Conn /\ inbox[c] \notin {"none", "unread"}
       /\ inbox' = [inbox EXCEPT ![c] = "none"]
       /\ left'  = [left EXCEPT ![c] = @ \cup LeftBy[inbox[c]]]
       /\ arg' = [arg EXCEPT ![t] = [loop |-> home[c], task |-> [type |-> "DELETE", chan |-> c]]]
  /\ at' = Resume(t)
  /\ Goto(t, "add")
  /\ UNCHANGED <<poll, list, queue, pair, next, state, fdOf, home>>
-----------------------------------------------------------------------------
(***************************************************************************)
(* Task queues.  A loop's mutex is held across a whole eventLoopProcessTask *)
(* and for the append of eventLoopAddTask, which is one step here.          *)
(***************************************************************************)
MutexFree(l) == pc[l] \notin {"own", "run"}

Enqueue(t, after) ==
  /\ pc[t] = "add" /\ MutexFree(arg[t].loop)
  /\ queue' = [queue EXCEPT ![arg[t].loop] = Append(@, arg[t].task)]
  /\ Goto(t, after)
  /\ UNCHANGED <<at, arg, poll, list, pair, next, connVars>>

(* Seeded fault: nobody is woken. *)
eventLoopAddTaskSilent(t) == Enqueue(t, IF arg[t].loop = t THEN "lock" ELSE "made")
eventLoopAddTask(t) == Enqueue(t, IF arg[t].loop = t THEN "lock" ELSE "wake")

(* Seeded fault: the write fails instead of blocking. *)
taskWakeupNonBlocking(t) ==
  /\ pc[t] = "wake"
  /\ pair' = [pair EXCEPT ![arg[t].loop] = IF @ + WakeLen <= PairCap THEN @ + WakeLen ELSE @]
  /\ Goto(t, "made")
  /\ UNCHANGED <<at, arg, poll, list, queue, next, connVars>>

(* The write blocks while the pair has no room for it. *)
taskWakeup(t) ==
  /\ pc[t] = "wake" /\ pair[arg[t].loop] + WakeLen <= PairCap
  /\ pair' = [pair EXCEPT ![arg[t].loop] = @ + WakeLen]
  /\ Goto(t, "made")
  /\ UNCHANGED <<at, arg, poll, list, queue, next, connVars>>

(* eventLoopProcessTask takes the mutex: from eventLoopAddTask, or from     *)
(* eventLoopRun once dispatch has visited the whole table.                  *)
LockTasks(t) ==
  /\ \/ pc[t] = "lock" /\ Goto(t, "own")
     \/ pc[t] = "scan" /\ Active(t) = {} /\ Goto(t, "run")
  /\ UNCHANGED <<at, arg, poll, list, queue, pair, next, connVars>>

HasTask(t, type) == /\ pc[t] \in {"own", "run"} /\ queue[t] # <<>>
                    /\ Head(queue[t]).type = type

(* Seeded fault: a DELETE that was carried out stays in the list. *)
DequeueAddsOnly(t) ==
  queue' = [queue EXCEPT ![t] = IF Head(@).type = "DELETE" THEN @ ELSE Tail(@)]

Dequeue(t) == queue' = [queue EXCEPT ![t] = Tail(@)]

(* eventLoopAdd.  Nothing happens at an occupied entry of the map.  With   *)
(* fd = -1 the entry read is the word before the array, where the          *)
(* allocator keeps the size of the block: not NULL, hence occupied.        *)
eventLoopAdd(t) ==
  /\ HasTask(t, "ADD")
  /\ LET c == Head(queue[t]).chan IN
       IF c \in Conn /\ list[t][fdOf[c]] = NULL
       THEN /\ list' = [list EXCEPT ![t][fdOf[c]] = c]
            /\ poll' = [poll EXCEPT ![t] = pollAdd(@, fdOf[c], {"in"})]
       ELSE UNCHANGED <<list, poll>>
  /\ Dequeue(t)
  /\ UNCHANGED <<pc, at, arg, pair, next, connVars>>

(* Seeded fault: the map keeps the freed channel. *)
destoryChannelKeepsEntry(c) ==
  UNCHANGED list /\ state' = [state EXCEPT ![c] = "freed"]

(* Clears the map entry, closes the descriptor and frees the channel;      *)
(* here also the rest of the connection, freed right after by the caller.  *)
destoryChannel(c) ==
  /\ list'  = [list EXCEPT ![home[c]][fdOf[c]] = NULL]
  /\ state' = [state EXCEPT ![c] = "freed"]

(* Seeded fault: the test of the buffers is inverted. *)
tcpConnectionDestoryInverted(c) ==
  IF left[c] # {} THEN destoryChannel(c) ELSE UNCHANGED <<list, state>>

(* A connection with bytes in either buffer is not destroyed. *)
tcpConnectionDestory(c) ==
  IF left[c] = {} THEN destoryChannel(c) ELSE UNCHANGED <<list, state>>

(* eventLoopRemove: pollRemove, which ends in tcpConnectionDestory. *)
eventLoopRemove(t) ==
  /\ HasTask(t, "DELETE")
  /\ LET c == Head(queue[t]).chan IN
       /\ poll' = [poll EXCEPT ![t] = pollRemove(@, fdOf[c])]
       /\ tcpConnectionDestory(c)
  /\ Dequeue(t)
  /\ UNCHANGED <<pc, at, arg, pair, next, fdOf, home, inbox, left>>

(* eventLoopProcessTask unlocks and returns to its caller. *)
UnlockTasks(t) ==
  /\ pc[t] \in {"own", "run"} /\ queue[t] = <<>>
  /\ Goto(t, IF pc[t] = "run" THEN "poll"
             ELSE IF arg[t].task.type = "ADD" THEN "made" ELSE "scan")
  /\ UNCHANGED <<at, arg, poll, list, queue, pair, next, connVars>>

(* The rest of tcpConnectionInit: it logs conn->name and tests four fields  *)
(* of conn, none of which it then finds NULL.  conn may be freed by now:    *)
(* see NoUseAfterPublish.  Nothing clears those fields of a freed block.    *)
tcpConnectionInitReturns(t) ==
  /\ pc[t] = "made"
  /\ Goto(t, "scan")
  /\ UNCHANGED <<at, arg, poll, list, queue, pair, next, connVars>>
-----------------------------------------------------------------------------
Step(t) ==
  \/ PollReturns(t)
  \/ readLocalMessage(t)
  \/ \E c \in Conn, f \in ConnFd : acceptConnection(t, c, f)
  \/ acceptFails(t)
  \/ processRead(t)
  \/ eventLoopAddTask(t)
  \/ taskWakeup(t)
  \/ LockTasks(t)
  \/ eventLoopAdd(t)
  \/ eventLoopRemove(t)
  \/ UnlockTasks(t)
  \/ tcpConnectionInitReturns(t)

Clients == \E c \in Conn : Connect(c) \/ \E kind \in RequestKind : Send(c, kind)

Next == Clients \/ \E t \in Loop : Step(t)

Spec == Init /\ [][Next]_vars

(***************************************************************************)
(* The scheduler runs every thread that can run, and a thread blocked on a *)
(* mutex that is free again and again gets it.  Clients promise nothing:    *)
(* none need connect or send, and one that sends "unread" never reads, so   *)
(* that processRead is not enabled on it.                                   *)
(***************************************************************************)
Fairness == \A t \in Loop : WF_vars(Step(t)) /\ SF_vars(eventLoopAddTask(t))

FairSpec == Spec /\ Fairness
-----------------------------------------------------------------------------
(***************************************************************************)
(* Properties.                                                             *)
(***************************************************************************)
Watches(l, f) == \E i \in Slot : poll[l].fd[i] = f
InFlight(c, type) ==
  LET task == [type |-> type, chan |-> c]
  IN  \/ \E t \in Loop : pc[t] = "add" /\ arg[t].task = task
      \/ \E l \in Loop : \E i \in DOMAIN queue[l] : queue[l][i] = task

(* What eventActivate asserts (EventLoop.c:97) of the descriptor it is     *)
(* given, made an invariant of the table: a watched connection descriptor  *)
(* has a channel in the map of the same loop.  And whatever is in the map  *)
(* is the channel of a connection that is not freed, carries that          *)
(* descriptor and belongs to that loop: one left behind would make         *)
(* eventLoopAdd drop the next connection given the descriptor.             *)
MapMatchesPoll ==
  \A l \in Loop, f \in ConnFd :
    /\ Watches(l, f) => list[l][f] \in Conn
    /\ list[l][f] \in Conn => list[l][f] \in OpenOn(f) /\ home[list[l][f]] = l

(* Sockets are blocking, so a callback run on readiness that is no longer  *)
(* there would hang its whole loop in readv, read or accept.  Whatever the *)
(* callbacks before it did to table, map and descriptors, an entry that is *)
(* still to be activated is still readable.                                *)
NoBlockingCallback ==
  \A t \in Loop : pc[t] \in {"scan", "add", "wake", "lock", "own", "made"} =>
    \A i \in Active(t) : Readable(t, poll[t].fd[i])

(* A task never refers to a connection that has been freed. *)
NoDanglingTask ==
  \A l \in Loop : \A i \in DOMAIN queue[l] :
    queue[l][i].chan \in Conn => state[queue[l][i].chan] = "open"

(* No accepted connection is forgotten, and none is held twice: until it is *)
(* freed, or has leftover bytes, it is either on its way to its loop or     *)
(* watched there, in exactly one entry, of those poll(2) is shown.          *)
AcceptedIsHeld ==
  \A c \in Conn : state[c] = "open" /\ left[c] = {} =>
    \/ InFlight(c, "ADD") /\ ~Watches(home[c], fdOf[c])
    \/ /\ ~InFlight(c, "ADD")
       /\ \E i \in 0 .. poll[home[c]].maxfd : SlotsOf(poll[home[c]], fdOf[c]) = {i}

(* A loop never sleeps on a task: when its queue is not empty and it is in *)
(* poll(2), a wake-up is in its pair, or the thread that queued the task   *)
(* is about to write one, and the loop watches the pair.                   *)
NoLostWakeup ==
  \A l \in Loop : queue[l] # <<>> /\ pc[l] = "poll" =>
    /\ \E i \in Slot : i <= poll[l].maxfd /\ poll[l].fd[i] = WakeFd /\ "in" \in poll[l].events[i]
    /\ pair[l] > 0 \/ \E t \in Loop : pc[t] = "wake" /\ arg[t].loop = l

(* The blocking wake-up write holds back an acceptor that outruns a worker: *)
(* a task list is no longer than the wake-ups a pair can hold, plus those   *)
(* of one read of the pair, plus the two tasks not yet announced.           *)
QueueBound == (PairCap + LocalBuf) \div WakeLen + 2
QueueBounded == \A l \in Loop : Len(queue[l]) <= QueueBound

(* Loop l is inside send or sendfile for a client that does not read: the   *)
(* sockets block, and no callback after this one is run.                    *)
Stuck(l) ==
  /\ pc[l] = "scan" /\ Active(l) # {} /\ CurrentFd(l) \in ConnFd
  /\ LET c == list[l][CurrentFd(l)] IN c \in Conn /\ inbox[c] = "unread"

(* Loop l is stuck, or in the wake-up write to a loop that is: once the     *)
(* pair is full, nobody reads it.                                           *)
Blocked(l) == Stuck(l) \/ (pc[l] = "wake" /\ Stuck(arg[l].loop))

(* One such client stops its own loop, and the acceptor if it hands that    *)
(* loop more connections than its pair holds wake-ups; no loop stays away   *)
(* from poll(2) for another reason, whatever the others do.                 *)
LoopsKeepPolling == \A l \in Loop : []<>(pc[l] = "poll") \/ <>[]Blocked(l)

(* Every descriptor belongs to a connection that nothing is going to end:   *)
(* its client is silent, or it was left with bytes in its buffers.          *)
Exhausted ==
  \A f \in ConnFd : \E d \in OpenOn(f) : inbox[d] = "none" \/ left[d] # {}

(* A client that has sent a whole request, or closed, gets served and its   *)
(* connection released, unless for good it is kept waiting in the backlog   *)
(* for a descriptor or by a blocked acceptor, or its own loop is stuck.     *)
(* (Where stuck loops hold the descriptors, the accepts that fail go on     *)
(* queueing wake-ups, and the acceptor blocks behind one of them.)          *)
KeptWaiting(c) == IF state[c] = "backlog" THEN Exhausted \/ Blocked(0) ELSE Stuck(home[c])
RequestServed ==
  \A c \in Conn :
    \/ state[c] = "backlog" /\ inbox[c] \in {"complete", "eof"} ~> state[c] = "freed"
    \/ <>[]KeptWaiting(c)

(* Reactor implements ConnService: a connection is answered between the    *)
(* moment processRead has run and the moment its DELETE task is processed. *)
Phase(c) ==
  CASE state[c] = "idle"        -> "idle"
    [] state[c] = "backlog"     -> "waiting"
    [] state[c] = "freed"       -> "released"
    [] InFlight(c, "DELETE")    -> "answered"
    [] OTHER -> IF left[c] = {} THEN "accepted" ELSE "stranded"

Abstract == INSTANCE ConnService WITH
              phase <- [c \in Conn |-> Phase(c)], fd <- fdOf, server <- home

ImplementsConnService == Abstract!Spec

(* CALL_CHAIN.md:97-110: when processRead ends, the DELETE task removes the *)
(* channel and destroys the connection.                                    *)
DeletedIsReleased ==
  \A c \in Conn : state[c] = "open" =>
    InFlight(c, "ADD") \/ InFlight(c, "DELETE") \/ Watches(home[c], fdOf[c])

(* CALL_CHAIN.md:66-80: the main thread's part in a connection ends with    *)
(* the ADD task, after which the connection is its worker's.  So nothing    *)
(* the main thread still reads of it may have been freed.                   *)
NoUseAfterPublish ==
  \A t \in Loop : pc[t] = "made" /\ arg[t].task.chan \in Conn
                    => state[arg[t].task.chan] = "open"
=============================================================================
