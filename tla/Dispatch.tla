------------------------------ MODULE Dispatch ------------------------------
(***************************************************************************)
(* One event loop over each of the three dispatchers (struct Dispatcher),  *)
(* in both builds: with MSG_SEND_AUTO undefined a connection is deleted    *)
(* when its first read returns; with it defined, reading asks for          *)
(* POLLOUT, and writing deletes.                                           *)
(*                                                                         *)
(* The loop's own wake-up channel and the listener, which ask for reading  *)
(* and are never removed, are Reactor's subject and left out here.  So are *)
(* requests: of a read it only matters whether it returns bytes, and       *)
(* whether the parser leaves any of them in a buffer.                      *)
(***************************************************************************)
EXTENDS PollDispatcher, EpollDispatcher, SelectDispatcher

CONSTANTS Kinds,      \* the dispatchers to run, among "poll", "epoll" and "select"
          Builds      \* the values of MSG_SEND_AUTO

ASSUME DispatchAssumption == Kinds \subseteq {"poll", "epoll", "select"} /\ Builds \subseteq BOOLEAN

VARIABLES
  kind,     \* evLoop->dispatcher
  auto,     \* whether MSG_SEND_AUTO is defined
  data,     \* evLoop->dispatcherData
  pc,       \* where the loop's thread stands
  at,       \* place of its scan, see EventAt
  tasks,    \* its task list
  open,     \* open connection descriptors
  list,     \* descriptors with an entry in channelMap->list
  events,   \* channel->events
  left,     \* connections with unconsumed bytes in a buffer
  input     \* what a descriptor holds for reading

vars == <<kind, auto, data, pc, at, tasks, open, list, events, left, input>>
connVars == <<open, list, events, left, input>>

Task  == [type : {"ADD", "DELETE", "MODIFY"}, fd : Fd]
Input == {"quiet",   \* nothing
          "data",    \* bytes
          "end",     \* an orderly close by the client
          "reset"}   \* a reset by the client

TypeOK ==
  /\ kind \in Kinds /\ auto \in Builds
  /\ data \in CASE kind = "poll" -> PollData [] kind = "epoll" -> EpollData
                [] kind = "select" -> SelectData
  /\ pc \in {"wait", "scan", "own", "run", "exit"}
  /\ at \in Nat
  /\ tasks \in Seq(Task)
  /\ open \subseteq Fd /\ list \subseteq Fd /\ left \subseteq Fd
  /\ events \in [Fd -> SUBSET Event]
  /\ input \in [Fd -> Input]

Init ==
  /\ kind \in Kinds /\ auto \in Builds
  /\ data = CASE kind = "poll" -> pollInit [] kind = "epoll" -> epollInit
              [] kind = "select" -> selectInit
  /\ pc = "wait" /\ at = 0 /\ tasks = <<>>
  /\ open = {} /\ list = {} /\ left = {}
  /\ events = [f \in Fd |-> {"in"}]
  /\ input = [f \in Fd |-> "quiet"]
-----------------------------------------------------------------------------
(***************************************************************************)
(* The dispatcher the loop uses.                                           *)
(***************************************************************************)
add(f) == CASE kind = "poll"   -> pollAdd(data, f, events[f])
            [] kind = "epoll"  -> epollAdd(data, f, events[f])
            [] kind = "select" -> selectAdd(data, f, events[f])

remove(f) == CASE kind = "poll"   -> pollRemove(data, f)
               [] kind = "epoll"  -> epollRemove(data, f)
               [] kind = "select" -> selectRemove(data, f, events[f])

(* Seeded fault: the entry is added a second time. *)
modifyAdds(f) == CASE kind = "poll"   -> pollAdd(data, f, events[f])
                   [] kind = "epoll"  -> epollModify(data, f, events[f])
                   [] kind = "select" -> selectModify(data, f, events[f])

modify(f) == CASE kind = "poll"   -> pollModify(data, f, events[f])
               [] kind = "epoll"  -> epollModify(data, f, events[f])
               [] kind = "select" -> selectModify(data, f, events[f])

(* epoll's operations exit the process when epoll_ctl fails. *)
exits(task) == kind = "epoll" /\ epollCtlFails(data, task.type, task.fd)

(* The events that hold of each descriptor, whoever asks for them. *)
Holds == [f \in Fd |-> IF input[f] = "quiet" THEN {"out"} ELSE Event]
Failed == {f \in Fd : input[f] = "reset"}

(* The places of its scan, from the one it has reached on, that activate. *)
Due == CASE kind = "poll"   -> pollDue(data, at)
         [] kind = "epoll"  -> epollDue(data, at)
         [] kind = "select" -> selectDue(data, at)

Target(p) == CASE kind = "poll"   -> pollTarget(data, p)
               [] kind = "epoll"  -> epollTarget(data, p)
               [] kind = "select" -> selectTarget(p)

Current == Target(Min(Due))

(* A place behind every scan. *)
Last == 2 * Max({MAX, EPOLL_MAX, SELECT_MAX})

(* What the dispatcher watches a descriptor for. *)
Watched(f) ==
  CASE kind = "poll"   -> UNION {data.events[i] : i \in SlotsOf(data, f)}
    [] kind = "epoll"  -> data.interest[f]
    [] kind = "select" -> {e \in Event : f \in data.set[e]}
-----------------------------------------------------------------------------
(***************************************************************************)
(* Clients, and the thread that accepts.                                   *)
(***************************************************************************)
(* accept returns an unused descriptor, and tcpConnectionInit queues its   *)
(* ADD, for which it needs the loop's mutex.                               *)
Accept(f) ==
  /\ f \notin open /\ pc \notin {"own", "run"}
  /\ open' = open \cup {f}
  /\ tasks' = Append(tasks, [type |-> "ADD", fd |-> f])
  /\ UNCHANGED <<kind, auto, data, pc, at, list, events, left, input>>

(* Clients act on descriptors the loop watches: what they did before the    *)
(* ADD is as if done right after it, and what they do when nobody watches   *)
(* any more has no effect.                                                  *)
ClientSends(f, what) ==
  /\ Watched(f) # {} /\ input[f] = "quiet"
  /\ input' = [input EXCEPT ![f] = what]
  /\ UNCHANGED <<kind, auto, data, pc, at, tasks, open, list, events, left>>
-----------------------------------------------------------------------------
(***************************************************************************)
(* dispatcher->dispatch.                                                   *)
(***************************************************************************)
(* poll(2), epoll_wait or select(2) returns: with events or, in time, none. *)
(* When select(2) fails, the process exits.                                 *)
WaitReturns ==
  /\ pc = "wait" /\ at' = 0
  /\ pc' = IF kind = "select" /\ selectFails(data, open) THEN "exit" ELSE "scan"
  /\ data' \in CASE kind = "poll"   -> {pollWait(data, LAMBDA f, e : e \in Holds[f])}
                 [] kind = "epoll"  -> epollWait(data, Holds, Failed)
                 [] kind = "select" -> {selectWait(data, Holds)}
  /\ UNCHANGED <<kind, auto, tasks, connVars>>

Activates(f, e) ==
  /\ pc = "scan" /\ Due # {} /\ Current = <<f, e>>
  /\ at' = Min(Due) + 1

(* Queues a task of the loop's own thread, which then runs the list. *)
OwnTask(type, f) == tasks' = Append(tasks, [type |-> type, fd |-> f]) /\ pc' = "own"
NoTask == UNCHANGED <<tasks, pc>>

(* Seeded fault: with MSG_SEND_AUTO, too, a read that returns nothing deletes. *)
processReadDeletesAtEnd(f) ==
  /\ Activates(f, "in") /\ input[f] # "quiet"
  /\ input' = [input EXCEPT ![f] = IF @ = "data" THEN "quiet" ELSE @]
  /\ IF auto /\ input[f] = "data"
     THEN OwnTask("MODIFY", f) /\ events' = [events EXCEPT ![f] = writeEventEnable(@, TRUE)]
     ELSE OwnTask("DELETE", f) /\ UNCHANGED events
  /\ UNCHANGED <<kind, auto, data, open, list, left>>

(* eventActivate(ReadEvent): processRead.  readv blocks while there is      *)
(* nothing; it returns nothing more once the client is gone.                *)
processRead(f) ==
  /\ Activates(f, "in") /\ input[f] # "quiet"
  /\ IF input[f] = "data"
     THEN /\ input' = [input EXCEPT ![f] = "quiet"]
          /\ left' \in {left, left \cup {f}}
     ELSE UNCHANGED <<input, left>>
  /\ \/ /\ ~auto
        /\ OwnTask("DELETE", f) /\ UNCHANGED events
     \/ /\ auto /\ input[f] = "data"
        /\ OwnTask("MODIFY", f)
        /\ events' = [events EXCEPT ![f] = writeEventEnable(@, TRUE)]
     \/ /\ auto /\ input[f] # "data"
        /\ NoTask /\ UNCHANGED events
  /\ UNCHANGED <<kind, auto, data, open, list>>

(* eventActivate(WriteEvent): processWrite.  It deletes when it has sent    *)
(* something and nothing is left, which HttpExchange looks into.            *)
processWrite(f) ==
  /\ Activates(f, "out")
  /\ NoTask \/ (input[f] # "reset" /\ OwnTask("DELETE", f))
  /\ UNCHANGED <<kind, auto, data, connVars>>
-----------------------------------------------------------------------------
(***************************************************************************)
(* eventLoopProcessTask, called by eventLoopAddTask ("own") in the middle   *)
(* of the scan, or by eventLoopRun ("run") after it.                        *)
(***************************************************************************)
EndScan ==
  /\ pc = "scan" /\ Due = {}
  /\ pc' = "run" /\ at' = Last
  /\ data' = CASE kind = "poll"   -> data
               [] kind = "epoll"  -> epollDone(data)
               [] kind = "select" -> selectDone(data)
  /\ UNCHANGED <<kind, auto, tasks, connVars>>

Runs(type) == pc \in {"own", "run"} /\ tasks # <<>> /\ Head(tasks).type = type

(* Applies an operation of the dispatcher for the first task. *)
Apply(operation) ==
  /\ tasks' = Tail(tasks)
  /\ IF exits(Head(tasks)) THEN pc' = "exit" /\ UNCHANGED data
                           ELSE UNCHANGED pc /\ data' = operation
  /\ UNCHANGED <<kind, auto, at>>

Skip == tasks' = Tail(tasks) /\ UNCHANGED <<kind, auto, data, pc, at, connVars>>

eventLoopAdd ==
  /\ Runs("ADD")
  /\ LET f == Head(tasks).fd IN
       IF f \in list THEN Skip
       ELSE /\ list' = list \cup {f}
            /\ Apply(add(f))
            /\ UNCHANGED <<open, events, left, input>>

eventLoopModify ==
  /\ Runs("MODIFY")
  /\ LET f == Head(tasks).fd IN
       IF f \notin list THEN Skip
       ELSE Apply(modify(f)) /\ UNCHANGED connVars

(* Seeded fault: the map keeps the freed channel. *)
destoryCallbackKeepsEntry(f) ==
  /\ open' = IF f \in left THEN open ELSE open \ {f}
  /\ UNCHANGED list

(* tcpConnectionDestory: nothing is released while a buffer holds bytes. *)
destoryCallback(f) ==
  IF f \in left THEN UNCHANGED <<open, list>>
                ELSE open' = open \ {f} /\ list' = list \ {f}

(* Nobody looks any more at what the connection asked for and held; the     *)
(* next one on the descriptor starts like this.                             *)
Forget(f) == /\ events' = [events EXCEPT ![f] = {"in"}]
             /\ input'  = [input EXCEPT ![f] = "quiet"]

eventLoopRemove ==
  /\ Runs("DELETE")
  /\ LET f == Head(tasks).fd IN
       /\ Apply(remove(f))
       /\ IF exits(Head(tasks)) THEN UNCHANGED <<open, list, events, input>>
                                ELSE destoryCallback(f) /\ Forget(f)
  /\ UNCHANGED left

EndTasks ==
  /\ pc \in {"own", "run"} /\ tasks = <<>>
  /\ pc' = IF pc = "own" THEN "scan" ELSE "wait"
  /\ UNCHANGED <<kind, auto, data, at, tasks, connVars>>
-----------------------------------------------------------------------------
Loop == \/ WaitReturns
        \/ \E f \in Fd : processRead(f) \/ processWrite(f)
        \/ EndScan
        \/ eventLoopAdd \/ eventLoopModify \/ eventLoopRemove
        \/ EndTasks

Others == \E f \in Fd : Accept(f) \/ \E what \in Input \ {"quiet"} : ClientSends(f, what)

Next == Loop \/ Others

Spec == Init /\ [][Next]_vars

(* The scheduler runs the loop's thread; the kernel's calls return. *)
FairSpec == Spec /\ WF_vars(Loop)
-----------------------------------------------------------------------------
(***************************************************************************)
(* Properties.                                                             *)
(***************************************************************************)
DueTargets == {Target(p) : p \in Due}

Queued(type, f) == \E i \in DOMAIN tasks : tasks[i] = [type |-> type, fd |-> f]

(* eventActivate takes the channel from the map and uses it unseen: what   *)
(* is still to be activated, from a report that callbacks have since acted *)
(* upon, has an entry in the map, of a connection that is open and watched.*)
ActivatesLiveChannels ==
  \A p \in DueTargets : p[1] \in list \cap open /\ p[2] \in Watched(p[1])

(* Dispatcher and channel agree on the events asked for, but for a change  *)
(* whose task is queued.                                                   *)
WatchedAsAsked ==
  \A f \in Fd : Watched(f) \in {{}, events[f]} \/ Queued("MODIFY", f)

(* No sequence of tasks makes the kernel refuse a change or a wait, which   *)
(* would end the whole server: nothing is added twice, nothing changed or   *)
(* removed that is not there, nothing closed is still watched.              *)
NeverExits == pc # "exit"

(* An added channel is watched, for as long as its DELETE is not processed; *)
(* but a full poll table, or a descriptor that does not fit an fd_set,      *)
(* leaves it in the map unwatched, and nobody looks at the refusal.         *)
Refused(f) == \/ kind = "poll" /\ SlotsOf(data, NoFd) = {}
              \/ kind = "select" /\ f >= SELECT_MAX
OnlyTheLimitRefuses ==
  [][\A f \in Fd :
       /\ Queued("ADD", f) /\ ~Queued("ADD", f)' => Watched(f)' = events[f] \/ Refused(f)
       /\ Watched(f) # {} /\ Watched(f)' = {} =>
            tasks # <<>> /\ Head(tasks) = [type |-> "DELETE", fd |-> f]]_vars

(* A report takes in all that is watched for and holds.  Only epoll leaves  *)
(* something out: what does not fit its array, and what is in error.  poll's *)
(* scan must reach every entry for this, select's every descriptor.         *)
Ready == {p \in Fd \X Event : p[2] \in Watched(p[1]) \cap Holds[p[1]]}
OnlyEpollOmits ==
  [][pc = "wait" /\ pc' = "scan" =>
       \A p \in Ready \ DueTargets' :
         /\ kind = "epoll"
         /\ p[1] \in Failed \/ Cardinality({q[1] : q \in Ready}) > EPOLL_MAX]_vars

(* The loop never hangs in a callback and never scans for ever. *)
LoopReturns == []<>(pc = "wait")

(* Each dispatcher implements WatchSet. *)
Abstract == INSTANCE WatchSet WITH
              watch <- [f \in Fd |-> Watched(f)], ready <- Holds, due <- DueTargets

ImplementsWatchSet == Abstract!Spec
=============================================================================
