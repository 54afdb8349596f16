----------------------------- MODULE CThreadPool -----------------------------
(***************************************************************************)
(* The standalone thread pool (c_threadpool.c): callers put tasks into a   *)
(* ring, workers take them out, and a manager starts workers when there is *)
(* more to do than workers and tells workers to exit when there is less.   *)
(* The server does not use it: its callers are anybody's.                  *)
(*                                                                         *)
(* A section under mutexpool is one step; pthread_cond_wait ends one and   *)
(* starts another.  Worker w is the thread whose id is in threadIDs[w].    *)
(***************************************************************************)
EXTENDS Integers, FiniteSets

CONSTANTS
  Task,           \* tasks, each added by a call of its own
  minNum, maxNum, \* least and greatest number of workers
  Capacity,       \* places in the ring
  NUMBER,         \* workers started or stopped at a time (2)
  NULL

ASSUME CThreadPoolAssumption ==
  /\ minNum \in Nat /\ maxNum \in Nat /\ minNum <= maxNum
  /\ Capacity \in Nat \ {0} /\ NUMBER \in Nat
  /\ NULL \notin Task

Worker == 0 .. maxNum - 1

VARIABLES
  taskQ, queueSize, queueFront, queueRear,
  threadIDs,   \* "zero": free; "used": of a thread; "garbage": never written
  busyNum, liveNum, exitNum, shutdown,
  worker,      \* where each worker stands, see WorkerPC
  task,        \* what each worker took
  call,        \* where the call that adds each task stands, see CallPC
  ran,         \* tasks whose function has returned (history)
  manager,     \* where the manager stands, see ManagerPC
  seen,        \* the numbers it has read
  signals,     \* signals it, or threadPoolDestory, has sent
  destroy      \* where threadPoolDestory stands

ring    == <<taskQ, queueSize, queueFront, queueRear>>
workers == <<worker, task, ran, busyNum>>
boss    == <<manager, seen, signals, destroy>>
vars    == <<ring, threadIDs, liveNum, exitNum, shutdown, workers, call, boss>>

WorkerPC == {"none",    \* not started
             "lock",    \* about to take mutexpool, head of the loop
             "wait",    \* asleep on notEmpty
             "woken",   \* about to retake mutexpool in pthread_cond_wait
             "took",    \* has a task, busyNum not yet counted up
             "work",    \* runs it
             "leave",   \* threadExit, threadIDs not yet cleared
             "exited"}
CallPC == {"lock",      \* about to take mutexpool
           "wait",      \* asleep on notFull
           "woken",     \* about to retake mutexpool
           "added", "refused"}
ManagerPC == {"check", "sleep", "busy", "grow", "shrink", "signal", "ended"}
DestroyPC == {"none", "join", "signal",
              "undefined", \* destroys a condition on which a thread sleeps
              "freed"}

TypeOK ==
  /\ taskQ \in [0 .. Capacity - 1 -> Task \cup {NULL}]
  /\ queueSize \in 0 .. Capacity
  /\ queueFront \in 0 .. Capacity - 1 /\ queueRear \in 0 .. Capacity - 1
  /\ threadIDs \in [Worker -> {"zero", "used", "garbage"}]
  /\ busyNum \in Int /\ liveNum \in Int /\ exitNum \in Int
  /\ shutdown \in BOOLEAN
  /\ worker \in [Worker -> WorkerPC] /\ task \in [Worker -> Task \cup {NULL}]
  /\ call \in [Task -> CallPC] /\ ran \subseteq Task
  /\ manager \in ManagerPC /\ destroy \in DestroyPC /\ signals \in Nat
  /\ seen \in [queueSize : Int, liveNum : Int, busyNum : Int]

Unseen == [queueSize |-> 0, liveNum |-> 0, busyNum |-> 0]

(* threadPoolCreate: memset clears the first id only, and the ids of the    *)
(* first minNum workers are written.                                        *)
Init ==
  /\ taskQ = [k \in 0 .. Capacity - 1 |-> NULL]
  /\ queueSize = 0 /\ queueFront = 0 /\ queueRear = 0
  /\ \E unset \in [Worker -> {"zero", "garbage"}] :
       threadIDs = [w \in Worker |-> IF w < minNum THEN "used"
                                     ELSE IF w = 0 THEN "zero" ELSE unset[w]]
  /\ busyNum = 0 /\ liveNum = minNum /\ exitNum = 0 /\ shutdown = FALSE
  /\ worker = [w \in Worker |-> IF w < minNum THEN "lock" ELSE "none"]
  /\ task = [w \in Worker |-> NULL]
  /\ call = [t \in Task |-> "lock"] /\ ran = {}
  /\ manager = "check" /\ destroy = "none" /\ signals = 0
  /\ seen = Unseen

(* The threads asleep on a condition. *)
Asleep(pc) == {x \in DOMAIN pc : pc[x] = "wait"}

(* pthread_cond_signal: one of the threads asleep on the condition, if there *)
(* is one, leaves it.                                                       *)
Signalled(pc) ==
  IF Asleep(pc) = {} THEN {pc} ELSE {[pc EXCEPT ![x] = "woken"] : x \in Asleep(pc)}

(* Until threadPoolDestory gets to the mutexes and the conditions. *)
PoolUsable == destroy \in {"none", "join", "signal"}
-----------------------------------------------------------------------------
(***************************************************************************)
(* A call of threadPoolAdd with task t.                                    *)
(***************************************************************************)
CallRuns(t) == call[t] \in {"lock", "woken"} /\ PoolUsable

WaitForPlace(t) ==
  /\ CallRuns(t) /\ queueSize = Capacity /\ ~shutdown
  /\ call' = [call EXCEPT ![t] = "wait"]
  /\ UNCHANGED <<ring, threadIDs, liveNum, exitNum, shutdown, workers, boss>>

Refuse(t) ==
  /\ CallRuns(t) /\ shutdown
  /\ call' = [call EXCEPT ![t] = "refused"]
  /\ UNCHANGED <<ring, threadIDs, liveNum, exitNum, shutdown, workers, boss>>

(* Seeded fault: if instead of while around the wait for a place. *)
RoomForWoken(t) == queueSize < Capacity \/ call[t] = "woken"

Room(t) == queueSize < Capacity

(* Seeded fault: no worker is signalled. *)
SignalNotEmptyNever == {worker}

SignalNotEmpty == Signalled(worker)

threadPoolAdd(t) ==
  /\ CallRuns(t) /\ Room(t) /\ ~shutdown
  /\ taskQ' = [taskQ EXCEPT ![queueRear] = t]
  /\ queueRear' = (queueRear + 1) % Capacity
  /\ queueSize' = queueSize + 1
  /\ worker' \in SignalNotEmpty
  /\ call' = [call EXCEPT ![t] = "added"]
  /\ UNCHANGED <<queueFront, threadIDs, liveNum, exitNum, shutdown, task, ran, busyNum, boss>>
-----------------------------------------------------------------------------
(***************************************************************************)
(* Worker w.                                                               *)
(***************************************************************************)
(* w holds mutexpool and stands before the test of the inner loop: it has   *)
(* not been told to exit.                                                   *)
Tests(w) ==
  /\ worker[w] = "lock" \/ (worker[w] = "woken" /\ exitNum <= 0)
  /\ PoolUsable

WaitForTask(w) ==
  /\ Tests(w) /\ queueSize = 0 /\ ~shutdown
  /\ worker' = [worker EXCEPT ![w] = "wait"]
  /\ UNCHANGED <<ring, threadIDs, liveNum, exitNum, shutdown, task, ran, busyNum, call, boss>>

(* A worker that finds exitNum set exits, whatever it was woken for; it is  *)
(* still counted in liveNum, and its id stays.                              *)
ExitAsTold(w) ==
  /\ worker[w] = "woken" /\ exitNum > 0 /\ PoolUsable
  /\ exitNum' = exitNum - 1
  /\ worker' = [worker EXCEPT ![w] = "exited"]
  /\ UNCHANGED <<ring, threadIDs, liveNum, shutdown, task, ran, busyNum, call, boss>>

ExitAtShutdown(w) ==
  /\ Tests(w) /\ shutdown
  /\ exitNum' = exitNum - 1
  /\ liveNum' = liveNum - 1
  /\ worker' = [worker EXCEPT ![w] = "leave"]
  /\ UNCHANGED <<ring, threadIDs, shutdown, task, ran, busyNum, call, boss>>

(* It clears its id without the mutex. *)
threadExit(w) ==
  /\ worker[w] = "leave" /\ PoolUsable
  /\ threadIDs' = [threadIDs EXCEPT ![w] = "zero"]
  /\ worker' = [worker EXCEPT ![w] = "exited"]
  /\ UNCHANGED <<ring, liveNum, exitNum, shutdown, task, ran, busyNum, call, boss>>

(* Seeded fault: the front does not move past the task. *)
NextFrontSame == queueFront

NextFront == (queueFront + 1) % Capacity

(* Seeded fault: nobody is told that there is a place. *)
SignalNotFullNever == {call}

SignalNotFull == Signalled(call)

TakeTask(w) ==
  /\ Tests(w) /\ queueSize > 0 /\ ~shutdown
  /\ task' = [task EXCEPT ![w] = taskQ[queueFront]]
  /\ queueFront' = NextFront
  /\ queueSize' = queueSize - 1
  /\ call' \in SignalNotFull
  /\ worker' = [worker EXCEPT ![w] = "took"]
  /\ UNCHANGED <<taskQ, queueRear, threadIDs, liveNum, exitNum, shutdown, ran, busyNum, boss>>

BusyUp(w) ==
  /\ worker[w] = "took" /\ PoolUsable
  /\ busyNum' = busyNum + 1
  /\ worker' = [worker EXCEPT ![w] = "work"]
  /\ UNCHANGED <<ring, threadIDs, liveNum, exitNum, shutdown, task, ran, call, boss>>

(* The function returns, its argument is freed and busyNum counted down. *)
EndTask(w) ==
  /\ worker[w] = "work" /\ PoolUsable
  /\ ran' = ran \cup {task[w]}
  /\ task' = [task EXCEPT ![w] = NULL]
  /\ busyNum' = busyNum - 1
  /\ worker' = [worker EXCEPT ![w] = "lock"]
  /\ UNCHANGED <<ring, threadIDs, liveNum, exitNum, shutdown, call, boss>>
-----------------------------------------------------------------------------
(***************************************************************************)
(* The manager.  It reads the numbers in two sections and acts on them     *)
(* later, when they may have changed; they are variables of the loop body. *)
(***************************************************************************)
ManagerTo(from, to) == manager = from /\ manager' = to
Sees(now) == seen' = IF manager' = "check" THEN Unseen ELSE now

ManagerCheck ==
  /\ ManagerTo("check", IF shutdown THEN "ended" ELSE "sleep")
  /\ UNCHANGED <<ring, threadIDs, liveNum, exitNum, shutdown, workers, call, seen, signals, destroy>>

ReadSizes ==
  /\ ManagerTo("sleep", "busy")
  /\ Sees([queueSize |-> queueSize, liveNum |-> liveNum, busyNum |-> 0])
  /\ UNCHANGED <<ring, threadIDs, liveNum, exitNum, shutdown, workers, call, signals, destroy>>

TooFew  == seen.queueSize > seen.liveNum /\ seen.liveNum < maxNum
TooMany(busy) == busy * 2 < seen.liveNum /\ seen.liveNum > minNum

ReadBusy ==
  /\ ManagerTo("busy", IF TooFew THEN "grow" ELSE IF TooMany(busyNum) THEN "shrink" ELSE "check")
  /\ Sees([seen EXCEPT !.busyNum = busyNum])
  /\ UNCHANGED <<ring, threadIDs, liveNum, exitNum, shutdown, workers, call, signals, destroy>>

(* The workers the manager starts: in the first free ids, up to NUMBER of   *)
(* them, while there are fewer than maxNum.                                 *)
Started ==
  LET free == {w \in Worker : threadIDs[w] = "zero"}
      Before(w) == Cardinality({v \in free : v < w})
  IN {w \in free : Before(w) < NUMBER /\ liveNum + Before(w) < maxNum}

(* Seeded fault: liveNum is counted up once. *)
LiveNumGrownOnce == liveNum + (IF Started = {} THEN 0 ELSE 1)

LiveNumGrown == liveNum + Cardinality(Started)

Grow ==
  /\ ManagerTo("grow", IF TooMany(seen.busyNum) THEN "shrink" ELSE "check")
  /\ threadIDs' = [w \in Worker |-> IF w \in Started THEN "used" ELSE threadIDs[w]]
  /\ worker' = [w \in Worker |-> IF w \in Started THEN "lock" ELSE worker[w]]
  /\ liveNum' = LiveNumGrown
  /\ Sees(seen)
  /\ UNCHANGED <<ring, exitNum, shutdown, task, ran, busyNum, call, signals, destroy>>

Shrink ==
  /\ ManagerTo("shrink", "signal")
  /\ exitNum' = NUMBER
  /\ signals' = 0
  /\ UNCHANGED <<ring, threadIDs, liveNum, shutdown, workers, call, seen, destroy>>

SignalExit ==
  /\ ManagerTo("signal", IF signals < NUMBER THEN "signal" ELSE "check")
  /\ IF signals < NUMBER THEN signals' = signals + 1 /\ worker' \in Signalled(worker)
                         ELSE signals' = 0 /\ UNCHANGED worker
  /\ Sees(seen)
  /\ UNCHANGED <<ring, threadIDs, liveNum, exitNum, shutdown, task, ran, busyNum, call, destroy>>
-----------------------------------------------------------------------------
(***************************************************************************)
(* threadPoolDestory, called once.  It waits for the manager, signals as   *)
(* often as there are workers at that moment, destroys the conditions and  *)
(* frees the pool.  Destroying a condition on which a thread is asleep is  *)
(* undefined (glibc waits for that thread, for ever), and so is what the   *)
(* other threads do with the pool afterwards: nothing happens there.       *)
(***************************************************************************)
DestroyTo(from, to) == destroy = from /\ destroy' = to

Shutdown ==
  /\ DestroyTo("none", "join")
  /\ shutdown' = TRUE
  /\ UNCHANGED <<ring, threadIDs, liveNum, exitNum, workers, call, manager, seen, signals>>

(* Seeded fault: the workers are joined too, before they are signalled. *)
JoinableWorkers == manager = "ended" /\ \A w \in Worker : worker[w] \in {"none", "exited"}

Joinable == manager = "ended"

JoinManager ==
  /\ DestroyTo("join", "signal") /\ Joinable
  /\ signals' = 0
  /\ UNCHANGED <<ring, threadIDs, liveNum, exitNum, shutdown, workers, call, manager, seen>>

(* Seeded fault: the last worker gets no signal. *)
AllSignalledButOne == signals + 1 >= liveNum

AllSignalled == signals >= liveNum

SignalAll ==
  /\ DestroyTo("signal", "signal") /\ ~AllSignalled
  /\ signals' = signals + 1
  /\ worker' \in Signalled(worker)
  /\ UNCHANGED <<ring, threadIDs, liveNum, exitNum, shutdown, task, ran, busyNum, call, manager, seen>>

Free ==
  /\ DestroyTo("signal", IF Asleep(worker) = {} /\ Asleep(call) = {} THEN "freed"
                                                                  ELSE "undefined")
  /\ AllSignalled
  /\ UNCHANGED <<ring, threadIDs, liveNum, exitNum, shutdown, workers, call, manager, seen, signals>>

(* POSIX lets pthread_cond_wait return without a signal. *)
SpuriousWakeup ==
  /\ PoolUsable
  /\ \/ \E w \in Worker : /\ worker[w] = "wait"
                          /\ worker' = [worker EXCEPT ![w] = "woken"]
                          /\ UNCHANGED call
     \/ \E t \in Task : /\ call[t] = "wait"
                        /\ call' = [call EXCEPT ![t] = "woken"]
                        /\ UNCHANGED worker
  /\ UNCHANGED <<ring, threadIDs, liveNum, exitNum, shutdown, task, ran, busyNum, boss>>

CallStep(t) == WaitForPlace(t) \/ Refuse(t) \/ threadPoolAdd(t)
WorkerStep(w) == \/ WaitForTask(w) \/ ExitAsTold(w) \/ ExitAtShutdown(w) \/ threadExit(w)
                 \/ TakeTask(w) \/ BusyUp(w) \/ EndTask(w)
ManagerStep == ManagerCheck \/ ReadSizes \/ ReadBusy \/ Grow \/ Shrink \/ SignalExit
DestroyStep == JoinManager \/ SignalAll \/ Free

Next == \/ \E t \in Task : CallStep(t)
        \/ \E w \in Worker : WorkerStep(w)
        \/ ManagerStep \/ Shutdown \/ DestroyStep \/ SpuriousWakeup

Spec == Init /\ [][Next]_vars

(* Every thread that can run does, and gets the mutex it asks for; a task's *)
(* function returns.  Whether the pool is destroyed is up to its user.      *)
Fairness == /\ \A t \in Task : WF_vars(CallStep(t))
            /\ \A w \in Worker : WF_vars(WorkerStep(w))
            /\ WF_vars(ManagerStep) /\ WF_vars(DestroyStep)

FairSpec == Spec /\ Fairness
-----------------------------------------------------------------------------
(* The tasks in the ring, from the front on. *)
Waiting == [k \in 1 .. queueSize |-> taskQ[(queueFront + k - 1) % Capacity]]
Added   == {t \in Task : call[t] = "added"}

Queue == INSTANCE TaskQueue WITH queue <- Waiting, put <- Added

(* The ring, its front, rear and size together are a bounded queue: a task  *)
(* is taken at most once, in the order of the calls, and none is            *)
(* overwritten, however callers and workers take turns.                     *)
ImplementsTaskQueue == Queue!Spec

(* No worker sleeps while there is a task that no other worker is on its    *)
(* way to, as long as none was told to exit: one that exits may have been   *)
(* woken for a task.                                                        *)
WorkIsShared ==
  (\E w \in Worker : worker[w] = "wait") /\ (\A w \in Worker : worker[w] # "exited") /\ ~shutdown
    => queueSize <= Cardinality({w \in Worker : worker[w] \in {"lock", "woken"}})

(* liveNum, which the manager goes by, never falls behind the workers there *)
(* are, and never exceeds maxNum.                                           *)
LiveNumCovers ==
  /\ Cardinality({w \in Worker : worker[w] \notin {"none", "leave", "exited"}}) <= liveNum
  /\ liveNum <= maxNum

(* Again and again every task added so far has been run, and no call waits  *)
(* for a place, as long as the pool is not shut down and no worker was told *)
(* to exit.                                                                 *)
Excused == shutdown \/ \E w \in Worker : worker[w] = "exited"
TasksRun == []<>(Excused \/ \A t \in Task : call[t] = "added" => t \in ran)
CallsReturn == []<>(Excused \/ \A t \in Task : call[t] # "wait")

(* Workers are left asleep at the end of threadPoolDestory only because     *)
(* others went: each that exits at shutdown takes one signal and lowers the *)
(* number of those still to come.  While every worker stays, all are woken. *)
Gone == {w \in Worker : worker[w] \in {"leave", "exited"}}
AsleepForGone == destroy = "undefined" => Cardinality(Asleep(worker)) <= Cardinality(Gone)

(* threadPoolDestory frees the pool and returns, whatever the manager was   *)
(* doing; or, when a call still sleeps on a full ring or a worker went      *)
(* before the last signal, it destroys a condition that is in use.          *)
InUse == destroy = "undefined" /\ (Asleep(call) # {} \/ Gone # {})
DestroyReturns == shutdown ~> destroy = "freed" \/ InUse
=============================================================================
