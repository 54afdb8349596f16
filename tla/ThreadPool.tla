------------------------------ MODULE ThreadPool ------------------------------
(***************************************************************************)
(* How the server starts, and how it shares out connections (ThreadPool.c, *)
(* WorkerThread.c, tcpServerRun of TcpServer.c).  The main thread starts   *)
(* the workers one after the other.  Each worker makes its own event loop  *)
(* under its mutex and signals its condition variable; the main thread     *)
(* waits for that loop before it goes on to the next worker.  Then it      *)
(* listens, and gives the connections it accepts to the workers in turn.   *)
(***************************************************************************)
EXTENDS Integers

CONSTANTS
  ThreadNum,   \* worker threads
  MainLoop,    \* the main thread's own event loop
  NULL,
  MayFail,     \* what may fail, a subset of {"pthread_create", "socketpair"}
  TakeCap      \* bound: connections accepted altogether

Worker == 0 .. ThreadNum - 1
Server == IF ThreadNum = 0 THEN {MainLoop} ELSE Worker    \* who serves connections

ASSUME ThreadPoolAssumption ==
  /\ ThreadNum \in Nat /\ TakeCap \in Nat
  /\ MainLoop \notin Worker /\ NULL \notin Worker /\ MainLoop # NULL

VARIABLES
  main,       \* where the main thread stands, see MainPC
  i,          \* threadPoolRun's loop variable
  worker,     \* where each worker thread stands, see WorkerPC
  mutex,      \* holder of each worker's mutex
  evLoop,     \* workerThreads[w].evLoop; worker w's loop is called w
  index,      \* pool->index
  taken       \* how many connections each server was given (history)

vars == <<main, i, worker, mutex, evLoop, index, taken>>

MainPC == {"create",    \* threadPoolRun, head of the loop
           "lock",      \* workerThreadRun: taking the mutex, also after cond_wait
           "test",      \* workerThreadRun: testing evLoop
           "wait",      \* workerThreadRun: found NULL, calling cond_wait
           "blocked",   \* asleep in cond_wait
           "unlock",    \* workerThreadRun: found the loop
           "listen",    \* tcpServerRun: threadPoolRun returned
           "serve",     \* eventLoopRun
           "exited"}    \* the process called exit
WorkerPC == {"none", "lock", "make", "unlock", "signal", "run"}

TypeOK ==
  /\ main \in MainPC
  /\ i \in 0 .. ThreadNum
  /\ worker \in [Worker -> WorkerPC]
  /\ mutex  \in [Worker -> {"free", "main", "worker"}]
  /\ evLoop \in [Worker -> Worker \cup {NULL}]
  /\ index \in Nat /\ (ThreadNum > 0 => index < ThreadNum)
  /\ taken \in [Server -> Nat]

(* threadPoolInit, then threadPoolRun up to its loop. *)
Init ==
  /\ main = IF ThreadNum = 0 THEN "listen" ELSE "create"
  /\ i = 0
  /\ worker = [w \in Worker |-> "none"]
  /\ mutex  = [w \in Worker |-> "free"]
  /\ evLoop = [w \in Worker |-> NULL]
  /\ index = 0
  /\ taken = [s \in Server |-> 0]
-----------------------------------------------------------------------------
(***************************************************************************)
(* The main thread.                                                        *)
(***************************************************************************)
(* workerThreadInit, then pthread_create, whose failure goes unnoticed. *)
CreateWorker ==
  /\ main = "create"
  /\ evLoop' = [evLoop EXCEPT ![i] = NULL]
  /\ \/ worker' = [worker EXCEPT ![i] = "lock"]
     \/ "pthread_create" \in MayFail /\ UNCHANGED worker
  /\ main' = "lock"
  /\ UNCHANGED <<i, mutex, index, taken>>

(* Seeded fault: the test is made without the mutex. *)
LockToTestUnguarded ==
  /\ main = "lock"
  /\ main' = "test"
  /\ UNCHANGED <<i, worker, mutex, evLoop, index, taken>>

LockToTest ==
  /\ main = "lock" /\ mutex[i] = "free"
  /\ mutex' = [mutex EXCEPT ![i] = "main"]
  /\ main' = "test"
  /\ UNCHANGED <<i, worker, evLoop, index, taken>>

TestLoop ==
  /\ main = "test"
  /\ main' = IF evLoop[i] = NULL THEN "wait" ELSE "unlock"
  /\ UNCHANGED <<i, worker, mutex, evLoop, index, taken>>

(* pthread_cond_wait lets the mutex go and sleeps, in one step. *)
WaitForLoop ==
  /\ main = "wait"
  /\ mutex' = [mutex EXCEPT ![i] = "free"]
  /\ main' = "blocked"
  /\ UNCHANGED <<i, worker, evLoop, index, taken>>

(* Seeded fault: if instead of while around pthread_cond_wait. *)
SpuriousWakeupNoRetest ==
  /\ main = "blocked"
  /\ main' = "unlock"
  /\ UNCHANGED <<i, worker, mutex, evLoop, index, taken>>

(* POSIX lets pthread_cond_wait return without a signal. *)
SpuriousWakeup ==
  /\ main = "blocked"
  /\ main' = "lock"
  /\ UNCHANGED <<i, worker, mutex, evLoop, index, taken>>

NextWorker ==
  /\ main = "unlock"
  /\ mutex' = [mutex EXCEPT ![i] = "free"]
  /\ i' = i + 1
  /\ main' = IF i + 1 < ThreadNum THEN "create" ELSE "listen"
  /\ UNCHANGED <<worker, evLoop, index, taken>>

(* The listener is added to the main loop only now, so no connection is    *)
(* accepted before every worker has a loop.                                *)
tcpServerRun ==
  /\ main = "listen"
  /\ main' = "serve"
  /\ UNCHANGED <<i, worker, mutex, evLoop, index, taken>>

(* Seeded fault: the last worker keeps the turn. *)
NextIndexStuck == IF index + 1 < ThreadNum THEN index + 1 ELSE index

NextIndex == (index + 1) % ThreadNum

(* acceptConnection takes a loop for a new connection. *)
takeWorkerEventLoop ==
  LET s == IF ThreadNum > 0 THEN evLoop[index] ELSE MainLoop IN
    /\ main = "serve" /\ s \in Server /\ taken[s] < TakeCap
    /\ taken' = [taken EXCEPT ![s] = @ + 1]
    /\ index' = IF ThreadNum > 0 THEN NextIndex ELSE index
    /\ UNCHANGED <<main, i, worker, mutex, evLoop>>
-----------------------------------------------------------------------------
(***************************************************************************)
(* Worker w: subThreadRunning.                                             *)
(***************************************************************************)
LockToMake(w) ==
  /\ worker[w] = "lock" /\ mutex[w] = "free" /\ main # "exited"
  /\ mutex'  = [mutex EXCEPT ![w] = "worker"]
  /\ worker' = [worker EXCEPT ![w] = "make"]
  /\ UNCHANGED <<main, i, evLoop, index, taken>>

(* A loop without a socket pair ends the process. *)
eventLoopInitEx(w) ==
  /\ worker[w] = "make" /\ main # "exited"
  /\ \/ /\ evLoop' = [evLoop EXCEPT ![w] = w]
        /\ worker' = [worker EXCEPT ![w] = "unlock"]
        /\ UNCHANGED main
     \/ /\ "socketpair" \in MayFail
        /\ main' = "exited"
        /\ UNCHANGED <<evLoop, worker>>
  /\ UNCHANGED <<i, mutex, index, taken>>

UnlockMade(w) ==
  /\ worker[w] = "unlock" /\ main # "exited"
  /\ mutex'  = [mutex EXCEPT ![w] = "free"]
  /\ worker' = [worker EXCEPT ![w] = "signal"]
  /\ UNCHANGED <<main, i, evLoop, index, taken>>

(* Seeded fault: nobody is signalled. *)
SignalMadeNot(w) ==
  /\ worker[w] = "signal" /\ main # "exited"
  /\ worker' = [worker EXCEPT ![w] = "run"]
  /\ UNCHANGED <<main, i, mutex, evLoop, index, taken>>

(* A signal wakes the main thread if it sleeps on this worker's condition, *)
(* and is lost otherwise.                                                  *)
SignalMade(w) ==
  /\ worker[w] = "signal" /\ main # "exited"
  /\ worker' = [worker EXCEPT ![w] = "run"]
  /\ main' = IF main = "blocked" /\ i = w THEN "lock" ELSE main
  /\ UNCHANGED <<i, mutex, evLoop, index, taken>>

MainStep == \/ CreateWorker \/ LockToTest \/ TestLoop \/ WaitForLoop \/ NextWorker
            \/ tcpServerRun \/ takeWorkerEventLoop
WorkerStep(w) == LockToMake(w) \/ eventLoopInitEx(w) \/ UnlockMade(w) \/ SignalMade(w)

Next == MainStep \/ SpuriousWakeup \/ \E w \in Worker : WorkerStep(w)

Spec == Init /\ [][Next]_vars

(* Every thread that can run does; a worker gets its mutex in the end even *)
(* if spurious wake-ups make the main thread take it again and again.      *)
Fairness == WF_vars(MainStep) /\ \A w \in Worker : WF_vars(WorkerStep(w)) /\ SF_vars(LockToMake(w))

FairSpec == Spec /\ Fairness
-----------------------------------------------------------------------------
(* Once the server listens every worker has a loop, and it is its own: no   *)
(* connection is handed to a loop that does not exist yet.                  *)
ReadyToServe ==
  main \in {"listen", "serve"} => \A w \in Worker : evLoop[w] = w

(* The main thread never sleeps through the signal: while it waits for a   *)
(* worker, that worker has still to signal, or was never created.          *)
NoMissedSignal == main = "blocked" => worker[i] # "run"

(* Whatever the number of connections so far, no worker was given more than *)
(* one connection more than another.                                        *)
Balanced == \A s, r \in Server : taken[s] <= taken[r] + 1

(* Unless a thread could not be created, or the process exited, the server  *)
(* comes to listen.                                                         *)
Listens ==
  \/ <>(main = "serve") \/ <>(main = "exited")
  \/ <>(main = "lock" /\ worker[i] = "none")
=============================================================================
