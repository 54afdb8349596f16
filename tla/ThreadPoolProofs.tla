-------------------------- MODULE ThreadPoolProofs --------------------------
(***************************************************************************)
(* Proofs about ThreadPool for any number of workers: the start-up         *)
(* handshake, and the balance of the round-robin.                          *)
(***************************************************************************)
EXTENDS ThreadPool, TLAPS

InLoop == {"lock", "test", "wait", "blocked", "unlock"}    \* inside workerThreadRun

(* A mutex is held by the thread that stands in its critical section. *)
MutexHeld ==
  /\ main \in {"test", "wait", "unlock"} => mutex[i] = "main"
  /\ \A w \in Worker : worker[w] \in {"make", "unlock"} => mutex[w] = "worker"

(* A worker's loop exists exactly once the worker has made it. *)
LoopMade ==
  \A w \in Worker : evLoop[w] = IF worker[w] \in {"unlock", "signal", "run"} THEN w ELSE NULL

(* The main thread's place in threadPoolRun tells which workers are ready. *)
Progress ==
  /\ main \in InLoop \cup {"create"} => i < ThreadNum
  /\ main = "create" => \A w \in Worker : w >= i => worker[w] = "none"
  /\ main \in InLoop => \A w \in Worker : w > i => worker[w] = "none"
  /\ main \in {"listen", "serve"} => i = ThreadNum
  /\ main # "exited" => \A w \in Worker : w < i => evLoop[w] = w
  /\ main = "wait" => evLoop[i] = NULL
  /\ main = "unlock" => evLoop[i] = i

HandshakeInv == TypeOK /\ MutexHeld /\ LoopMade /\ Progress /\ NoMissedSignal

LEMMA InitHandshake == Init => HandshakeInv
BY ThreadPoolAssumption
   DEF Init, HandshakeInv, TypeOK, MutexHeld, LoopMade, Progress, NoMissedSignal,
       MainPC, WorkerPC, InLoop, Worker, Server

(* One proof step per action. *)
LEMMA NextHandshake == HandshakeInv /\ [Next]_vars => HandshakeInv'
<1> SUFFICES ASSUME HandshakeInv, [Next]_vars PROVE HandshakeInv'
  OBVIOUS
<1> USE ThreadPoolAssumption
    DEF HandshakeInv, TypeOK, MutexHeld, LoopMade, Progress, NoMissedSignal,
        MainPC, WorkerPC, InLoop, Worker
<1>1. CASE CreateWorker
  BY <1>1 DEF CreateWorker
<1>2. CASE LockToTest
  BY <1>2 DEF LockToTest
<1>3. CASE TestLoop
  BY <1>3 DEF TestLoop
<1>4. CASE WaitForLoop
  BY <1>4 DEF WaitForLoop
<1>5. CASE NextWorker
  BY <1>5 DEF NextWorker
<1>6. CASE tcpServerRun
  BY <1>6 DEF tcpServerRun
<1>7. CASE takeWorkerEventLoop
  BY <1>7 DEF takeWorkerEventLoop, NextIndex
<1>8. CASE SpuriousWakeup
  BY <1>8 DEF SpuriousWakeup
<1>9. ASSUME NEW w \in Worker, LockToMake(w) PROVE HandshakeInv'
  BY <1>9 DEF LockToMake
<1>10. ASSUME NEW w \in Worker, eventLoopInitEx(w) PROVE HandshakeInv'
  BY <1>10 DEF eventLoopInitEx
<1>11. ASSUME NEW w \in Worker, UnlockMade(w) PROVE HandshakeInv'
  BY <1>11 DEF UnlockMade
<1>12. ASSUME NEW w \in Worker, SignalMade(w) PROVE HandshakeInv'
  BY <1>12 DEF SignalMade
<1>13. CASE UNCHANGED vars
  BY <1>13 DEF vars
<1> QED
  BY <1>1, <1>2, <1>3, <1>4, <1>5, <1>6, <1>7, <1>8, <1>9, <1>10, <1>11, <1>12, <1>13
     DEF Next, MainStep, WorkerStep

LEMMA Handshake == Spec => []HandshakeInv
BY InitHandshake, NextHandshake, PTL DEF Spec

(* Every variable keeps the type TypeOK gives it; the index stays below the *)
(* number of workers (ThreadPool.c:44-55).                                  *)
THEOREM PoolTypes == Spec => []TypeOK
<1>1. HandshakeInv => TypeOK
  BY DEF HandshakeInv
<1> QED BY <1>1, Handshake, PTL

(* No connection is handed to a worker that has not made its loop yet       *)
(* (ThreadPool.c:21-41, WorkerThread.c:20-46).                              *)
THEOREM ServesWhenReady == Spec => []ReadyToServe
<1>1. HandshakeInv => ReadyToServe
  BY ThreadPoolAssumption DEF HandshakeInv, Progress, ReadyToServe, TypeOK, Worker
<1> QED BY <1>1, Handshake, PTL

(* The main thread never sleeps through a worker's signal, with or without  *)
(* spurious wake-ups (WorkerThread.c:28-29, 39-44).                         *)
THEOREM SignalIsNotMissed == Spec => []NoMissedSignal
<1>1. HandshakeInv => NoMissedSignal
  BY DEF HandshakeInv
<1> QED BY <1>1, Handshake, PTL
-----------------------------------------------------------------------------
(* The workers below the index were given one connection more than those    *)
(* from the index on: all of them have had the same number of turns, and    *)
(* the current round has come as far as the index.                          *)
RoundInv ==
  /\ HandshakeInv
  /\ ThreadNum > 0 => \E n \in Nat : \A w \in Worker : taken[w] = IF w < index THEN n + 1 ELSE n

LEMMA RoundImplies == RoundInv => Balanced
<1> SUFFICES ASSUME RoundInv, NEW s \in Server, NEW r \in Server PROVE taken[s] <= taken[r] + 1
  BY DEF Balanced
<1>1. CASE ThreadNum = 0
  BY <1>1 DEF RoundInv, HandshakeInv, TypeOK, Server
<1>2. CASE ThreadNum > 0
  <2>1. PICK n \in Nat : \A w \in Worker : taken[w] = IF w < index THEN n + 1 ELSE n
    BY <1>2 DEF RoundInv
  <2> QED BY <1>2, <2>1 DEF Server
<1> QED BY <1>1, <1>2, ThreadPoolAssumption

LEMMA NextRound == RoundInv /\ [Next]_vars => RoundInv'
<1> SUFFICES ASSUME RoundInv, [Next]_vars PROVE RoundInv'
  OBVIOUS
<1>1. HandshakeInv'
  BY NextHandshake DEF RoundInv
<1>2. CASE takeWorkerEventLoop
  <2> SUFFICES ASSUME ThreadNum > 0
               PROVE  \E n \in Nat : \A w \in Worker : taken'[w] = IF w < index' THEN n + 1 ELSE n
    BY <1>1 DEF RoundInv
  <2>1. PICK n \in Nat : \A w \in Worker : taken[w] = IF w < index THEN n + 1 ELSE n
    BY DEF RoundInv
  <2>2. index \in 0 .. ThreadNum - 1 /\ index \in Worker
    BY ThreadPoolAssumption DEF RoundInv, HandshakeInv, TypeOK, Worker
  <2>3. evLoop[index] = index
    BY <1>2, <2>2, ThreadPoolAssumption
       DEF RoundInv, HandshakeInv, Progress, TypeOK, Worker, takeWorkerEventLoop
  <2>4. /\ taken' = [taken EXCEPT ![index] = @ + 1]
        /\ index' = (index + 1) % ThreadNum
    BY <1>2, <2>3 DEF takeWorkerEventLoop, NextIndex
  <2>5. /\ taken'[index] = n + 1
        /\ \A w \in Worker \ {index} : taken'[w] = taken[w]
    BY <2>1, <2>2, <2>4 DEF RoundInv, HandshakeInv, TypeOK, Server
  <2>6. CASE index + 1 < ThreadNum
    <3>1. index' = index + 1
      BY <2>2, <2>4, <2>6, ThreadPoolAssumption
    <3>2. \A w \in Worker : taken'[w] = IF w < index' THEN n + 1 ELSE n
      BY <2>1, <2>2, <2>5, <3>1 DEF Worker
    <3> QED BY <3>2
  <2>7. CASE index + 1 = ThreadNum
    <3>1. index' = 0
      BY <2>2, <2>4, <2>7, ThreadPoolAssumption
    <3>2. \A w \in Worker : taken'[w] = IF w < index' THEN n + 2 ELSE n + 1
      BY <2>1, <2>2, <2>5, <2>7, <3>1 DEF Worker
    <3> QED BY <3>2
  <2> QED BY <2>2, <2>6, <2>7, ThreadPoolAssumption
<1>3. CASE UNCHANGED <<taken, index>>
  BY <1>1, <1>3 DEF RoundInv
<1>4. takeWorkerEventLoop \/ UNCHANGED <<taken, index>>
  BY DEF Next, MainStep, WorkerStep, CreateWorker, LockToTest, TestLoop, WaitForLoop,
         NextWorker, tcpServerRun, SpuriousWakeup, LockToMake, eventLoopInitEx, UnlockMade,
         SignalMade, vars
<1> QED BY <1>2, <1>3, <1>4

(* However many connections have come, no worker was given more than one    *)
(* connection more than any other (ThreadPool.c:44-55).                     *)
THEOREM RoundRobinBalanced == Spec => []Balanced
<1>1. Init => RoundInv
  <2>1. Init => \A w \in Worker : taken[w] = IF w < index THEN 0 + 1 ELSE 0
    BY ThreadPoolAssumption DEF Init, Worker, Server
  <2> QED BY <2>1, InitHandshake DEF RoundInv
<1> QED BY <1>1, NextRound, RoundImplies, PTL DEF Spec
=============================================================================
