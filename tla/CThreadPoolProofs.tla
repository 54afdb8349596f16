-------------------------- MODULE CThreadPoolProofs --------------------------
(***************************************************************************)
(* Proofs about CThreadPool for any numbers of workers, tasks and places.  *)
(***************************************************************************)
EXTENDS CThreadPool, SequenceTheorems, FiniteSetTheorems, TLAPS

(* Around a ring of C places. *)
LEMMA Around ==
  ASSUME NEW C \in Nat \ {0}
  PROVE  \A x \in Nat : x < 2 * C => x % C = IF x < C THEN x ELSE x - C
<1> SUFFICES ASSUME NEW x \in Nat, x < 2 * C PROVE x % C = IF x < C THEN x ELSE x - C
  OBVIOUS
<1>1. CASE x < C
  BY <1>1
<1>2. CASE x >= C
  <2>1. x = C * (x \div C) + (x % C) /\ x % C \in 0 .. C - 1 /\ x \div C \in Nat
    OBVIOUS
  <2>2. x \div C = 1
    BY <1>2, <2>1
  <2> QED BY <1>2, <2>1, <2>2
<1> QED BY <1>1, <1>2

(* What a signal does to the threads that may sleep on the condition. *)
LEMMA SignalledStep ==
  ASSUME NEW S, NEW P, NEW pc \in [S -> P], "woken" \in P, NEW pd \in Signalled(pc)
  PROVE  /\ pd \in [S -> P]
         /\ \A x \in S : pd[x] = pc[x] \/ (pc[x] = "wait" /\ pd[x] = "woken")
         /\ \/ pd = pc /\ \A x \in S : pc[x] # "wait"
            \/ \E x \in S : pc[x] = "wait" /\ pd = [pc EXCEPT ![x] = "woken"]
<1>1. DOMAIN pc = S
  OBVIOUS
<1>2. CASE Asleep(pc) = {}
  BY <1>1, <1>2 DEF Signalled, Asleep
<1>3. CASE Asleep(pc) # {}
  <2>1. PICK x \in Asleep(pc) : pd = [pc EXCEPT ![x] = "woken"]
    BY <1>3 DEF Signalled
  <2> QED BY <1>1, <2>1 DEF Asleep
<1> QED BY <1>2, <1>3
-----------------------------------------------------------------------------
(***************************************************************************)
(* Types.  A worker with a task took a real one, which needs the ring to   *)
(* hold tasks from its front up to its rear.                               *)
(***************************************************************************)
Place(f, k) == (f + k) % Capacity        \* k places on from place f

RingOK ==
  /\ queueRear = Place(queueFront, queueSize)
  /\ \A k \in 0 .. queueSize - 1 : taskQ[Place(queueFront, k)] \in Task

TookTask == \A w \in Worker : worker[w] \in {"took", "work"} => task[w] \in Task

TypeInv == TypeOK /\ RingOK /\ TookTask

(* The places counted from one of them are places, and distinct. *)
LEMMA Places ==
  ASSUME NEW f \in 0 .. Capacity - 1, NEW k \in 0 .. Capacity
  PROVE  /\ Place(f, k) \in 0 .. Capacity - 1
         /\ Place(f, k) = IF f + k < Capacity THEN f + k ELSE (f + k) - Capacity
<1>1. Capacity \in Nat \ {0} /\ f \in Nat /\ k \in Nat /\ f < Capacity /\ k <= Capacity
  BY CThreadPoolAssumption
<1>2. f + k \in Nat /\ f + k < 2 * Capacity
  BY <1>1
<1>3. \A x \in Nat : x < 2 * Capacity => x % Capacity = IF x < Capacity THEN x ELSE x - Capacity
  BY <1>1, Around
<1>4. Place(f, k) = IF f + k < Capacity THEN f + k ELSE (f + k) - Capacity
  <2>1. (f + k) % Capacity = IF f + k < Capacity THEN f + k ELSE (f + k) - Capacity
    BY <1>2, <1>3
  <2> QED BY <2>1 DEF Place
<1> QED BY <1>1, <1>4

LEMMA PlacesDiffer ==
  ASSUME NEW f \in 0 .. Capacity - 1, NEW k \in 0 .. Capacity - 1, NEW j \in 0 .. k - 1
  PROVE  Place(f, j) # Place(f, k)
<1>1. Capacity \in Nat \ {0}
  BY CThreadPoolAssumption
<1>2. j \in 0 .. Capacity /\ k \in 0 .. Capacity /\ j < k /\ k < Capacity
  BY <1>1
<1>3. Place(f, j) = IF f + j < Capacity THEN f + j ELSE (f + j) - Capacity
  BY <1>2, Places
<1>4. Place(f, k) = IF f + k < Capacity THEN f + k ELSE (f + k) - Capacity
  BY <1>2, Places
<1> QED BY <1>1, <1>2, <1>3, <1>4

(* One more place is one step round the ring. *)
LEMMA NextPlace ==
  ASSUME NEW f \in 0 .. Capacity - 1, NEW k \in 0 .. Capacity - 1
  PROVE  /\ (Place(f, k) + 1) % Capacity = Place(f, k + 1)
         /\ Place((f + 1) % Capacity, k) = Place(f, k + 1)
<1>1. Capacity \in Nat \ {0}
  BY CThreadPoolAssumption
<1>2. k \in 0 .. Capacity /\ k + 1 \in 0 .. Capacity
  BY <1>1
<1>3. \A x \in 0 .. Capacity - 1 : (x + 1) % Capacity = IF x + 1 < Capacity THEN x + 1 ELSE 0
  <2> TAKE x \in 0 .. Capacity - 1
  <2>1. x + 1 \in Nat /\ x + 1 < 2 * Capacity /\ x + 1 <= Capacity
    BY <1>1
  <2>2. \A y \in Nat : y < 2 * Capacity =>
          y % Capacity = IF y < Capacity THEN y ELSE y - Capacity
    BY <1>1, Around
  <2>3. (x + 1) % Capacity = IF x + 1 < Capacity THEN x + 1 ELSE (x + 1) - Capacity
    BY <2>1, <2>2
  <2> QED BY <1>1, <2>1, <2>3
<1>4. Place(f, k) \in 0 .. Capacity - 1 /\ (f + 1) % Capacity \in 0 .. Capacity - 1
  <2>1. Place(f, k) \in 0 .. Capacity - 1
    BY <1>2, Places
  <2>2. (f + 1) % Capacity \in 0 .. Capacity - 1
    BY <1>1
  <2> QED BY <2>1, <2>2
<1>5. (Place(f, k) + 1) % Capacity = IF Place(f, k) + 1 < Capacity THEN Place(f, k) + 1 ELSE 0
  BY <1>3, <1>4
<1>6. (Place(f, k) + 1) % Capacity = Place(f, k + 1)
  <2>1. Place(f, k) = IF f + k < Capacity THEN f + k ELSE (f + k) - Capacity
    BY <1>2, Places
  <2>2. Place(f, k + 1) = IF f + (k + 1) < Capacity THEN f + (k + 1) ELSE (f + (k + 1)) - Capacity
    BY <1>2, Places
  <2> QED BY <1>1, <1>5, <2>1, <2>2
<1>7. Place((f + 1) % Capacity, k) = Place(f, k + 1)
  <2>1. Place(f, k + 1) = IF f + (k + 1) < Capacity THEN f + (k + 1) ELSE (f + (k + 1)) - Capacity
    BY <1>2, Places
  <2> DEFINE g == (f + 1) % Capacity
  <2>2. g \in 0 .. Capacity - 1 /\ g = IF f + 1 < Capacity THEN f + 1 ELSE 0
    BY <1>3, <1>4
  <2> HIDE DEF g
  <2>3. Place(g, k) = IF g + k < Capacity THEN g + k ELSE (g + k) - Capacity
    BY <1>2, <2>2, Places
  <2>4. Place(g, k) = Place(f, k + 1)
    BY <1>1, <2>1, <2>2, <2>3
  <2> QED BY <2>4 DEF g
<1> QED BY <1>6, <1>7
-----------------------------------------------------------------------------
LEMMA InitTypeInv == Init => TypeInv
<1> SUFFICES ASSUME Init PROVE TypeInv
  OBVIOUS
<1>1. Capacity \in Nat \ {0} /\ minNum \in Int /\ NULL \notin Task
  BY CThreadPoolAssumption
<1>2. 0 % Capacity = 0
  BY <1>1
<1>3. threadIDs \in [Worker -> {"zero", "used", "garbage"}]
  BY DEF Init
<1>4. taskQ \in [0 .. Capacity - 1 -> Task \cup {NULL}]
  BY DEF Init
<1>5. worker \in [Worker -> WorkerPC] /\ call \in [Task -> CallPC]
  BY DEF Init, WorkerPC, CallPC
<1>6. task \in [Worker -> Task \cup {NULL}] /\ ran \subseteq Task /\ manager \in ManagerPC
      /\ destroy \in DestroyPC /\ seen \in [queueSize : Int, liveNum : Int, busyNum : Int]
  BY DEF Init, Unseen, ManagerPC, DestroyPC
<1>7. TypeOK
  <2>1. /\ queueSize \in 0 .. Capacity
        /\ queueFront \in 0 .. Capacity - 1 /\ queueRear \in 0 .. Capacity - 1
        /\ busyNum \in Int /\ liveNum \in Int /\ exitNum \in Int /\ signals \in Nat
    BY <1>1 DEF Init
  <2>2. shutdown \in BOOLEAN
    BY DEF Init
  <2> QED BY <1>3, <1>4, <1>5, <1>6, <2>1, <2>2, Zenon DEF TypeOK
<1>8. RingOK
  BY <1>1, <1>2 DEF Init, RingOK, Place
<1>9. TookTask
  BY DEF Init, TookTask
<1> QED BY <1>7, <1>8, <1>9 DEF TypeInv

(* A ring that is left alone stays as it is. *)
LEMMA RingUnchanged ==
  ASSUME RingOK, UNCHANGED ring
  PROVE  RingOK'
BY DEF RingOK, ring, Place

(* threadPoolAdd, seen from the ring. *)
LEMMA RingAdd ==
  ASSUME TypeInv, NEW t \in Task, threadPoolAdd(t)
  PROVE  /\ RingOK'
         /\ queueSize < Capacity
         /\ taskQ' \in [0 .. Capacity - 1 -> Task \cup {NULL}]
         /\ queueSize' \in 0 .. Capacity /\ queueRear' \in 0 .. Capacity - 1
         /\ queueSize' = queueSize + 1 /\ queueFront' = queueFront
         /\ \A k \in 0 .. queueSize - 1 : taskQ'[Place(queueFront, k)] = taskQ[Place(queueFront, k)]
         /\ taskQ'[Place(queueFront, queueSize)] = t
<1>1. /\ Capacity \in Nat \ {0} /\ queueSize \in 0 .. Capacity - 1
      /\ queueFront \in 0 .. Capacity - 1 /\ queueRear \in 0 .. Capacity - 1
      /\ taskQ \in [0 .. Capacity - 1 -> Task \cup {NULL}]
  BY CThreadPoolAssumption DEF TypeInv, TypeOK, threadPoolAdd, Room
<1>2. /\ taskQ' = [taskQ EXCEPT ![queueRear] = t]
      /\ queueRear' = (queueRear + 1) % Capacity
      /\ queueSize' = queueSize + 1 /\ queueFront' = queueFront
      /\ queueRear = Place(queueFront, queueSize)
  BY DEF threadPoolAdd, TypeInv, RingOK
<1>3. \A k \in 0 .. queueSize - 1 : Place(queueFront, k) \in 0 .. Capacity - 1
  <2> TAKE k \in 0 .. queueSize - 1
  <2>1. k \in 0 .. Capacity
    BY <1>1
  <2> QED BY <1>1, <2>1, Places
<1>4. \A k \in 0 .. queueSize - 1 : Place(queueFront, k) # Place(queueFront, queueSize)
  BY <1>1, PlacesDiffer
<1>5. \A k \in 0 .. queueSize - 1 : taskQ'[Place(queueFront, k)] = taskQ[Place(queueFront, k)]
  BY <1>1, <1>2, <1>3, <1>4
<1>6. taskQ'[Place(queueFront, queueSize)] = t
  BY <1>1, <1>2
<1>7. queueRear' = Place(queueFront', queueSize')
  BY <1>1, <1>2, NextPlace
<1>8. \A k \in 0 .. queueSize' - 1 : taskQ'[Place(queueFront', k)] \in Task
  <2> TAKE k \in 0 .. queueSize' - 1
  <2>1. k \in 0 .. queueSize - 1 \/ k = queueSize
    BY <1>1, <1>2
  <2> QED BY <1>2, <1>5, <1>6, <2>1 DEF TypeInv, RingOK
<1>9. RingOK'
  BY <1>7, <1>8 DEF RingOK, Place
<1>10. queueRear' \in 0 .. Capacity - 1
  BY <1>1, <1>2
<1> QED BY <1>1, <1>2, <1>5, <1>6, <1>9, <1>10

(* TakeTask, seen from the ring. *)
LEMMA RingTake ==
  ASSUME TypeInv, NEW w \in Worker, TakeTask(w)
  PROVE  /\ RingOK'
         /\ queueSize > 0 /\ queueSize' = queueSize - 1
         /\ queueSize' \in 0 .. Capacity /\ queueFront' \in 0 .. Capacity - 1
         /\ taskQ' = taskQ /\ queueRear' = queueRear
         /\ taskQ[queueFront] \in Task
         /\ \A k \in 0 .. queueSize - 2 : Place(queueFront', k) = Place(queueFront, k + 1)
<1>1. /\ Capacity \in Nat \ {0} /\ queueSize \in 1 .. Capacity
      /\ queueFront \in 0 .. Capacity - 1
  BY CThreadPoolAssumption DEF TypeInv, TypeOK, TakeTask
<1>2. /\ queueFront' = (queueFront + 1) % Capacity /\ queueSize' = queueSize - 1
      /\ taskQ' = taskQ /\ queueRear' = queueRear
      /\ queueRear = Place(queueFront, queueSize)
      /\ \A k \in 0 .. queueSize - 1 : taskQ[Place(queueFront, k)] \in Task
  BY DEF TakeTask, NextFront, TypeInv, RingOK
<1>3. \A k \in 0 .. queueSize - 1 : Place(queueFront', k) = Place(queueFront, k + 1)
  BY <1>1, <1>2, NextPlace
<1>4. queueRear' = Place(queueFront', queueSize')
  <2>1. queueSize - 1 \in 0 .. queueSize - 1 /\ (queueSize - 1) + 1 = queueSize
    BY <1>1
  <2>2. Place(queueFront', queueSize - 1) = Place(queueFront, (queueSize - 1) + 1)
    BY <1>3, <2>1
  <2> QED BY <1>2, <2>1, <2>2
<1>5. \A k \in 0 .. queueSize' - 1 : taskQ'[Place(queueFront', k)] \in Task
  <2> TAKE k \in 0 .. queueSize' - 1
  <2>1. k \in 0 .. queueSize - 1 /\ k + 1 \in 0 .. queueSize - 1
    BY <1>1, <1>2
  <2> QED BY <1>2, <1>3, <2>1
<1>6. RingOK'
  BY <1>4, <1>5 DEF RingOK, Place
<1>7. queueFront' \in 0 .. Capacity - 1
  BY <1>1, <1>2
<1>8. taskQ[queueFront] \in Task
  <2>1. 0 \in 0 .. queueSize - 1 /\ 0 \in 0 .. Capacity
    BY <1>1
  <2>2. Place(queueFront, 0) = queueFront
    BY <1>1, <2>1, Places
  <2> QED BY <1>2, <2>1, <2>2
<1>9. \A k \in 0 .. queueSize - 2 : k \in 0 .. queueSize - 1
  BY <1>1
<1> QED BY <1>1, <1>2, <1>3, <1>6, <1>7, <1>8, <1>9

-----------------------------------------------------------------------------
(* The calls. *)
LEMMA CallTypeInv ==
  ASSUME TypeInv, NEW t \in Task, CallStep(t)
  PROVE  TypeInv'
<1>1. TypeOK /\ RingOK /\ TookTask
  BY DEF TypeInv
<1>2. CASE WaitForPlace(t)
  <2>1. TypeOK' /\ TookTask'
    BY <1>1, <1>2 DEF WaitForPlace, TypeOK, TookTask, CallPC, ring, workers, boss
  <2> QED BY <1>1, <1>2, <2>1, RingUnchanged DEF WaitForPlace, TypeInv
<1>3. CASE Refuse(t)
  <2>1. TypeOK' /\ TookTask'
    BY <1>1, <1>3 DEF Refuse, TypeOK, TookTask, CallPC, ring, workers, boss
  <2> QED BY <1>1, <1>3, <2>1, RingUnchanged DEF Refuse, TypeInv
<1>4. CASE threadPoolAdd(t)
  <2>1. worker' \in Signalled(worker) /\ UNCHANGED task
    BY <1>4 DEF threadPoolAdd, SignalNotEmpty
  <2>2. worker \in [Worker -> WorkerPC] /\ "woken" \in WorkerPC
    BY <1>1 DEF TypeOK, WorkerPC
  <2>3. /\ worker' \in [Worker -> WorkerPC]
        /\ \A w \in Worker : worker'[w] = worker[w] \/ worker'[w] = "woken"
    BY <2>1, <2>2, SignalledStep
  <2>4. TookTask'
    BY <1>1, <2>1, <2>3 DEF TookTask
  <2>5. call' \in [Task -> CallPC]
    BY <1>1, <1>4 DEF threadPoolAdd, TypeOK, CallPC
  <2>6. TypeOK'
    BY <1>1, <1>4, <2>3, <2>5, RingAdd DEF threadPoolAdd, TypeOK, boss
  <2> QED BY <1>4, <2>4, <2>6, RingAdd DEF TypeInv
<1> QED BY <1>2, <1>3, <1>4 DEF CallStep

(* The workers. *)
LEMMA WorkerTypeInv ==
  ASSUME TypeInv, NEW w \in Worker, WorkerStep(w)
  PROVE  TypeInv'
<1>1. TypeOK /\ RingOK /\ TookTask
  BY DEF TypeInv
<1>2. CASE WaitForTask(w)
  <2>1. TypeOK' /\ TookTask'
    BY <1>1, <1>2 DEF WaitForTask, TypeOK, TookTask, WorkerPC, ring, boss
  <2> QED BY <1>1, <1>2, <2>1, RingUnchanged DEF WaitForTask, TypeInv
<1>3. CASE ExitAsTold(w)
  <2>1. TypeOK' /\ TookTask'
    BY <1>1, <1>3 DEF ExitAsTold, TypeOK, TookTask, WorkerPC, ring, boss
  <2> QED BY <1>1, <1>3, <2>1, RingUnchanged DEF ExitAsTold, TypeInv
<1>4. CASE ExitAtShutdown(w)
  <2>1. TypeOK' /\ TookTask'
    BY <1>1, <1>4 DEF ExitAtShutdown, TypeOK, TookTask, WorkerPC, ring, boss
  <2> QED BY <1>1, <1>4, <2>1, RingUnchanged DEF ExitAtShutdown, TypeInv
<1>5. CASE threadExit(w)
  <2>1. TypeOK' /\ TookTask'
    BY <1>1, <1>5 DEF threadExit, TypeOK, TookTask, WorkerPC, ring, boss
  <2> QED BY <1>1, <1>5, <2>1, RingUnchanged DEF threadExit, TypeInv
<1>6. CASE TakeTask(w)
  <2>1. call' \in Signalled(call) /\ call \in [Task -> CallPC] /\ "woken" \in CallPC
    BY <1>1, <1>6 DEF TakeTask, SignalNotFull, TypeOK, CallPC
  <2>2. call' \in [Task -> CallPC]
    BY <2>1, SignalledStep
  <2>3. taskQ[queueFront] \in Task
    BY <1>6, RingTake
  <2>4. TookTask' /\ task' \in [Worker -> Task \cup {NULL}] /\ worker' \in [Worker -> WorkerPC]
    BY <1>1, <1>6, <2>3 DEF TakeTask, TypeOK, TookTask, WorkerPC
  <2>5. TypeOK'
    BY <1>1, <1>6, <2>2, <2>4, RingTake DEF TakeTask, TypeOK, boss
  <2> QED BY <1>6, <2>4, <2>5, RingTake DEF TypeInv
<1>7. CASE BusyUp(w)
  <2>1. TypeOK' /\ TookTask'
    BY <1>1, <1>7 DEF BusyUp, TypeOK, TookTask, WorkerPC, ring, boss
  <2> QED BY <1>1, <1>7, <2>1, RingUnchanged DEF BusyUp, TypeInv
<1>8. CASE EndTask(w)
  <2>1. task[w] \in Task
    BY <1>1, <1>8 DEF EndTask, TookTask
  <2>2. TypeOK' /\ TookTask'
    BY <1>1, <1>8, <2>1 DEF EndTask, TypeOK, TookTask, WorkerPC, ring, boss
  <2> QED BY <1>1, <1>8, <2>2, RingUnchanged DEF EndTask, TypeInv
<1> QED BY <1>2, <1>3, <1>4, <1>5, <1>6, <1>7, <1>8 DEF WorkerStep

(* The manager starts some of the workers. *)
LEMMA StartedFinite == Started \subseteq Worker /\ IsFiniteSet(Started) /\ Cardinality(Started) \in Nat
<1>1. Started \subseteq Worker
  BY DEF Started
<1>2. IsFiniteSet(Worker)
  BY CThreadPoolAssumption, FS_Interval DEF Worker
<1> QED BY <1>1, <1>2, FS_Subset, FS_CardinalityType

(* The manager, threadPoolDestory and the system. *)
LEMMA OtherTypeInv ==
  ASSUME TypeInv, ManagerStep \/ Shutdown \/ DestroyStep \/ SpuriousWakeup
  PROVE  TypeInv'
<1>1. TypeOK /\ RingOK /\ TookTask
  BY DEF TypeInv
<1>2. worker \in [Worker -> WorkerPC] /\ "woken" \in WorkerPC
  BY <1>1 DEF TypeOK, WorkerPC
<1>3. CASE ManagerCheck
  <2>1. TypeOK' /\ TookTask'
    BY <1>1, <1>3 DEF ManagerCheck, ManagerTo, ManagerPC, TypeOK, TookTask, ring, workers, boss
  <2> QED BY <1>1, <1>3, <2>1, RingUnchanged DEF ManagerCheck, TypeInv
<1>4. CASE ReadSizes
  <2>1. TypeOK' /\ TookTask'
    BY <1>1, <1>4 DEF ReadSizes, ManagerTo, ManagerPC, Sees, Unseen, TypeOK, TookTask, ring, workers, boss
  <2> QED BY <1>1, <1>4, <2>1, RingUnchanged DEF ReadSizes, TypeInv
<1>5. CASE ReadBusy
  <2>1. TypeOK' /\ TookTask'
    BY <1>1, <1>5 DEF ReadBusy, ManagerTo, ManagerPC, Sees, Unseen, TypeOK, TookTask, ring, workers, boss
  <2> QED BY <1>1, <1>5, <2>1, RingUnchanged DEF ReadBusy, TypeInv
<1>6. CASE Grow
  <2>1. liveNum' \in Int
    BY <1>1, <1>6, StartedFinite DEF Grow, LiveNumGrown, TypeOK
  <2>2. TookTask' /\ worker' \in [Worker -> WorkerPC]
    BY <1>1, <1>6 DEF Grow, TypeOK, TookTask, WorkerPC
  <2>3. threadIDs' \in [Worker -> {"zero", "used", "garbage"}]
    BY <1>1, <1>6 DEF Grow, TypeOK
  <2>4. manager' \in ManagerPC /\ seen' \in [queueSize : Int, liveNum : Int, busyNum : Int]
    BY <1>1, <1>6 DEF Grow, TypeOK, ManagerTo, ManagerPC, Sees, Unseen
  <2>5. TypeOK'
    BY <1>1, <1>6, <2>1, <2>2, <2>3, <2>4 DEF Grow, TypeOK, ring
  <2> QED BY <1>1, <1>6, <2>2, <2>5, RingUnchanged DEF Grow, TypeInv
<1>7. CASE Shrink
  <2>1. exitNum' \in Int /\ signals' \in Nat
    BY <1>7, CThreadPoolAssumption DEF Shrink
  <2>2. TypeOK' /\ TookTask'
    BY <1>1, <1>7, <2>1 DEF Shrink, ManagerTo, ManagerPC, TypeOK, TookTask, ring, workers
  <2> QED BY <1>1, <1>7, <2>2, RingUnchanged DEF Shrink, TypeInv
<1>8. CASE SignalExit
  <2>1. worker' \in Signalled(worker) \/ worker' = worker
    BY <1>8 DEF SignalExit
  <2>2. /\ worker' \in [Worker -> WorkerPC]
        /\ \A w \in Worker : worker'[w] = worker[w] \/ worker'[w] = "woken"
    BY <1>2, <2>1, SignalledStep
  <2>3. TookTask'
    BY <1>1, <1>8, <2>2 DEF SignalExit, TookTask
  <2>4. TypeOK'
    BY <1>1, <1>8, <2>2 DEF SignalExit, ManagerTo, ManagerPC, Sees, Unseen, TypeOK, ring
  <2> QED BY <1>1, <1>8, <2>3, <2>4, RingUnchanged DEF SignalExit, TypeInv
<1>9. CASE Shutdown
  <2>1. TypeOK' /\ TookTask'
    BY <1>1, <1>9 DEF Shutdown, DestroyTo, DestroyPC, TypeOK, TookTask, ring, workers, boss
  <2> QED BY <1>1, <1>9, <2>1, RingUnchanged DEF Shutdown, TypeInv
<1>10. CASE JoinManager
  <2>1. TypeOK' /\ TookTask'
    BY <1>1, <1>10 DEF JoinManager, DestroyTo, DestroyPC, TypeOK, TookTask, ring, workers, boss
  <2> QED BY <1>1, <1>10, <2>1, RingUnchanged DEF JoinManager, TypeInv
<1>11. CASE SignalAll
  <2>1. worker' \in Signalled(worker) \/ worker' = worker
    BY <1>11 DEF SignalAll
  <2>2. /\ worker' \in [Worker -> WorkerPC]
        /\ \A w \in Worker : worker'[w] = worker[w] \/ worker'[w] = "woken"
    BY <1>2, <2>1, SignalledStep
  <2>3. TookTask'
    BY <1>1, <1>11, <2>2 DEF SignalAll, TookTask
  <2>4. TypeOK'
    BY <1>1, <1>11, <2>2 DEF SignalAll, DestroyTo, DestroyPC, TypeOK, ring
  <2> QED BY <1>1, <1>11, <2>3, <2>4, RingUnchanged DEF SignalAll, TypeInv
<1>12. CASE Free
  <2>1. TypeOK' /\ TookTask'
    BY <1>1, <1>12 DEF Free, DestroyTo, DestroyPC, TypeOK, TookTask, ring, workers, boss
  <2> QED BY <1>1, <1>12, <2>1, RingUnchanged DEF Free, TypeInv
<1>13. CASE SpuriousWakeup
  <2>1. TypeOK' /\ TookTask'
    BY <1>1, <1>13 DEF SpuriousWakeup, TypeOK, TookTask, WorkerPC, CallPC, ring, boss
  <2> QED BY <1>1, <1>13, <2>1, RingUnchanged DEF SpuriousWakeup, TypeInv
<1> QED BY <1>3, <1>4, <1>5, <1>6, <1>7, <1>8, <1>9, <1>10, <1>11, <1>12, <1>13 DEF ManagerStep, DestroyStep

LEMMA NextTypeInv == TypeInv /\ [Next]_vars => TypeInv'
<1> SUFFICES ASSUME TypeInv, [Next]_vars PROVE TypeInv'
  OBVIOUS
<1>1. CASE Next
  BY <1>1, CallTypeInv, WorkerTypeInv, OtherTypeInv DEF Next
<1>2. CASE UNCHANGED vars
  BY <1>2 DEF vars, ring, workers, boss, TypeInv, TypeOK, RingOK, TookTask, Place
<1> QED BY <1>1, <1>2

LEMMA TypeInvariant == Spec => []TypeInv
  BY InitTypeInv, NextTypeInv, PTL DEF Spec

(* Types: among them, no worker runs the NULL of an empty place, whichever  *)
(* callers and workers the ring is between (threadPoolAdd and worker).      *)
THEOREM CPoolTypes == Spec => []TypeOK
<1>1. TypeInv => TypeOK
  BY DEF TypeInv
<1> QED BY <1>1, TypeInvariant, PTL

-----------------------------------------------------------------------------
(***************************************************************************)
(* The ring implements the bounded queue.                                  *)
(***************************************************************************)
WaitingOK ==
  /\ Waiting \in Seq(Task) /\ Len(Waiting) = queueSize
  /\ Waiting = [k \in 1 .. queueSize |-> taskQ[Place(queueFront, k - 1)]]

LEMMA WaitingIsSeq == TypeInv => WaitingOK
<1> SUFFICES ASSUME TypeInv PROVE WaitingOK
  OBVIOUS
<1>1. queueSize \in Nat
  BY CThreadPoolAssumption DEF TypeInv, TypeOK
<1>2. Waiting = [k \in 1 .. queueSize |-> taskQ[Place(queueFront, k - 1)]]
  BY DEF Waiting, Place
<1>3. \A k \in 1 .. queueSize : taskQ[Place(queueFront, k - 1)] \in Task
  <2> TAKE k \in 1 .. queueSize
  <2>1. k - 1 \in 0 .. queueSize - 1
    BY <1>1
  <2> QED BY <2>1 DEF TypeInv, RingOK
<1>4. Waiting \in [1 .. queueSize -> Task]
  BY <1>2, <1>3
<1> QED BY <1>1, <1>2, <1>4 DEF WaitingOK

LEMMA WaitingIsSeqAfter == TypeInv' => WaitingOK'
  BY WaitingIsSeq, PTL

LEMMA WaitingUnchanged == UNCHANGED ring => Waiting' = Waiting
  BY DEF ring, Waiting

(* A signal, or waking up, adds no task. *)
LEMMA AddedUnchanged ==
  ASSUME TypeInv, call' \in Signalled(call)
  PROVE  Added' = Added
<1>1. call \in [Task -> CallPC] /\ "woken" \in CallPC
  BY DEF TypeInv, TypeOK, CallPC
<1>2. \A t \in Task : call'[t] = call[t] \/ (call[t] = "wait" /\ call'[t] = "woken")
  BY <1>1, SignalledStep
<1> QED BY <1>2 DEF Added

LEMMA AddPuts ==
  ASSUME TypeInv, NEW t \in Task, threadPoolAdd(t)
  PROVE  Queue!Put(t)
<1>1. TypeInv'
  BY CallTypeInv DEF CallStep
<1>2. /\ Waiting \in Seq(Task) /\ Len(Waiting) = queueSize
      /\ Waiting = [k \in 1 .. queueSize |-> taskQ[Place(queueFront, k - 1)]]
  BY WaitingIsSeq DEF WaitingOK
<1>3. /\ Waiting' \in Seq(Task) /\ Len(Waiting') = queueSize'
      /\ Waiting' = [k \in 1 .. queueSize' |-> taskQ'[Place(queueFront', k - 1)]]
  BY <1>1, WaitingIsSeqAfter DEF WaitingOK, Place
<1>4. /\ queueSize \in Nat /\ queueSize < Capacity /\ queueSize' = queueSize + 1 /\ queueFront' = queueFront
      /\ \A k \in 0 .. queueSize - 1 : taskQ'[Place(queueFront, k)] = taskQ[Place(queueFront, k)]
      /\ taskQ'[Place(queueFront, queueSize)] = t
  BY RingAdd, CThreadPoolAssumption DEF TypeInv, TypeOK
<1>5. Waiting' = Append(Waiting, t)
  <2>1. /\ Append(Waiting, t) \in Seq(Task) /\ Len(Append(Waiting, t)) = queueSize + 1
        /\ \A k \in 1 .. queueSize : Append(Waiting, t)[k] = Waiting[k]
        /\ Append(Waiting, t)[queueSize + 1] = t
    <3>1. Waiting \in Seq(Task) /\ Len(Waiting) = queueSize
      BY <1>2
    <3>2. Append(Waiting, t) \in Seq(Task) /\ Len(Append(Waiting, t)) = queueSize + 1
      BY <3>1
    <3>3. \A k \in 1 .. queueSize : Append(Waiting, t)[k] = Waiting[k]
      BY <3>1
    <3>4. Append(Waiting, t)[queueSize + 1] = t
      BY <3>1
    <3> QED BY <3>2, <3>3, <3>4
  <2>2. \A k \in 1 .. queueSize + 1 : Waiting'[k] = Append(Waiting, t)[k]
    <3> TAKE k \in 1 .. queueSize + 1
    <3>1. CASE k = queueSize + 1
      <4>1. Append(Waiting, t)[k] = t
        BY <2>1, <3>1
      <4>2. Waiting'[k] = taskQ'[Place(queueFront, queueSize)]
        BY <1>3, <1>4, <3>1
      <4> QED BY <1>4, <4>1, <4>2
    <3>2. CASE k # queueSize + 1
      <4>1. k \in 1 .. queueSize /\ k - 1 \in 0 .. queueSize - 1
        BY <1>4, <3>2
      <4>2. Append(Waiting, t)[k] = Waiting[k]
        BY <2>1, <4>1
      <4>3. Waiting'[k] = taskQ'[Place(queueFront, k - 1)]
        BY <1>3, <1>4
      <4> QED BY <1>2, <1>4, <4>1, <4>2, <4>3
    <3> QED BY <3>1, <3>2
  <2> QED BY <1>3, <1>4, <2>1, <2>2, SeqEqual
<1>6. t \notin Added /\ Added' = Added \cup {t}
  BY DEF threadPoolAdd, CallRuns, Added, TypeInv, TypeOK
<1> QED BY <1>2, <1>4, <1>5, <1>6 DEF Queue!Put

LEMMA TakeTakes ==
  ASSUME TypeInv, NEW w \in Worker, TakeTask(w)
  PROVE  Queue!Take
<1>1. TypeInv'
  BY WorkerTypeInv DEF WorkerStep
<1>2. /\ Waiting \in Seq(Task) /\ Len(Waiting) = queueSize
      /\ Waiting = [k \in 1 .. queueSize |-> taskQ[Place(queueFront, k - 1)]]
  BY WaitingIsSeq DEF WaitingOK
<1>3. /\ Waiting' \in Seq(Task) /\ Len(Waiting') = queueSize'
      /\ Waiting' = [k \in 1 .. queueSize' |-> taskQ'[Place(queueFront', k - 1)]]
  BY <1>1, WaitingIsSeqAfter DEF WaitingOK, Place
<1>4. /\ queueSize \in Nat /\ queueSize > 0 /\ queueSize' = queueSize - 1 /\ taskQ' = taskQ
      /\ \A k \in 0 .. queueSize - 2 : Place(queueFront', k) = Place(queueFront, k + 1)
  BY RingTake, CThreadPoolAssumption DEF TypeInv, TypeOK
<1>5. Waiting # <<>>
  BY <1>2, <1>4
<1>6. Waiting' = Tail(Waiting)
  <2>1. Tail(Waiting) \in Seq(Task) /\ Len(Tail(Waiting)) = queueSize - 1
    BY <1>2, <1>5, HeadTailProperties
  <2>2. \A k \in 1 .. queueSize - 1 : Waiting'[k] = Tail(Waiting)[k]
    <3> TAKE k \in 1 .. queueSize - 1
    <3>1. k - 1 \in 0 .. queueSize - 2 /\ k + 1 \in 1 .. queueSize /\ (k - 1) + 1 = (k + 1) - 1
      BY <1>4
    <3>2. Tail(Waiting)[k] = Waiting[k + 1]
      BY <1>2, <1>5, HeadTailProperties
    <3>3. Waiting'[k] = taskQ[Place(queueFront', k - 1)]
      BY <1>3, <1>4
    <3>4. Place(queueFront', k - 1) = Place(queueFront, (k + 1) - 1)
      BY <1>4, <3>1
    <3> QED BY <1>2, <3>1, <3>2, <3>3, <3>4
  <2> QED BY <1>3, <1>4, <2>1, <2>2, SeqEqual
<1>7. Added' = Added
  BY AddedUnchanged DEF TakeTask, SignalNotFull
<1> QED BY <1>5, <1>6, <1>7 DEF Queue!Take

(* Every step of the pool is a step of the queue, or leaves it alone. *)
LEMMA StepOfQueue ==
  ASSUME TypeInv, [Next]_vars
  PROVE  [Queue!Next]_<<Waiting, Added>>
<1>1. call \in [Task -> CallPC]
  BY DEF TypeInv, TypeOK
<1>2. ASSUME NEW t \in Task, CallStep(t) PROVE Queue!Put(t) \/ UNCHANGED <<Waiting, Added>>
  <2>1. CASE threadPoolAdd(t)
    BY <2>1, AddPuts
  <2>2. CASE WaitForPlace(t) \/ Refuse(t)
    <3>1. UNCHANGED ring /\ (call' = [call EXCEPT ![t] = "wait"] \/ call' = [call EXCEPT ![t] = "refused"])
          /\ call[t] # "added"
      BY <2>2 DEF WaitForPlace, Refuse, CallRuns
    <3>2. Added' = Added
      BY <1>1, <3>1 DEF Added
    <3> QED BY <3>1, <3>2, WaitingUnchanged
  <2> QED BY <1>2, <2>1, <2>2 DEF CallStep
<1>3. ASSUME NEW w \in Worker, WorkerStep(w) PROVE Queue!Take \/ UNCHANGED <<Waiting, Added>>
  <2>1. CASE TakeTask(w)
    BY <2>1, TakeTakes
  <2>2. CASE ~TakeTask(w)
    <3>1. UNCHANGED ring /\ call' = call
      BY <1>3, <2>2 DEF WorkerStep, WaitForTask, ExitAsTold, ExitAtShutdown, threadExit, BusyUp, EndTask
    <3> QED BY <3>1, WaitingUnchanged DEF Added
  <2> QED BY <2>1, <2>2
<1>4. ASSUME ManagerStep \/ Shutdown \/ DestroyStep PROVE UNCHANGED <<Waiting, Added>>
  <2>1. UNCHANGED ring /\ call' = call
    BY <1>4 DEF ManagerStep, DestroyStep, ManagerCheck, ReadSizes, ReadBusy, Grow, Shrink, SignalExit,
         Shutdown, JoinManager, SignalAll, Free, workers
  <2> QED BY <2>1, WaitingUnchanged DEF Added
<1>5. ASSUME SpuriousWakeup PROVE UNCHANGED <<Waiting, Added>>
  <2>1. UNCHANGED ring /\ (call' = call \/ \E t \in Task : call[t] = "wait" /\ call' = [call EXCEPT ![t] = "woken"])
    BY <1>5 DEF SpuriousWakeup
  <2>2. Added' = Added
    BY <1>1, <2>1 DEF Added
  <2> QED BY <2>1, <2>2, WaitingUnchanged
<1>6. ASSUME UNCHANGED vars PROVE UNCHANGED <<Waiting, Added>>
  <2>1. UNCHANGED ring /\ call' = call
    BY <1>6 DEF vars
  <2> QED BY <2>1, WaitingUnchanged DEF Added
<1> QED BY <1>2, <1>3, <1>4, <1>5, <1>6 DEF Next, Queue!Next

(* The pool is a bounded first-in-first-out queue (threadPoolAdd, worker):  *)
(* a task is taken at most once, in the order of the calls, and none is     *)
(* overwritten, for any number of callers, workers and places.              *)
THEOREM CPoolIsQueue == Spec => ImplementsTaskQueue
<1>1. Init => Queue!Init
  <2> SUFFICES ASSUME Init PROVE Waiting = <<>> /\ Added = {}
    BY DEF Queue!Init
  <2>1. Waiting \in Seq(Task) /\ Len(Waiting) = 0
    BY InitTypeInv, WaitingIsSeq DEF Init, WaitingOK
  <2>2. Added = {}
    BY DEF Init, Added
  <2> QED BY <2>1, <2>2, EmptySeq
<1>2. TypeInv /\ [Next]_vars => [Queue!Next]_<<Waiting, Added>>
  BY StepOfQueue
<1> QED BY <1>1, <1>2, TypeInvariant, PTL DEF Spec, ImplementsTaskQueue, Queue!Spec

-----------------------------------------------------------------------------
(***************************************************************************)
(* The numbers of workers.                                                 *)
(***************************************************************************)
Active == {w \in Worker : worker[w] \notin {"none", "leave", "exited"}}
Ready  == {w \in Worker : worker[w] \in {"lock", "woken"}}

LEMMA SetsOfWorkers ==
  ASSUME NEW S \in SUBSET Worker, NEW T \in SUBSET S
  PROVE  /\ IsFiniteSet(S) /\ IsFiniteSet(T)
         /\ Cardinality(S) \in Nat /\ Cardinality(T) \in Nat
         /\ Cardinality(T) <= Cardinality(S)
<1>1. IsFiniteSet(Worker)
  BY CThreadPoolAssumption, FS_Interval DEF Worker
<1>2. IsFiniteSet(S)
  BY <1>1, FS_Subset
<1>3. IsFiniteSet(T) /\ Cardinality(T) <= Cardinality(S)
  BY <1>2, FS_Subset
<1> QED BY <1>2, <1>3, FS_CardinalityType

(* The manager starts no more workers than there is room for: each has its  *)
(* own number of free ids before it, and that number leaves room.           *)
LEMMA StartedFit ==
  ASSUME liveNum \in Int, liveNum <= maxNum
  PROVE  Cardinality(Started) <= maxNum - liveNum
<1> DEFINE free == {w \in Worker : threadIDs[w] = "zero"}
           Before(w) == Cardinality({v \in free : v < w})
           room == 0 .. maxNum - liveNum - 1
           f == [w \in Started |-> Before(w)]
<1>1. maxNum \in Nat /\ Worker = 0 .. maxNum - 1
  BY CThreadPoolAssumption DEF Worker
<1>2. \A w \in Worker : IsFiniteSet({v \in free : v < w}) /\ Before(w) \in Nat
  <2> TAKE w \in Worker
  <2>1. {v \in free : v < w} \in SUBSET Worker
    OBVIOUS
  <2> QED BY <2>1, SetsOfWorkers
<1>3. \A v, w \in free : v < w => Before(v) < Before(w)
  <2> SUFFICES ASSUME NEW v \in free, NEW w \in free, v < w PROVE Before(v) < Before(w)
    OBVIOUS
  <2> DEFINE lower == {u \in free : u < v}
             upper == {u \in free : u < w}
  <2>1. lower \in SUBSET upper /\ upper \in SUBSET Worker /\ v \in upper /\ v \notin lower
    BY <1>1
  <2>2. Cardinality(lower \cup {v}) = Cardinality(lower) + 1
    BY <2>1, SetsOfWorkers, FS_AddElement
  <2>3. lower \cup {v} \in SUBSET upper
    BY <2>1
  <2>4. Cardinality(lower \cup {v}) <= Cardinality(upper) /\ Cardinality(upper) \in Nat /\ Cardinality(lower) \in Nat
    BY <2>1, <2>3, SetsOfWorkers
  <2> QED BY <2>2, <2>4
<1>4. Started = {w \in free : Before(w) < NUMBER /\ liveNum + Before(w) < maxNum}
  BY DEF Started
<1> HIDE DEF Before, free
<1>5. f \in [Started -> room]
  <2>1. \A w \in Started : Before(w) \in Nat /\ liveNum + Before(w) < maxNum
    BY <1>2, <1>4 DEF free
  <2> QED BY <1>1, <2>1
<1>6. f \in Injection(Started, room)
  <2>1. \A v, w \in Started : v # w => f[v] # f[w]
    <3> SUFFICES ASSUME NEW v \in Started, NEW w \in Started, v # w PROVE Before(v) # Before(w)
      OBVIOUS
    <3>1. v \in free /\ w \in free
      BY <1>4
    <3>2. v \in Worker /\ w \in Worker
      BY <3>1 DEF free
    <3>3. v < w \/ w < v
      BY <1>1, <3>2
    <3>4. Before(v) \in Nat /\ Before(w) \in Nat
      BY <1>2, <3>2
    <3> QED BY <1>3, <3>1, <3>3, <3>4
  <2> QED BY <1>5, <2>1 DEF Injection, IsInjective
<1>7. IsFiniteSet(room) /\ Cardinality(room) = maxNum - liveNum
  BY <1>1, FS_Interval
<1> QED BY <1>6, <1>7, FS_Injection

(* What a step may do to the workers other than the one that takes it: wake *)
(* one that sleeps.                                                         *)
Wakes == \A w \in Worker : worker'[w] = worker[w] \/ (worker[w] = "wait" /\ worker'[w] = "woken")

LEMMA OtherWakes ==
  ASSUME TypeInv,
         \/ \E t \in Task : CallStep(t)
         \/ ManagerStep /\ ~Grow
         \/ Shutdown \/ DestroyStep \/ SpuriousWakeup \/ UNCHANGED vars
  PROVE  /\ Wakes /\ UNCHANGED <<liveNum, threadIDs>>
         /\ (shutdown => shutdown')
         /\ queueSize' = queueSize \/ \E t \in Task : threadPoolAdd(t)
<1>1. worker \in [Worker -> WorkerPC] /\ "woken" \in WorkerPC
  BY DEF TypeInv, TypeOK, WorkerPC
<1>2. worker' \in Signalled(worker) => Wakes
  BY <1>1, SignalledStep DEF Wakes
<1>3. worker' = worker => Wakes
  BY DEF Wakes
<1>4. ASSUME NEW t \in Task, CallStep(t)
      PROVE  /\ worker' = worker \/ worker' \in Signalled(worker)
             /\ UNCHANGED <<liveNum, threadIDs, shutdown>>
             /\ queueSize' = queueSize \/ threadPoolAdd(t)
  BY <1>4 DEF CallStep, WaitForPlace, Refuse, threadPoolAdd, SignalNotEmpty, ring, workers
<1>5. ASSUME ManagerStep, ~Grow
      PROVE  /\ worker' = worker \/ worker' \in Signalled(worker)
             /\ UNCHANGED <<liveNum, threadIDs, shutdown, queueSize>>
  BY <1>5 DEF ManagerStep, ManagerCheck, ReadSizes, ReadBusy, Shrink, SignalExit, ring, workers
<1>6. ASSUME Shutdown \/ DestroyStep
      PROVE  /\ worker' = worker \/ worker' \in Signalled(worker)
             /\ UNCHANGED <<liveNum, threadIDs, queueSize>> /\ (shutdown => shutdown')
  BY <1>6 DEF Shutdown, DestroyStep, JoinManager, SignalAll, Free, ring, workers
<1>7. ASSUME SpuriousWakeup
      PROVE  Wakes /\ UNCHANGED <<liveNum, threadIDs, queueSize, shutdown>>
  BY <1>1, <1>7 DEF SpuriousWakeup, Wakes, ring
<1>8. ASSUME UNCHANGED vars
      PROVE  worker' = worker /\ UNCHANGED <<liveNum, threadIDs, queueSize, shutdown>>
  BY <1>8 DEF vars, ring, workers
<1> QED BY <1>2, <1>3, <1>4, <1>5, <1>6, <1>7, <1>8

LEMMA NextCovers == TypeInv /\ LiveNumCovers /\ [Next]_vars => LiveNumCovers'
<1> SUFFICES ASSUME TypeInv, LiveNumCovers, [Next]_vars PROVE LiveNumCovers'
  OBVIOUS
<1>1. /\ worker \in [Worker -> WorkerPC] /\ liveNum \in Int /\ maxNum \in Nat
      /\ Active \in SUBSET Worker /\ Cardinality(Active) <= liveNum /\ liveNum <= maxNum
  BY CThreadPoolAssumption DEF TypeInv, TypeOK, LiveNumCovers, Active
<1>2. IsFiniteSet(Active) /\ Cardinality(Active) \in Nat
  BY <1>1, SetsOfWorkers
<1>3. ASSUME Active' \in SUBSET Active, liveNum' = liveNum PROVE LiveNumCovers'
  <2>1. Cardinality(Active') \in Nat /\ Cardinality(Active') <= Cardinality(Active)
    BY <1>1, <1>3, SetsOfWorkers
  <2>2. Cardinality(Active') <= liveNum' /\ liveNum' <= maxNum
    BY <1>1, <1>2, <1>3, <2>1
  <2> QED BY <2>2 DEF LiveNumCovers, Active
<1>4. ASSUME NEW w \in Worker, WorkerStep(w) PROVE LiveNumCovers'
  <2>1. CASE ExitAtShutdown(w)
    <3>1. Active' = Active \ {w} /\ w \in Active
      BY <1>1, <2>1 DEF ExitAtShutdown, Tests, Active
    <3>2. Cardinality(Active') = Cardinality(Active) - 1
      BY <1>2, <3>1, FS_RemoveElement
    <3>3. liveNum' = liveNum - 1
      BY <2>1 DEF ExitAtShutdown
    <3>4. Cardinality(Active') <= liveNum' /\ liveNum' <= maxNum
      BY <1>1, <1>2, <3>2, <3>3
    <3> QED BY <3>4 DEF LiveNumCovers, Active
  <2>2. CASE ~ExitAtShutdown(w)
    <3>1. liveNum' = liveNum
      BY <1>4, <2>2 DEF WorkerStep, WaitForTask, ExitAsTold, threadExit, TakeTask, BusyUp, EndTask
    <3>2. Active' \in SUBSET Active
      BY <1>1, <1>4, <2>2 DEF WorkerStep, WaitForTask, ExitAsTold, threadExit, TakeTask, BusyUp, EndTask, Tests, Active
    <3> QED BY <1>3, <3>1, <3>2
  <2> QED BY <2>1, <2>2
<1>5. ASSUME Grow PROVE LiveNumCovers'
  <2>1. Active' \in SUBSET (Active \cup Started) /\ liveNum' = liveNum + Cardinality(Started)
    BY <1>1, <1>5 DEF Grow, LiveNumGrown, Active
  <2>2. IsFiniteSet(Started) /\ Cardinality(Started) \in Nat /\ Started \in SUBSET Worker
    BY StartedFinite
  <2>3. Cardinality(Active \cup Started) <= Cardinality(Active) + Cardinality(Started)
    <3>1. Cardinality(Active \cup Started) = Cardinality(Active) + Cardinality(Started) - Cardinality(Active \cap Started)
      BY <1>2, <2>2, FS_Union
    <3>2. Cardinality(Active \cap Started) \in Nat
      BY <1>1, SetsOfWorkers
    <3> QED BY <1>2, <2>2, <3>1, <3>2
  <2>4. Cardinality(Active') <= Cardinality(Active \cup Started) /\ Cardinality(Active') \in Nat
        /\ Cardinality(Active \cup Started) \in Nat
    BY <1>1, <2>1, <2>2, SetsOfWorkers
  <2>5. Cardinality(Started) <= maxNum - liveNum
    BY <1>1, StartedFit
  <2>6. Cardinality(Active') <= liveNum' /\ liveNum' <= maxNum
    BY <1>1, <1>2, <2>1, <2>2, <2>3, <2>4, <2>5
  <2> QED BY <2>6 DEF LiveNumCovers, Active
<1>6. ASSUME Wakes, liveNum' = liveNum PROVE LiveNumCovers'
  <2>1. Active' \in SUBSET Active
    BY <1>6 DEF Wakes, Active
  <2> QED BY <1>3, <1>6, <2>1
<1> QED BY <1>4, <1>5, <1>6, OtherWakes DEF Next

(* liveNum covers the workers there are, and stays within maxNum (managerd, *)
(* worker), for any numbers of workers and tasks.                           *)
THEOREM CPoolLiveNumCovers == Spec => []LiveNumCovers
<1>1. Init => LiveNumCovers
  <2> SUFFICES ASSUME Init PROVE LiveNumCovers
    OBVIOUS
  <2>1. minNum \in Nat /\ maxNum \in Nat /\ minNum <= maxNum /\ liveNum = minNum
    BY CThreadPoolAssumption DEF Init
  <2>2. Active = 0 .. minNum - 1
    BY <2>1 DEF Init, Active, Worker
  <2>3. Cardinality(Active) = minNum
    BY <2>1, <2>2, FS_Interval
  <2> QED BY <2>1, <2>3 DEF LiveNumCovers, Active
<1> QED BY <1>1, NextCovers, TypeInvariant, PTL DEF Spec

(***************************************************************************)
(* Work is shared.  Until shutdown an id is free only if no worker ever had *)
(* it, so a worker that was told to exit is not replaced.                  *)
(***************************************************************************)
IdInv == ~shutdown => \A w \in Worker : /\ worker[w] # "leave"
                                        /\ threadIDs[w] = "zero" => worker[w] = "none"

LEMMA NextIdInv == TypeInv /\ IdInv /\ [Next]_vars => IdInv'
<1> SUFFICES ASSUME TypeInv, IdInv, [Next]_vars PROVE IdInv'
  OBVIOUS
<1>1. worker \in [Worker -> WorkerPC] /\ threadIDs \in [Worker -> {"zero", "used", "garbage"}]
  BY DEF TypeInv, TypeOK
<1>2. ASSUME NEW w \in Worker, WorkerStep(w) PROVE IdInv'
  <2>1. UNCHANGED shutdown
    BY <1>2 DEF WorkerStep, WaitForTask, ExitAsTold, ExitAtShutdown, threadExit, TakeTask, BusyUp, EndTask
  <2>2. CASE ~shutdown
    <3>1. UNCHANGED threadIDs /\ worker[w] # "none"
          /\ \E pc \in WorkerPC : pc # "leave" /\ worker' = [worker EXCEPT ![w] = pc]
      BY <1>2, <2>2 DEF WorkerStep, WaitForTask, ExitAsTold, ExitAtShutdown, threadExit, TakeTask, BusyUp,
           EndTask, Tests, IdInv, WorkerPC
    <3> QED BY <1>1, <2>2, <3>1 DEF IdInv
  <2> QED BY <2>1, <2>2 DEF IdInv
<1>3. ASSUME Grow PROVE IdInv'
  BY <1>1, <1>3 DEF Grow, IdInv
<1>4. ASSUME Wakes, UNCHANGED threadIDs, shutdown => shutdown' PROVE IdInv'
  BY <1>1, <1>4 DEF Wakes, IdInv
<1> QED BY <1>2, <1>3, <1>4, OtherWakes DEF Next

LEMMA NextWorkIsShared == TypeInv /\ IdInv /\ WorkIsShared /\ [Next]_vars => WorkIsShared'
<1> SUFFICES ASSUME TypeInv, IdInv, WorkIsShared, [Next]_vars,
                    \E w \in Worker : worker'[w] = "wait",
                    \A w \in Worker : worker'[w] # "exited",
                    ~shutdown'
             PROVE  queueSize' <= Cardinality(Ready')
  BY DEF WorkIsShared, Ready
<1>1. /\ worker \in [Worker -> WorkerPC] /\ queueSize \in Nat /\ Ready \in SUBSET Worker
      /\ Ready' \in SUBSET Worker
  BY CThreadPoolAssumption DEF TypeInv, TypeOK, Ready
<1>2. IsFiniteSet(Ready) /\ Cardinality(Ready) \in Nat /\ Cardinality(Ready') \in Nat
  BY <1>1, SetsOfWorkers
<1>3. ASSUME \A w \in Worker : worker[w] # "exited", ~shutdown, \E w \in Worker : worker[w] = "wait"
      PROVE  queueSize <= Cardinality(Ready)
  BY <1>3 DEF WorkIsShared, Ready
<1>4. ASSUME Wakes, shutdown => shutdown'
      PROVE  /\ queueSize <= Cardinality(Ready) /\ Ready \in SUBSET Ready'
             /\ Cardinality(Ready) <= Cardinality(Ready')
  <2>1. Ready \in SUBSET Ready'
    BY <1>4 DEF Wakes, Ready
  <2>2. \E w \in Worker : worker[w] = "wait"
    BY <1>4 DEF Wakes
  <2>3. \A w \in Worker : worker[w] # "exited"
    BY <1>4 DEF Wakes
  <2>4. queueSize <= Cardinality(Ready)
    BY <1>3, <1>4, <2>2, <2>3
  <2> QED BY <1>1, <2>1, <2>4, SetsOfWorkers
<1>5. ASSUME NEW t \in Task, threadPoolAdd(t) PROVE queueSize' <= Cardinality(Ready')
  <2>1. Wakes /\ (shutdown => shutdown')
    BY <1>5, OtherWakes DEF CallStep
  <2>2. worker' \in Signalled(worker) /\ queueSize' = queueSize + 1
    BY <1>5 DEF threadPoolAdd, SignalNotEmpty
  <2>3. "woken" \in WorkerPC
    BY DEF WorkerPC
  <2>4. \/ worker' = worker /\ \A w \in Worker : worker[w] # "wait"
        \/ \E w \in Worker : worker[w] = "wait" /\ worker' = [worker EXCEPT ![w] = "woken"]
    BY <1>1, <2>2, <2>3, SignalledStep
  <2>5. PICK w \in Worker : worker[w] = "wait" /\ worker' = [worker EXCEPT ![w] = "woken"]
    BY <2>4
  <2>6. Ready' = Ready \cup {w} /\ w \notin Ready
    BY <1>1, <2>5 DEF Ready
  <2>7. Cardinality(Ready') = Cardinality(Ready) + 1
    BY <1>2, <2>6, FS_AddElement
  <2>8. queueSize <= Cardinality(Ready)
    BY <1>4, <2>1
  <2> QED BY <1>1, <1>2, <2>2, <2>7, <2>8
<1>6. ASSUME NEW w \in Worker, WorkerStep(w) PROVE queueSize' <= Cardinality(Ready')
  <2>1. UNCHANGED shutdown /\ ~shutdown
    BY <1>6 DEF WorkerStep, WaitForTask, ExitAsTold, ExitAtShutdown, threadExit, TakeTask, BusyUp, EndTask
  <2>2. CASE WaitForTask(w)
    <3>1. queueSize' = 0
      BY <2>2 DEF WaitForTask, ring
    <3> QED BY <1>2, <3>1
  <2>3. CASE TakeTask(w)
    <3>1. worker' = [worker EXCEPT ![w] = "took"] /\ worker[w] \in {"lock", "woken"} /\ queueSize' = queueSize - 1
      BY <2>3 DEF TakeTask, Tests
    <3>2. Ready' = Ready \ {w} /\ w \in Ready
      BY <1>1, <3>1 DEF Ready
    <3>3. Cardinality(Ready') = Cardinality(Ready) - 1
      BY <1>2, <3>2, FS_RemoveElement
    <3>4. (\A v \in Worker : worker[v] # "exited") /\ (\E v \in Worker : worker[v] = "wait")
      BY <1>1, <3>1
    <3>5. queueSize <= Cardinality(Ready)
      BY <1>3, <2>1, <3>4
    <3> QED BY <1>1, <1>2, <3>1, <3>3, <3>5
  <2>4. CASE BusyUp(w) \/ EndTask(w)
    <3>1. /\ worker' = [worker EXCEPT ![w] = "work"] \/ worker' = [worker EXCEPT ![w] = "lock"]
          /\ worker[w] \in {"took", "work"} /\ queueSize' = queueSize
      BY <2>4 DEF BusyUp, EndTask, ring
    <3>2. Ready \in SUBSET Ready'
      BY <1>1, <3>1 DEF Ready
    <3>3. (\A v \in Worker : worker[v] # "exited") /\ (\E v \in Worker : worker[v] = "wait")
      BY <1>1, <3>1
    <3>4. queueSize <= Cardinality(Ready)
      BY <1>3, <2>1, <3>3
    <3>5. Cardinality(Ready) <= Cardinality(Ready')
      BY <1>1, <3>2, SetsOfWorkers
    <3> QED BY <1>1, <1>2, <3>1, <3>4, <3>5
  <2>5. CASE ExitAsTold(w) \/ threadExit(w)
    BY <1>1, <2>5 DEF ExitAsTold, threadExit
  <2>6. CASE ExitAtShutdown(w)
    BY <2>1, <2>6 DEF ExitAtShutdown
  <2> QED BY <1>6, <2>2, <2>3, <2>4, <2>5, <2>6 DEF WorkerStep
<1>7. ASSUME Grow PROVE queueSize' <= Cardinality(Ready')
  <2>1. UNCHANGED <<queueSize, shutdown>>
    BY <1>7 DEF Grow, ring
  <2>2. \A w \in Started : worker[w] = "none" /\ w \in Worker
    BY <2>1 DEF Started, IdInv
  <2>3. \A w \in Worker : worker'[w] = IF w \in Started THEN "lock" ELSE worker[w]
    BY <1>7 DEF Grow
  <2>4. Ready \in SUBSET Ready'
    BY <2>3 DEF Ready
  <2>5. (\A v \in Worker : worker[v] # "exited") /\ (\E v \in Worker : worker[v] = "wait")
    BY <2>2, <2>3
  <2>6. queueSize <= Cardinality(Ready)
    BY <1>3, <2>1, <2>5
  <2>7. Cardinality(Ready) <= Cardinality(Ready')
    BY <1>1, <2>4, SetsOfWorkers
  <2> QED BY <1>1, <1>2, <2>1, <2>6, <2>7
<1>8. ASSUME Wakes, shutdown => shutdown', queueSize' = queueSize
      PROVE  queueSize' <= Cardinality(Ready')
  BY <1>1, <1>2, <1>4, <1>8
<1> QED BY <1>5, <1>6, <1>7, <1>8, OtherWakes DEF Next

(* No worker sleeps while a task waits that nobody is on its way to         *)
(* (threadPoolAdd's one signal for each task), for any numbers.             *)
THEOREM CPoolWorkIsShared == Spec => []WorkIsShared
<1>1. Init => IdInv /\ WorkIsShared
  <2> SUFFICES ASSUME Init PROVE IdInv /\ WorkIsShared
    OBVIOUS
  <2>1. \A w \in Worker : worker[w] = IF w < minNum THEN "lock" ELSE "none"
    BY DEF Init
  <2>2. \A w \in Worker : w < minNum => threadIDs[w] = "used"
    <3> TAKE w \in Worker
    <3>1. PICK unset \in [Worker -> {"zero", "garbage"}] :
            threadIDs = [v \in Worker |-> IF v < minNum THEN "used" ELSE IF v = 0 THEN "zero" ELSE unset[v]]
      BY DEF Init
    <3> QED BY <3>1
  <2>3. IdInv
    <3> SUFFICES ASSUME NEW w \in Worker
                 PROVE  worker[w] # "leave" /\ (threadIDs[w] = "zero" => worker[w] = "none")
      BY DEF IdInv
    <3> QED BY <2>1, <2>2
  <2>4. \A w \in Worker : worker[w] # "wait"
    BY <2>1
  <2> QED BY <2>3, <2>4 DEF WorkIsShared
<1> QED BY <1>1, NextIdInv, NextWorkIsShared, TypeInvariant, PTL DEF Spec
-----------------------------------------------------------------------------
(***************************************************************************)
(* The end of the pool.  While threadPoolDestory signals, the manager has  *)
(* ended and no worker falls asleep any more; the signals sent and still   *)
(* due make up for the workers that sleep, but for those gone meanwhile.   *)
(***************************************************************************)
Sleeping == {w \in Worker : worker[w] = "wait"}

DestroyInv ==
  /\ destroy # "none" => shutdown
  /\ destroy \notin {"none", "join"} => manager = "ended"
  /\ destroy = "signal" => Cardinality(Sleeping) + signals <= liveNum + Cardinality(Gone)
  /\ destroy = "undefined" => Cardinality(Sleeping) <= Cardinality(Gone)

LEMMA AsleepIsSleeping == TypeInv => Asleep(worker) = Sleeping
  BY DEF TypeInv, TypeOK, Asleep, Sleeping

(* Before threadPoolDestory signals, the counts do not matter. *)
LEMMA DestroyInvEarly ==
  ASSUME DestroyInv, destroy \in {"none", "join"}, destroy' = destroy, shutdown => shutdown'
  PROVE  DestroyInv'
BY DEF DestroyInv

(* Where no worker falls asleep or comes back, the counts only get easier. *)
LEMMA DestroyInvKept ==
  ASSUME TypeInv, DestroyInv,
         UNCHANGED <<destroy, shutdown, manager, signals, liveNum>>,
         Sleeping' \in SUBSET Sleeping, Gone' \in SUBSET Worker, Gone \in SUBSET Gone'
  PROVE  DestroyInv'
<1>1. /\ Cardinality(Sleeping) \in Nat /\ Cardinality(Sleeping') \in Nat
      /\ Cardinality(Sleeping') <= Cardinality(Sleeping)
  BY SetsOfWorkers DEF Sleeping
<1>2. /\ Cardinality(Gone) \in Nat /\ Cardinality(Gone') \in Nat
      /\ Cardinality(Gone) <= Cardinality(Gone')
  BY SetsOfWorkers
<1>3. signals \in Nat /\ liveNum \in Int
  BY DEF TypeInv, TypeOK
<1> QED BY <1>1, <1>2, <1>3 DEF DestroyInv

(* A worker sleeps no more once the pool is shut down; one that exits then  *)
(* is one more gone, for one less in liveNum at most.                       *)
LEMMA WorkerDestroyInv ==
  ASSUME TypeInv, DestroyInv, NEW w \in Worker, WorkerStep(w)
  PROVE  DestroyInv'
<1>1. /\ worker \in [Worker -> WorkerPC] /\ signals \in Nat /\ liveNum \in Int
      /\ Gone \in SUBSET Worker /\ Sleeping \in SUBSET Worker
  BY DEF TypeInv, TypeOK, Gone, Sleeping
<1>2. IsFiniteSet(Gone) /\ Cardinality(Gone) \in Nat /\ Cardinality(Sleeping) \in Nat
  BY <1>1, SetsOfWorkers
<1>3. CASE WaitForTask(w) \/ TakeTask(w)
  <2>1. destroy = "none" /\ destroy' = destroy /\ shutdown' = shutdown
    BY <1>3 DEF WaitForTask, TakeTask, DestroyInv, boss
  <2> QED BY <2>1, DestroyInvEarly
<1>4. CASE ExitAsTold(w) \/ threadExit(w) \/ BusyUp(w) \/ EndTask(w)
  <2>1. UNCHANGED <<destroy, shutdown, manager, signals, liveNum>>
    BY <1>4 DEF ExitAsTold, threadExit, BusyUp, EndTask, boss
  <2>2. Sleeping' \in SUBSET Sleeping
    BY <1>1, <1>4 DEF ExitAsTold, threadExit, BusyUp, EndTask, Sleeping
  <2>3. Gone' \in SUBSET Worker /\ Gone \in SUBSET Gone'
    BY <1>1, <1>4 DEF ExitAsTold, threadExit, BusyUp, EndTask, Gone
  <2> QED BY <2>1, <2>2, <2>3, DestroyInvKept
<1>5. CASE ExitAtShutdown(w)
  <2>1. /\ UNCHANGED <<destroy, shutdown, manager, signals>> /\ liveNum' = liveNum - 1
        /\ worker[w] \in {"lock", "woken"} /\ worker' = [worker EXCEPT ![w] = "leave"]
        /\ destroy # "undefined"
    BY <1>5 DEF ExitAtShutdown, Tests, PoolUsable, boss
  <2>2. Sleeping' = Sleeping
    BY <1>1, <2>1 DEF Sleeping
  <2>3. Gone' = Gone \cup {w} /\ w \notin Gone
    BY <1>1, <2>1 DEF Gone
  <2>4. Cardinality(Gone') = Cardinality(Gone) + 1
    BY <1>2, <2>3, FS_AddElement
  <2>5. Cardinality(Sleeping') = Cardinality(Sleeping)
    BY <2>2
  <2> QED BY <1>1, <1>2, <2>1, <2>4, <2>5 DEF DestroyInv
<1> QED BY <1>3, <1>4, <1>5 DEF WorkerStep

(* threadPoolDestory itself: when it starts to signal, liveNum covers the   *)
(* workers, and every signal wakes one that sleeps, if there is one.        *)
LEMMA DestroyDestroyInv ==
  ASSUME TypeInv, LiveNumCovers, DestroyInv, DestroyStep
  PROVE  DestroyInv'
<1>1. /\ worker \in [Worker -> WorkerPC] /\ "woken" \in WorkerPC
      /\ signals \in Nat /\ liveNum \in Int
      /\ Gone \in SUBSET Worker /\ Sleeping \in SUBSET Worker
  BY DEF TypeInv, TypeOK, WorkerPC, Gone, Sleeping
<1>2. /\ IsFiniteSet(Sleeping) /\ Cardinality(Sleeping) \in Nat
      /\ Cardinality(Gone) \in Nat
  BY <1>1, SetsOfWorkers
<1>3. CASE JoinManager
  <2>1. /\ destroy = "join" /\ destroy' = "signal" /\ manager = "ended" /\ signals' = 0
        /\ UNCHANGED <<shutdown, manager, liveNum, worker>>
    BY <1>3 DEF JoinManager, DestroyTo, Joinable, workers
  <2>2. Sleeping \in SUBSET Active /\ Active \in SUBSET Worker
    BY DEF Sleeping, Active
  <2>3. Cardinality(Sleeping) <= Cardinality(Active) /\ Cardinality(Active) \in Nat
    BY <2>2, SetsOfWorkers
  <2>4. Cardinality(Active) <= liveNum
    BY DEF LiveNumCovers, Active
  <2>5. Sleeping' = Sleeping /\ Gone' = Gone
    BY <2>1 DEF Sleeping, Gone
  <2>6. Cardinality(Sleeping') + signals' <= liveNum' + Cardinality(Gone')
    BY <1>1, <1>2, <2>1, <2>3, <2>4, <2>5
  <2> QED BY <2>1, <2>6 DEF DestroyInv
<1>4. CASE SignalAll
  <2>1. /\ destroy = "signal" /\ destroy' = "signal" /\ signals < liveNum
        /\ signals' = signals + 1 /\ worker' \in Signalled(worker)
        /\ UNCHANGED <<shutdown, manager, liveNum>>
    BY <1>1, <1>4 DEF SignalAll, DestroyTo, AllSignalled
  <2>2. \/ worker' = worker /\ \A w \in Worker : worker[w] # "wait"
        \/ \E w \in Worker : worker[w] = "wait" /\ worker' = [worker EXCEPT ![w] = "woken"]
    BY <1>1, <2>1, SignalledStep
  <2>3. Gone' = Gone
    BY <1>1, <2>2 DEF Gone
  <2>4. Cardinality(Sleeping') + signals' <= liveNum' + Cardinality(Gone')
    <3>1. CASE worker' = worker /\ \A w \in Worker : worker[w] # "wait"
      <4>1. Sleeping' = {}
        BY <3>1 DEF Sleeping
      <4>2. Cardinality(Sleeping') = 0
        BY <4>1, FS_EmptySet
      <4> QED BY <1>1, <1>2, <2>1, <2>3, <4>2
    <3>2. CASE \E w \in Worker : worker[w] = "wait" /\ worker' = [worker EXCEPT ![w] = "woken"]
      <4>1. PICK w \in Worker : worker[w] = "wait" /\ worker' = [worker EXCEPT ![w] = "woken"]
        BY <3>2
      <4>2. Sleeping' = Sleeping \ {w} /\ w \in Sleeping
        BY <1>1, <4>1 DEF Sleeping
      <4>3. Cardinality(Sleeping') = Cardinality(Sleeping) - 1
        BY <1>2, <4>2, FS_RemoveElement
      <4>4. Cardinality(Sleeping) + signals <= liveNum + Cardinality(Gone)
        BY <2>1 DEF DestroyInv
      <4> QED BY <1>1, <1>2, <2>1, <2>3, <4>3, <4>4
    <3> QED BY <2>2, <3>1, <3>2
  <2> QED BY <2>1, <2>4 DEF DestroyInv
<1>5. CASE Free
  <2>1. /\ destroy = "signal" /\ destroy' \in {"freed", "undefined"} /\ signals >= liveNum
        /\ UNCHANGED <<shutdown, manager, worker>>
    BY <1>5 DEF Free, DestroyTo, AllSignalled, workers
  <2>2. Sleeping' = Sleeping /\ Gone' = Gone
    BY <2>1 DEF Sleeping, Gone
  <2>3. Cardinality(Sleeping) + signals <= liveNum + Cardinality(Gone)
    BY <2>1 DEF DestroyInv
  <2>4. Cardinality(Sleeping') <= Cardinality(Gone')
    BY <1>1, <1>2, <2>1, <2>2, <2>3
  <2> QED BY <2>1, <2>4 DEF DestroyInv
<1> QED BY <1>3, <1>4, <1>5 DEF DestroyStep

LEMMA NextDestroyInv == TypeInv /\ LiveNumCovers /\ DestroyInv /\ [Next]_vars => DestroyInv'
<1> SUFFICES ASSUME TypeInv, LiveNumCovers, DestroyInv, [Next]_vars PROVE DestroyInv'
  OBVIOUS
<1>1. worker \in [Worker -> WorkerPC] /\ Gone \in SUBSET Worker
  BY DEF TypeInv, TypeOK, Gone
<1>2. ASSUME NEW t \in Task, CallStep(t) PROVE DestroyInv'
  <2>1. CASE threadPoolAdd(t)
    <3>1. destroy = "none" /\ destroy' = destroy /\ shutdown' = shutdown
      BY <2>1 DEF threadPoolAdd, DestroyInv, boss
    <3> QED BY <3>1, DestroyInvEarly
  <2>2. CASE WaitForPlace(t) \/ Refuse(t)
    <3>1. UNCHANGED <<destroy, shutdown, manager, signals, liveNum, worker>>
      BY <2>2 DEF WaitForPlace, Refuse, workers, boss
    <3>2. Sleeping' = Sleeping /\ Gone' = Gone
      BY <3>1 DEF Sleeping, Gone
    <3> QED BY <1>1, <3>1, <3>2, DestroyInvKept
  <2> QED BY <1>2, <2>1, <2>2 DEF CallStep
<1>3. ASSUME ManagerStep PROVE DestroyInv'
  <2>1. manager # "ended" /\ destroy' = destroy /\ shutdown' = shutdown
    BY <1>3 DEF ManagerStep, ManagerCheck, ReadSizes, ReadBusy, Grow, Shrink, SignalExit, ManagerTo
  <2>2. destroy \in {"none", "join"}
    BY <2>1 DEF DestroyInv
  <2> QED BY <2>1, <2>2, DestroyInvEarly
<1>4. ASSUME Shutdown PROVE DestroyInv'
  BY <1>4 DEF Shutdown, DestroyTo, DestroyInv
<1>5. ASSUME SpuriousWakeup PROVE DestroyInv'
  <2>1. UNCHANGED <<destroy, shutdown, manager, signals, liveNum>>
    BY <1>5 DEF SpuriousWakeup, boss
  <2>2. Sleeping' \in SUBSET Sleeping /\ Gone' = Gone
    BY <1>1, <1>5 DEF SpuriousWakeup, Sleeping, Gone
  <2> QED BY <1>1, <2>1, <2>2, DestroyInvKept
<1>6. ASSUME UNCHANGED vars PROVE DestroyInv'
  <2>1. UNCHANGED <<destroy, shutdown, manager, signals, liveNum, worker>>
    BY <1>6 DEF vars, workers, boss
  <2>2. Sleeping' = Sleeping /\ Gone' = Gone
    BY <2>1 DEF Sleeping, Gone
  <2> QED BY <1>1, <2>1, <2>2, DestroyInvKept
<1> QED BY <1>2, <1>3, <1>4, <1>5, <1>6, WorkerDestroyInv, DestroyDestroyInv DEF Next

(* threadPoolDestory leaves at most as many workers asleep as have gone, so *)
(* none while all stay, for any numbers of workers, tasks and signals.      *)
THEOREM CPoolAsleepForGone == Spec => []AsleepForGone
<1>1. Init => DestroyInv
  BY DEF Init, DestroyInv
<1>2. TypeInv /\ DestroyInv => AsleepForGone
  BY AsleepIsSleeping DEF DestroyInv, AsleepForGone
<1> QED BY <1>1, <1>2, NextDestroyInv, CPoolLiveNumCovers, TypeInvariant, PTL DEF Spec
=============================================================================
