---------------------------- MODULE DispatchProofs ----------------------------
(***************************************************************************)
(* Proofs about Dispatch, for any number of descriptors and any limits of  *)
(* the three dispatchers.  First what each operation of each dispatcher    *)
(* does to what is watched and to what is due; then, from that alone, one  *)
(* invariant of the loop; from it the safety properties and the            *)
(* refinement of WatchSet.                                                 *)
(***************************************************************************)
EXTENDS Dispatch, PollDispatcherProofs, FiniteSetTheorems

LEMMA Places ==
  ASSUME NEW p \in Nat
  PROVE  /\ p \div 2 \in Nat /\ EventAt(p) \in Event
         /\ p = IF EventAt(p) = "in" THEN 2 * (p \div 2) ELSE 2 * (p \div 2) + 1
BY DEF EventAt, Event
-----------------------------------------------------------------------------
(***************************************************************************)
(* The poll table.                                                         *)
(***************************************************************************)
pollWatched(d, f) == UNION {d.events[i] : i \in SlotsOf(d, f)}
pollTargets(d, a) == {pollTarget(d, p) : p \in pollDue(d, a)}

PollOK(d) == /\ d \in PollData /\ TableOK(d)
             /\ \A i \in Slot : d.fd[i] # NoFd => "in" \in d.events[i]

LEMMA PollPlace ==
  ASSUME NEW p \in Nat, p <= 2 * MAX - 1
  PROVE  p \div 2 \in Slot
BY PollAssumption DEF Slot

LEMMA PollDueIs ==
  ASSUME NEW d \in PollData, NEW a \in Nat, NEW p
  PROVE  p \in pollDue(d, a) <=>
           /\ p \in Nat /\ a <= p /\ p <= 2 * MAX - 1
           /\ p \div 2 \in Slot /\ p \div 2 <= d.maxfd /\ d.fd[p \div 2] # NoFd
           /\ EventAt(p) \in d.revents[p \div 2]
<1>1. p \in a .. 2 * MAX - 1 <=> p \in Nat /\ a <= p /\ p <= 2 * MAX - 1
  BY PollAssumption
<1> QED BY <1>1, PollPlace DEF pollDue

(* A descriptor has one entry, which says what it is watched for.           *)
LEMMA PollEntry ==
  ASSUME NEW d, PollOK(d), NEW f \in Fd
  PROVE  /\ \A i \in Slot : d.fd[i] = f => pollWatched(d, f) = d.events[i]
         /\ pollWatched(d, f) = {} <=> SlotsOf(d, f) = {}
<1>1. f # NoFd
  BY PollAssumption
<1>2. ASSUME NEW i \in Slot, d.fd[i] = f
      PROVE  pollWatched(d, f) = d.events[i] /\ "in" \in d.events[i] /\ i \in SlotsOf(d, f)
  <2>1. SlotsOf(d, f) = {i}
    BY <1>1, <1>2 DEF SlotsOf, PollOK, TableOK
  <2> QED BY <1>1, <1>2, <2>1 DEF pollWatched, PollOK
<1>3. SlotsOf(d, f) = {} => pollWatched(d, f) = {}
  BY DEF pollWatched
<1> QED BY <1>2, <1>3 DEF SlotsOf

LEMMA PollSameEntry ==
  ASSUME NEW d, PollOK(d), NEW e, PollOK(e), NEW g \in Fd,
         \A i \in Slot : /\ e.fd[i] = g <=> d.fd[i] = g
                         /\ d.fd[i] = g => e.events[i] = d.events[i]
  PROVE  pollWatched(e, g) = pollWatched(d, g)
<1>1. CASE \E i \in Slot : d.fd[i] = g
  <2>1. PICK i \in Slot : d.fd[i] = g
    BY <1>1
  <2>2. pollWatched(d, g) = d.events[i]
    BY <2>1, PollEntry
  <2>3. pollWatched(e, g) = e.events[i]
    BY <2>1, PollEntry
  <2> QED BY <2>1, <2>2, <2>3
<1>2. CASE ~\E i \in Slot : d.fd[i] = g
  <2>1. SlotsOf(d, g) = {} /\ SlotsOf(e, g) = {}
    BY <1>2 DEF SlotsOf
  <2> QED BY <2>1 DEF pollWatched
<1> QED BY <1>1, <1>2

(* What is due of a table depends on the entries in use that were reported. *)
LEMMA PollSameTargets ==
  ASSUME NEW d \in PollData, NEW e \in PollData, NEW a \in Nat,
         \A i \in Slot, x \in Event :
           /\ i <= d.maxfd /\ d.fd[i] # NoFd /\ x \in d.revents[i]
                <=> i <= e.maxfd /\ e.fd[i] # NoFd /\ x \in e.revents[i]
           /\ i <= d.maxfd /\ d.fd[i] # NoFd /\ x \in d.revents[i] => e.fd[i] = d.fd[i]
  PROVE  pollTargets(e, a) = pollTargets(d, a)
<1>1. \A p \in Nat : EventAt(p) \in Event
  BY Places
<1>2. pollDue(e, a) = pollDue(d, a) /\ \A p \in pollDue(d, a) : e.fd[p \div 2] = d.fd[p \div 2]
  BY <1>1, PollDueIs
<1> QED BY <1>2 DEF pollTargets, pollTarget

(* The entry pollAdd fills, pollRemove clears and pollModify changes.       *)
LEMMA FilledEntry ==
  ASSUME NEW d \in PollData, NEW f, NEW ev, SlotsOf(d, NoFd) # {}
  PROVE  \E k \in Slot :
           /\ d.fd[k] = NoFd
           /\ pollAdd(d, f, ev) = [maxfd   |-> IF k > d.maxfd THEN k ELSE d.maxfd,
                                   fd      |-> [d.fd EXCEPT ![k] = f],
                                   events  |-> [d.events EXCEPT ![k] = ev],
                                   revents |-> d.revents]
<1> DEFINE k == Min(SlotsOf(d, NoFd))
<1>1. k \in Slot /\ d.fd[k] = NoFd
  BY FirstSlot
<1> HIDE DEF k
<1>2. pollAdd(d, f, ev) = [d EXCEPT !.fd[k] = f, !.events[k] = ev, !.maxfd = IF k > @ THEN k ELSE @]
  BY Zenon DEF pollAdd, k
<1>3. d = [maxfd |-> d.maxfd, fd |-> d.fd, events |-> d.events, revents |-> d.revents]
  BY DEF PollData
<1> QED BY <1>1, <1>2, <1>3

LEMMA ClearedEntry ==
  ASSUME NEW d \in PollData, NEW f, SlotsOf(d, f) # {}
  PROVE  \E k \in Slot :
           /\ d.fd[k] = f
           /\ pollRemove(d, f) = [maxfd   |-> d.maxfd,
                                  fd      |-> [d.fd EXCEPT ![k] = NoFd],
                                  events  |-> [d.events EXCEPT ![k] = {}],
                                  revents |-> [d.revents EXCEPT ![k] = {}]]
<1> DEFINE k == Min(SlotsOf(d, f))
<1>1. k \in Slot /\ d.fd[k] = f
  BY FirstSlot
<1> HIDE DEF k
<1>2. pollRemove(d, f) = [d EXCEPT !.fd[k] = NoFd, !.events[k] = {}, !.revents[k] = {}]
  BY Zenon DEF pollRemove, k
<1>3. d = [maxfd |-> d.maxfd, fd |-> d.fd, events |-> d.events, revents |-> d.revents]
  BY DEF PollData
<1> QED BY <1>1, <1>2, <1>3

LEMMA ChangedEntry ==
  ASSUME NEW d \in PollData, NEW f, NEW ev, SlotsOf(d, f) # {}
  PROVE  \E k \in Slot :
           /\ d.fd[k] = f
           /\ pollModify(d, f, ev) = [maxfd   |-> d.maxfd,
                                      fd      |-> d.fd,
                                      events  |-> [d.events EXCEPT ![k] = ev],
                                      revents |-> d.revents]
<1> DEFINE k == Min(SlotsOf(d, f))
<1>1. k \in Slot /\ d.fd[k] = f
  BY FirstSlot
<1> HIDE DEF k
<1>2. pollModify(d, f, ev) = [d EXCEPT !.events[k] = ev]
  BY Zenon DEF pollModify, k
<1>3. d = [maxfd |-> d.maxfd, fd |-> d.fd, events |-> d.events, revents |-> d.revents]
  BY DEF PollData
<1> QED BY <1>1, <1>2, <1>3

(* pollAdd watches the descriptor if there is an unused entry, and makes    *)
(* nothing due (PollDispatcher.c:50-82).                                    *)
LEMMA PollAdds ==
  ASSUME NEW d, PollOK(d), NEW f \in Fd, NEW ev \in SUBSET Event, "in" \in ev,
         pollWatched(d, f) = {}
  PROVE  /\ PollOK(pollAdd(d, f, ev))
         /\ pollWatched(pollAdd(d, f, ev), f) = IF SlotsOf(d, NoFd) = {} THEN {} ELSE ev
         /\ \A g \in Fd \ {f} : pollWatched(pollAdd(d, f, ev), g) = pollWatched(d, g)
         /\ \A a \in Nat : pollTargets(pollAdd(d, f, ev), a) = pollTargets(d, a)
<1> DEFINE e == pollAdd(d, f, ev)
<1>1. d \in PollData /\ TableOK(d) /\ SlotsOf(d, f) = {} /\ f # NoFd /\ Slot \subseteq Int
  BY PollEntry, PollAssumption DEF PollOK, Slot
<1>2. CASE SlotsOf(d, NoFd) = {}
  BY <1>2 DEF pollAdd
<1>3. CASE SlotsOf(d, NoFd) # {}
  <2>1. PICK k \in Slot :
           /\ d.fd[k] = NoFd
           /\ e = [maxfd   |-> IF k > d.maxfd THEN k ELSE d.maxfd,
                   fd      |-> [d.fd EXCEPT ![k] = f],
                   events  |-> [d.events EXCEPT ![k] = ev],
                   revents |-> d.revents]
    BY <1>1, <1>3, FilledEntry
  <2>2. e \in PollData /\ TableOK(e)
    BY <1>1, PollAdd, TableAdd
  <2> HIDE DEF e
  <2>3. /\ \A i \in Slot : /\ e.fd[i] = IF i = k THEN f ELSE d.fd[i]
                           /\ e.events[i] = IF i = k THEN ev ELSE d.events[i]
                           /\ e.revents[i] = d.revents[i]
        /\ e.maxfd = IF k > d.maxfd THEN k ELSE d.maxfd
    BY <1>1, <2>1 DEF PollData
  <2>4. PollOK(e)
    BY <2>2, <2>3 DEF PollOK
  <2>5. pollWatched(e, f) = ev
    BY <2>3, <2>4, PollEntry
  <2>6. ASSUME NEW g \in Fd \ {f} PROVE pollWatched(e, g) = pollWatched(d, g)
    <3>1. \A i \in Slot : /\ e.fd[i] = g <=> d.fd[i] = g
                          /\ d.fd[i] = g => e.events[i] = d.events[i]
      BY <2>1, <2>3, PollAssumption
    <3> QED BY <2>4, <3>1, PollSameEntry
  <2>7. \A a \in Nat : pollTargets(e, a) = pollTargets(d, a)
    <3>1. \A i \in Slot : /\ d.fd[i] = NoFd => d.revents[i] = {}
                          /\ d.fd[i] # NoFd => i <= d.maxfd
      BY <1>1 DEF TableOK
    <3>2. d.maxfd \in Int
      BY <1>1 DEF PollData
    <3>3. \A i \in Slot, x \in Event :
           /\ i <= d.maxfd /\ d.fd[i] # NoFd /\ x \in d.revents[i]
                <=> i <= e.maxfd /\ e.fd[i] # NoFd /\ x \in e.revents[i]
           /\ i <= d.maxfd /\ d.fd[i] # NoFd /\ x \in d.revents[i] => e.fd[i] = d.fd[i]
      BY <1>1, <2>1, <2>3, <3>1, <3>2
    <3> QED BY <1>1, <2>2, <3>3, PollSameTargets
  <2> QED BY <1>3, <2>4, <2>5, <2>6, <2>7 DEF e
<1> QED BY <1>2, <1>3

(* pollRemove ends what is watched of the descriptor, and takes nothing     *)
(* else that is due with it (PollDispatcher.c:84-104).                      *)
LEMMA PollRemoves ==
  ASSUME NEW d, PollOK(d), NEW f \in Fd
  PROVE  /\ PollOK(pollRemove(d, f))
         /\ pollWatched(pollRemove(d, f), f) = {}
         /\ \A g \in Fd \ {f} : pollWatched(pollRemove(d, f), g) = pollWatched(d, g)
         /\ \A a \in Nat : (\A t \in pollTargets(d, a) : t[1] # f)
                             => pollTargets(pollRemove(d, f), a) = pollTargets(d, a)
<1> DEFINE e == pollRemove(d, f)
<1>1. d \in PollData /\ TableOK(d) /\ f # NoFd
  BY PollAssumption DEF PollOK
<1>2. CASE SlotsOf(d, f) = {}
  BY <1>2, PollEntry DEF pollRemove
<1>3. CASE SlotsOf(d, f) # {}
  <2>1. PICK k \in Slot :
           /\ d.fd[k] = f
           /\ e = [maxfd   |-> d.maxfd,
                   fd      |-> [d.fd EXCEPT ![k] = NoFd],
                   events  |-> [d.events EXCEPT ![k] = {}],
                   revents |-> [d.revents EXCEPT ![k] = {}]]
    BY <1>1, <1>3, ClearedEntry
  <2>2. TableOK(e)
    BY <1>1, TableRemove
  <2> HIDE DEF e
  <2>3. e \in PollData
    BY <1>1, <2>1 DEF PollData
  <2>4. /\ \A i \in Slot : /\ e.fd[i] = IF i = k THEN NoFd ELSE d.fd[i]
                           /\ e.events[i] = IF i = k THEN {} ELSE d.events[i]
                           /\ e.revents[i] = IF i = k THEN {} ELSE d.revents[i]
        /\ e.maxfd = d.maxfd
    BY <1>1, <2>1 DEF PollData
  <2>5. PollOK(e)
    BY <2>2, <2>3, <2>4 DEF PollOK
  <2>6. pollWatched(e, f) = {}
    <3>1. \A i \in Slot : d.fd[i] = f => i = k
      BY <1>1, <2>1 DEF TableOK
    <3>2. SlotsOf(e, f) = {}
      BY <1>1, <2>4, <3>1 DEF SlotsOf
    <3> QED BY <2>5, <3>2, PollEntry
  <2>7. ASSUME NEW g \in Fd \ {f} PROVE pollWatched(e, g) = pollWatched(d, g)
    <3>1. \A i \in Slot : /\ e.fd[i] = g <=> d.fd[i] = g
                          /\ d.fd[i] = g => e.events[i] = d.events[i]
      BY <2>1, <2>4, PollAssumption
    <3> QED BY <2>5, <3>1, PollSameEntry
  <2>8. ASSUME NEW a \in Nat, \A t \in pollTargets(d, a) : t[1] # f
        PROVE  pollTargets(e, a) = pollTargets(d, a)
    <3>1. pollDue(e, a) \subseteq pollDue(d, a)
      BY <1>1, <2>3, <2>4, PollDueIs
    <3>2. \A p \in pollDue(d, a) : d.fd[p \div 2] # f
      <4>1. \A p \in pollDue(d, a) : pollTarget(d, p) \in pollTargets(d, a)
        BY DEF pollTargets
      <4>2. \A p : pollTarget(d, p)[1] = d.fd[p \div 2]
        BY DEF pollTarget
      <4> QED BY <2>8, <4>1, <4>2
    <3>3. ASSUME NEW p \in pollDue(d, a) PROVE p \in pollDue(e, a) /\ e.fd[p \div 2] = d.fd[p \div 2]
      <4>1. /\ p \in Nat /\ a <= p /\ p <= 2 * MAX - 1
            /\ p \div 2 \in Slot /\ p \div 2 <= d.maxfd /\ d.fd[p \div 2] # NoFd
            /\ EventAt(p) \in d.revents[p \div 2]
        BY <1>1, PollDueIs
      <4>2. p \div 2 # k
        BY <2>1, <3>2
      <4> QED BY <2>3, <2>4, <4>1, <4>2, PollDueIs
    <3> QED BY <3>1, <3>3 DEF pollTargets, pollTarget
  <2> QED BY <2>5, <2>6, <2>7, <2>8 DEF e
<1> QED BY <1>2, <1>3

(* pollModify changes only what is asked for (PollDispatcher.c:106-127).    *)
LEMMA PollModifies ==
  ASSUME NEW d, PollOK(d), NEW f \in Fd, NEW ev \in SUBSET Event, "in" \in ev,
         pollWatched(d, f) # {}
  PROVE  /\ PollOK(pollModify(d, f, ev))
         /\ pollWatched(pollModify(d, f, ev), f) = ev
         /\ \A g \in Fd \ {f} : pollWatched(pollModify(d, f, ev), g) = pollWatched(d, g)
         /\ \A a \in Nat : pollTargets(pollModify(d, f, ev), a) = pollTargets(d, a)
<1> DEFINE e == pollModify(d, f, ev)
<1>1. d \in PollData /\ TableOK(d) /\ SlotsOf(d, f) # {}
  BY PollEntry DEF PollOK
<1>2. PICK k \in Slot :
         /\ d.fd[k] = f
         /\ e = [maxfd   |-> d.maxfd,
                 fd      |-> d.fd,
                 events  |-> [d.events EXCEPT ![k] = ev],
                 revents |-> d.revents]
  BY <1>1, ChangedEntry
<1> HIDE DEF e
<1>3. e \in PollData
  BY <1>1, <1>2 DEF PollData
<1>4. /\ e.fd = d.fd /\ e.revents = d.revents /\ e.maxfd = d.maxfd
      /\ \A i \in Slot : e.events[i] = IF i = k THEN ev ELSE d.events[i]
  BY <1>1, <1>2 DEF PollData
<1>5. PollOK(e)
  BY <1>3, <1>4 DEF PollOK, TableOK
<1>6. pollWatched(e, f) = ev
  <2>1. pollWatched(e, f) = e.events[k]
    BY <1>2, <1>4, <1>5, PollEntry
  <2> QED BY <1>4, <2>1
<1>7. ASSUME NEW g \in Fd \ {f} PROVE pollWatched(e, g) = pollWatched(d, g)
  <2>1. \A i \in Slot : /\ e.fd[i] = g <=> d.fd[i] = g
                        /\ d.fd[i] = g => e.events[i] = d.events[i]
    BY <1>2, <1>4
  <2> QED BY <1>5, <2>1, PollSameEntry
<1>8. \A a \in Nat : pollTargets(e, a) = pollTargets(d, a)
  BY <1>1, <1>3, <1>4, PollSameTargets
<1> QED BY <1>5, <1>6, <1>7, <1>8 DEF e

(* poll(2) reports nothing but what is watched and holds.                   *)
LEMMA PollWaits ==
  ASSUME NEW d, PollOK(d), NEW holds \in [Fd -> SUBSET Event],
         NEW e, e = [d EXCEPT !.revents = [i \in Slot |->
                       IF i > d.maxfd THEN d.revents[i]
                       ELSE IF d.fd[i] = NoFd THEN {}
                       ELSE {x \in d.events[i] : x \in holds[d.fd[i]]}]]
  PROVE  /\ PollOK(e) /\ \A f \in Fd : pollWatched(e, f) = pollWatched(d, f)
         /\ pollTargets(e, 0) \subseteq
              {t \in Fd \X Event : t[2] \in pollWatched(d, t[1]) \cap holds[t[1]]}
<1> DEFINE rev == [i \in Slot |->
                     IF i > d.maxfd THEN d.revents[i]
                     ELSE IF d.fd[i] = NoFd THEN {}
                     ELSE {x \in d.events[i] : x \in holds[d.fd[i]]}]
<1>1. d \in PollData /\ TableOK(d)
  BY DEF PollOK
<1>2. e = [d EXCEPT !.revents = rev]
  OBVIOUS
<1>3. rev \in [Slot -> SUBSET Event]
  BY <1>1 DEF PollData
<1>4. \A i \in Slot : d.fd[i] = NoFd => rev[i] = {}
  BY <1>1 DEF TableOK
<1>5. \A i \in Slot : i <= d.maxfd /\ d.fd[i] # NoFd => rev[i] \subseteq d.events[i] \cap holds[d.fd[i]]
  <2> SUFFICES ASSUME NEW i \in Slot, i <= d.maxfd, d.fd[i] # NoFd
               PROVE  rev[i] \subseteq d.events[i] \cap holds[d.fd[i]]
    OBVIOUS
  <2>1. d.maxfd \in Slot
    BY <1>1 DEF PollData
  <2>2. Slot \subseteq Int
    BY PollAssumption DEF Slot
  <2>3. i > d.maxfd <=> FALSE
    BY <2>1, <2>2
  <2>4. rev[i] = {x \in d.events[i] : x \in holds[d.fd[i]]}
    BY <2>3
  <2> QED BY <2>4
<1> HIDE DEF rev
<1>6. e.fd = d.fd /\ e.events = d.events /\ e.maxfd = d.maxfd /\ e.revents = rev /\ e \in PollData
  BY <1>1, <1>2, <1>3 DEF PollData
<1>7. PollOK(e)
  BY <1>1, <1>4, <1>6 DEF PollOK, TableOK
<1>8. \A f \in Fd : pollWatched(e, f) = pollWatched(d, f)
  BY <1>6 DEF pollWatched, SlotsOf
<1>9. ASSUME NEW p \in pollDue(e, 0)
      PROVE  /\ pollTarget(e, p) \in Fd \X Event
             /\ pollTarget(e, p)[2] \in pollWatched(d, pollTarget(e, p)[1])
                                          \cap holds[pollTarget(e, p)[1]]
  <2>1. /\ p \in Nat /\ p \div 2 \in Slot /\ p \div 2 <= d.maxfd /\ d.fd[p \div 2] # NoFd
        /\ EventAt(p) \in rev[p \div 2]
    BY <1>6, PollDueIs
  <2>2. PICK f \in Fd : f = d.fd[p \div 2]
    BY <1>1, <2>1 DEF PollData
  <2>3. pollTarget(e, p) = <<f, EventAt(p)>> /\ EventAt(p) \in Event
    BY <1>6, <2>1, <2>2, Places DEF pollTarget
  <2>4. EventAt(p) \in pollWatched(d, f) \cap holds[f]
    BY <1>5, <2>1, <2>2, PollEntry
  <2> DEFINE t == <<f, EventAt(p)>>
  <2>5. t \in Fd \X Event /\ t[1] = f /\ t[2] = EventAt(p)
    BY <2>2, <2>3
  <2> QED BY <2>3, <2>4, <2>5
<1>10. pollTargets(e, 0) \subseteq
              {t \in Fd \X Event : t[2] \in pollWatched(d, t[1]) \cap holds[t[1]]}
  BY <1>9 DEF pollTargets
<1> QED BY <1>7, <1>8, <1>10
-----------------------------------------------------------------------------
(***************************************************************************)
(* The interest list of epoll and the array epoll_wait fills.              *)
(***************************************************************************)
epollTargets(d, a) == {epollTarget(d, p) : p \in epollDue(d, a)}

EpollOK(d) ==
  /\ d \in EpollData
  /\ \A i, j \in 1 .. Len(d.events) : d.events[i].fd = d.events[j].fd => i = j

LEMMA EpollDueIs ==
  ASSUME NEW d, EpollOK(d), NEW a \in Nat, NEW p
  PROVE  p \in epollDue(d, a) <=>
           /\ p \in Nat /\ a <= p /\ p <= 2 * Len(d.events) - 1
           /\ p \div 2 + 1 \in 1 .. Len(d.events)
           /\ "err" \notin d.events[p \div 2 + 1].events
           /\ EventAt(p) \in d.events[p \div 2 + 1].events
<1>1. d.events \in Seq(Reported) /\ Len(d.events) \in Nat
  BY DEF EpollOK, EpollData
<1>2. p \in a .. 2 * Len(d.events) - 1 <=> p \in Nat /\ a <= p /\ p <= 2 * Len(d.events) - 1
  BY <1>1
<1>3. p \in a .. 2 * Len(d.events) - 1 => p \div 2 + 1 \in 1 .. Len(d.events)
  BY <1>1, <1>2
<1> QED BY <1>2, <1>3 DEF epollDue

(* epoll_ctl leaves the array alone (EpollDispatcher.c:40-104).             *)
LEMMA EpollSets ==
  ASSUME NEW d, EpollOK(d), NEW f \in Fd, NEW ev \in SUBSET Event
  PROVE  /\ EpollOK(epollCtl(d, f, ev))
         /\ epollCtl(d, f, ev).interest = [d.interest EXCEPT ![f] = ev]
         /\ \A a \in Nat : epollTargets(epollCtl(d, f, ev), a) = epollTargets(d, a)
<1>1. d = [interest |-> d.interest, events |-> d.events]
  BY DEF EpollOK, EpollData
<1>2. epollCtl(d, f, ev) = [interest |-> [d.interest EXCEPT ![f] = ev], events |-> d.events]
  BY <1>1 DEF epollCtl
<1>3. EpollOK(epollCtl(d, f, ev))
  BY <1>2 DEF EpollOK, EpollData
<1>4. \A a : epollDue(epollCtl(d, f, ev), a) = epollDue(d, a)
  BY <1>2 DEF epollDue
<1> QED BY <1>2, <1>3, <1>4 DEF epollTargets, epollTarget

(* epoll_wait reports nothing but what is watched and holds, and a          *)
(* descriptor once.                                                         *)
LEMMA EpollWaits ==
  ASSUME NEW d, EpollOK(d), NEW holds \in [Fd -> SUBSET Event], NEW failed,
         NEW e \in epollWait(d, holds, failed)
  PROVE  /\ EpollOK(e) /\ e.interest = d.interest
         /\ epollTargets(e, 0) \subseteq
              {t \in Fd \X Event : t[2] \in d.interest[t[1]] \cap holds[t[1]]}
<1> DEFINE ready == {f \in Fd : d.interest[f] # {} /\ epollEntry(d, f, holds, failed).events # {}}
           size  == Min({Cardinality(ready), EPOLL_MAX})
<1>1. size \in Nat
  <2>1. Cardinality(ready) \in Nat
    <3>1. ready \in SUBSET Fd
      OBVIOUS
    <3>2. IsFiniteSet(ready)
      BY <3>1, FS_Subset, EpollAssumption
    <3> QED BY <3>2, FS_CardinalityType
  <2> HIDE DEF ready
  <2>2. {Cardinality(ready), EPOLL_MAX} \in SUBSET Nat /\ {Cardinality(ready), EPOLL_MAX} # {}
    BY <2>1, EpollAssumption
  <2> QED BY <2>2, MinIsFirst
<1>2. PICK order \in [1 .. size -> ready] :
         /\ IsInjective(order)
         /\ e = [d EXCEPT !.events = [i \in 1 .. size |-> epollEntry(d, order[i], holds, failed)]]
  BY DEF epollWait
<1> DEFINE array == [i \in 1 .. size |-> epollEntry(d, order[i], holds, failed)]
<1>3. d = [interest |-> d.interest, events |-> d.events] /\ d.interest \in [Fd -> SUBSET Event]
  BY DEF EpollOK, EpollData
<1>4. e = [interest |-> d.interest, events |-> array]
  BY <1>2, <1>3
<1>5. \A i \in 1 .. size : order[i] \in Fd
  OBVIOUS
<1> HIDE DEF size, ready
<1>6. ASSUME NEW i \in 1 .. size
      PROVE  /\ array[i] \in Reported
             /\ array[i].fd = order[i]
             /\ \A x \in Event : x \in array[i].events => x \in d.interest[order[i]] \cap holds[order[i]]
  <2>1. array[i] = epollEntry(d, order[i], holds, failed)
    OBVIOUS
  <2> HIDE DEF array
  <2>2. d.interest[order[i]] \in SUBSET Event /\ holds[order[i]] \in SUBSET Event
    BY <1>3, <1>5
  <2> QED BY <1>5, <2>1, <2>2 DEF epollEntry, Reported, Event
<1>7. array \in Seq(Reported) /\ Len(array) = size
  BY <1>1, <1>6
<1>8. \A i, j \in 1 .. size : order[i] = order[j] => i = j
  BY <1>2 DEF IsInjective
<1> HIDE DEF array
<1>9. EpollOK(e)
  BY <1>3, <1>4, <1>6, <1>7, <1>8 DEF EpollOK, EpollData
<1>10. ASSUME NEW p \in epollDue(e, 0)
       PROVE  epollTarget(e, p) \in {t \in Fd \X Event : t[2] \in d.interest[t[1]] \cap holds[t[1]]}
  <2> DEFINE i == p \div 2 + 1
             t == <<order[i], EventAt(p)>>
  <2>1. p \in Nat /\ i \in 1 .. size /\ EventAt(p) \in array[i].events
    BY <1>4, <1>7, <1>9, EpollDueIs
  <2>2. EventAt(p) \in Event
    BY <2>1, Places
  <2> HIDE DEF i
  <2>3. EventAt(p) \in d.interest[order[i]] \cap holds[order[i]] /\ order[i] \in Fd
    BY <1>5, <1>6, <2>1, <2>2
  <2>4. epollTarget(e, p) = t
    BY <1>4, <1>6, <2>1 DEF epollTarget, i
  <2> QED BY <2>2, <2>3, <2>4
<1> QED BY <1>4, <1>9, <1>10 DEF epollTargets

LEMMA EpollDone ==
  ASSUME NEW d, EpollOK(d)
  PROVE  /\ EpollOK(epollDone(d)) /\ epollDone(d).interest = d.interest
         /\ \A a \in Nat : epollTargets(epollDone(d), a) = {}
<1>1. d = [interest |-> d.interest, events |-> d.events]
  BY DEF EpollOK, EpollData
<1>2. epollDone(d) = [interest |-> d.interest, events |-> <<>>]
  BY <1>1 DEF epollDone
<1>3. EpollOK(epollDone(d)) /\ Len(epollDone(d).events) = 0
  BY <1>2 DEF EpollOK, EpollData
<1>4. \A a \in Nat : \A p : p \notin epollDue(epollDone(d), a)
  BY <1>3, EpollDueIs
<1> QED BY <1>2, <1>3, <1>4 DEF epollTargets
-----------------------------------------------------------------------------
(***************************************************************************)
(* The descriptor sets of select.                                          *)
(***************************************************************************)
selectWatched(d, f) == {e \in Event : f \in d.set[e]}
selectTargets(d, a) == {selectTarget(p) : p \in selectDue(d, a)}

LEMMA SelectDueIs ==
  ASSUME NEW d \in SelectData, NEW a \in Nat, NEW p
  PROVE  p \in selectDue(d, a) <=> /\ p \in Nat /\ a <= p /\ p <= 2 * SELECT_MAX - 1
                                   /\ p \div 2 \in d.tmp[EventAt(p)]
<1>1. p \in a .. 2 * SELECT_MAX - 1 <=> p \in Nat /\ a <= p /\ p <= 2 * SELECT_MAX - 1
  BY SelectAssumption
<1> QED BY <1>1 DEF selectDue

(* FD_SET and FD_CLR on the two sets leave the copies, and the other        *)
(* descriptors, alone.  A channel must ask, when it is removed, for all it  *)
(* was watched for (SelectDispatcher.c:37-87).                              *)
LEMMA SelectSets ==
  ASSUME NEW d \in SelectData, NEW f \in Fd, NEW ev \in SUBSET Event
  PROVE  /\ \A e \in {setFdSet(d, f, ev), clearFdSet(d, f, ev)} :
              /\ e \in SelectData
              /\ \A g \in Fd \ {f} : selectWatched(e, g) = selectWatched(d, g)
              /\ \A a \in Nat : selectTargets(e, a) = selectTargets(d, a)
         /\ selectWatched(setFdSet(d, f, ev), f) = selectWatched(d, f) \cup ev
         /\ selectWatched(clearFdSet(d, f, ev), f) = selectWatched(d, f) \ ev
<1> DEFINE s == [e \in Event |-> IF e \in ev THEN d.set[e] \cup {f} ELSE d.set[e]]
           c == [e \in Event |-> IF e \in ev THEN d.set[e] \ {f} ELSE d.set[e]]
<1>1. d = [set |-> d.set, tmp |-> d.tmp] /\ d.set \in [Event -> SUBSET Fd]
  BY DEF SelectData
<1>2. setFdSet(d, f, ev) = [set |-> s, tmp |-> d.tmp]
  <2>1. setFdSet(d, f, ev) = [d EXCEPT !.set = s]
    BY Zenon DEF setFdSet
  <2> HIDE DEF s
  <2> QED BY <1>1, <2>1
<1>3. clearFdSet(d, f, ev) = [set |-> c, tmp |-> d.tmp]
  <2>1. clearFdSet(d, f, ev) = [d EXCEPT !.set = c]
    BY Zenon DEF clearFdSet
  <2> HIDE DEF c
  <2> QED BY <1>1, <2>1
<1>4. s \in [Event -> SUBSET Fd] /\ c \in [Event -> SUBSET Fd]
  BY <1>1
<1>5. [set |-> s, tmp |-> d.tmp] \in SelectData /\ [set |-> c, tmp |-> d.tmp] \in SelectData
  BY <1>4 DEF SelectData
<1>6. \A e \in Event : /\ s[e] = IF e \in ev THEN d.set[e] \cup {f} ELSE d.set[e]
                       /\ c[e] = IF e \in ev THEN d.set[e] \ {f} ELSE d.set[e]
  OBVIOUS
<1> HIDE DEF s, c
<1>7. \A a : /\ selectDue([set |-> s, tmp |-> d.tmp], a) = selectDue(d, a)
             /\ selectDue([set |-> c, tmp |-> d.tmp], a) = selectDue(d, a)
  BY DEF selectDue
<1>8. \A g \in Fd \ {f} : /\ selectWatched([set |-> s, tmp |-> d.tmp], g) = selectWatched(d, g)
                          /\ selectWatched([set |-> c, tmp |-> d.tmp], g) = selectWatched(d, g)
  BY <1>6 DEF selectWatched
<1>9. /\ selectWatched([set |-> s, tmp |-> d.tmp], f) = selectWatched(d, f) \cup ev
      /\ selectWatched([set |-> c, tmp |-> d.tmp], f) = selectWatched(d, f) \ ev
  BY <1>6 DEF selectWatched
<1> QED BY <1>2, <1>3, <1>5, <1>7, <1>8, <1>9 DEF selectTargets

(* select(2) leaves nothing in the copies but what is watched and holds.    *)
LEMMA SelectWaits ==
  ASSUME NEW d \in SelectData, NEW holds \in [Fd -> SUBSET Event],
         NEW e, e = selectWait(d, holds)
  PROVE  /\ e \in SelectData /\ \A f \in Fd : selectWatched(e, f) = selectWatched(d, f)
         /\ selectTargets(e, 0) \subseteq
              {t \in Fd \X Event : t[2] \in selectWatched(d, t[1]) \cap holds[t[1]]}
<1>1. d = [set |-> d.set, tmp |-> d.tmp] /\ d.set \in [Event -> SUBSET Fd]
  BY DEF SelectData
<1>2. e = [set |-> d.set, tmp |-> [x \in Event |-> {f \in d.set[x] : x \in holds[f]}]]
  BY <1>1 DEF selectWait
<1>3. e \in SelectData
  BY <1>1, <1>2 DEF SelectData
<1>4. ASSUME NEW p \in selectDue(e, 0)
      PROVE  selectTarget(p) \in {t \in Fd \X Event : t[2] \in selectWatched(d, t[1]) \cap holds[t[1]]}
  <2>1. p \in Nat /\ p \div 2 \in e.tmp[EventAt(p)]
    BY <1>3, SelectDueIs
  <2>2. EventAt(p) \in Event
    BY <2>1, Places
  <2>3. p \div 2 \in d.set[EventAt(p)] /\ EventAt(p) \in holds[p \div 2]
    BY <1>2, <2>1, <2>2
  <2>4. p \div 2 \in Fd
    BY <1>1, <2>2, <2>3
  <2> QED BY <2>2, <2>3, <2>4 DEF selectTarget, selectWatched
<1> QED BY <1>2, <1>3, <1>4 DEF selectTargets, selectWatched

LEMMA SelectDone ==
  ASSUME NEW d \in SelectData
  PROVE  /\ selectDone(d) \in SelectData
         /\ \A f \in Fd : selectWatched(selectDone(d), f) = selectWatched(d, f)
         /\ \A a \in Nat : selectTargets(selectDone(d), a) = {}
<1>1. d = [set |-> d.set, tmp |-> d.tmp] /\ d.set \in [Event -> SUBSET Fd]
  BY DEF SelectData
<1> DEFINE none == [x \in Event |-> {}]
<1>2. selectDone(d) = [set |-> d.set, tmp |-> none]
  <2>1. selectInit.tmp = none
    BY DEF selectInit
  <2>2. selectDone(d) = [d EXCEPT !.tmp = none]
    BY <2>1, Zenon DEF selectDone
  <2> HIDE DEF none
  <2> QED BY <1>1, <2>2
<1>3. selectDone(d) \in SelectData
  BY <1>1, <1>2 DEF SelectData
<1>4. \A p \in Nat : EventAt(p) \in Event
  BY Places
<1>5. \A a \in Nat : \A p : p \notin selectDue(selectDone(d), a)
  BY <1>2, <1>3, <1>4, SelectDueIs
<1>6. \A a \in Nat : selectTargets(selectDone(d), a) = {}
  BY <1>5 DEF selectTargets
<1>7. \A f \in Fd : selectWatched(selectDone(d), f) = selectWatched(d, f)
  BY <1>2 DEF selectWatched
<1> QED BY <1>3, <1>6, <1>7
-----------------------------------------------------------------------------
(***************************************************************************)
(* The dispatcher of the loop, whichever it is.                            *)
(***************************************************************************)
DataOK == /\ kind \in {"poll", "epoll", "select"}
          /\ kind = "poll" => PollOK(data)
          /\ kind = "epoll" => EpollOK(data)
          /\ kind = "select" => data \in SelectData

LEMMA WatchedIs ==
  /\ kind = "poll"   => \A f : Watched(f) = pollWatched(data, f)
  /\ kind = "epoll"  => \A f : Watched(f) = data.interest[f]
  /\ kind = "select" => \A f : Watched(f) = selectWatched(data, f)
BY DEF Watched, pollWatched, selectWatched

LEMMA WatchedBecomes ==
  /\ kind' = "poll"   => \A f : Watched(f)' = pollWatched(data', f)
  /\ kind' = "epoll"  => \A f : Watched(f)' = data'.interest[f]
  /\ kind' = "select" => \A f : Watched(f)' = selectWatched(data', f)
BY DEF Watched, pollWatched, selectWatched, SlotsOf

LEMMA TargetsAre ==
  /\ kind = "poll"   => DueTargets = pollTargets(data, at)
  /\ kind = "epoll"  => DueTargets = epollTargets(data, at)
  /\ kind = "select" => DueTargets = selectTargets(data, at)
BY DEF DueTargets, Due, Target, pollTargets, epollTargets, selectTargets

LEMMA TargetsBecome ==
  /\ kind' = "poll"   => DueTargets' = pollTargets(data', at')
  /\ kind' = "epoll"  => DueTargets' = epollTargets(data', at')
  /\ kind' = "select" => DueTargets' = selectTargets(data', at')
BY DEF DueTargets, Due, Target, pollTargets, epollTargets, selectTargets,
       pollDue, epollDue, selectDue, pollTarget, epollTarget, selectTarget

(* What the operation an event loop asks for does, with any dispatcher.     *)
LEMMA AddIs ==
  ASSUME DataOK, at \in Nat, NEW f \in Fd, events[f] \in SUBSET Event, "in" \in events[f],
         Watched(f) = {},
         data' = add(f), kind' = kind, at' = at
  PROVE  /\ DataOK' /\ DueTargets' = DueTargets
         /\ Watched(f)' = IF Refused(f) THEN {} ELSE events[f]
         /\ \A g \in Fd \ {f} : Watched(g)' = Watched(g)
<1>1. CASE kind = "poll"
  <2>1. data' = pollAdd(data, f, events[f])
    BY <1>1 DEF add
  <2>2. PollOK(data) /\ pollWatched(data, f) = {}
    BY <1>1, WatchedIs DEF DataOK
  <2>3. /\ PollOK(data')
        /\ pollWatched(data', f) = IF SlotsOf(data, NoFd) = {} THEN {} ELSE events[f]
        /\ \A g \in Fd \ {f} : pollWatched(data', g) = pollWatched(data, g)
        /\ \A a \in Nat : pollTargets(data', a) = pollTargets(data, a)
    <3> DEFINE ev == events[f]
    <3>1. ev \in SUBSET Event /\ "in" \in ev
      OBVIOUS
    <3> HIDE DEF ev
    <3>2. /\ PollOK(pollAdd(data, f, ev))
          /\ pollWatched(pollAdd(data, f, ev), f) = IF SlotsOf(data, NoFd) = {} THEN {} ELSE ev
          /\ \A g \in Fd \ {f} : pollWatched(pollAdd(data, f, ev), g) = pollWatched(data, g)
          /\ \A a \in Nat : pollTargets(pollAdd(data, f, ev), a) = pollTargets(data, a)
      BY <2>2, <3>1, PollAdds
    <3> QED BY <2>1, <3>2 DEF ev
  <2>4. kind' = "poll" /\ (Refused(f) <=> SlotsOf(data, NoFd) = {})
    BY <1>1 DEF Refused
  <2> QED BY <1>1, <2>3, <2>4, WatchedIs, WatchedBecomes, TargetsAre, TargetsBecome DEF DataOK
<1>2. CASE kind = "epoll"
  <2>1. data' = epollCtl(data, f, events[f])
    BY <1>2 DEF add, epollAdd
  <2>2. EpollOK(data)
    BY <1>2 DEF DataOK
  <2>3. /\ EpollOK(data') /\ data'.interest = [data.interest EXCEPT ![f] = events[f]]
        /\ \A a \in Nat : epollTargets(data', a) = epollTargets(data, a)
    BY <2>1, <2>2, EpollSets
  <2>4. data.interest \in [Fd -> SUBSET Event] /\ kind' = "epoll" /\ ~Refused(f)
    BY <1>2, <2>2 DEF EpollOK, EpollData, Refused
  <2> QED BY <1>2, <2>3, <2>4, WatchedIs, WatchedBecomes, TargetsAre, TargetsBecome DEF DataOK
<1>3. CASE kind = "select"
  <2>1. data' = IF f >= SELECT_MAX THEN data ELSE setFdSet(data, f, events[f])
    BY <1>3 DEF add, selectAdd
  <2>2. data \in SelectData /\ selectWatched(data, f) = {}
    BY <1>3, WatchedIs DEF DataOK
  <2>3. /\ data' \in SelectData
        /\ selectWatched(data', f) = IF f >= SELECT_MAX THEN {} ELSE events[f]
        /\ \A g \in Fd \ {f} : selectWatched(data', g) = selectWatched(data, g)
        /\ \A a \in Nat : selectTargets(data', a) = selectTargets(data, a)
    <3> DEFINE ev == events[f]
               s == setFdSet(data, f, ev)
    <3>0. ev \in SUBSET Event
      OBVIOUS
    <3> HIDE DEF ev
    <3>1. /\ s \in SelectData /\ selectWatched(s, f) = selectWatched(data, f) \cup ev
          /\ \A g \in Fd \ {f} : selectWatched(s, g) = selectWatched(data, g)
          /\ \A a \in Nat : selectTargets(s, a) = selectTargets(data, a)
      BY <2>2, <3>0, SelectSets
    <3> HIDE DEF s
    <3>2. CASE f >= SELECT_MAX
      BY <2>1, <2>2, <3>2
    <3>3. CASE ~(f >= SELECT_MAX)
      <4>1. data' = s
        BY <2>1, <3>3 DEF s, ev
      <4> QED BY <2>2, <3>1, <3>3, <4>1 DEF ev
    <3> QED BY <3>2, <3>3
  <2>4. kind' = "select" /\ (Refused(f) <=> f >= SELECT_MAX)
    BY <1>3 DEF Refused
  <2> QED BY <1>3, <2>3, <2>4, WatchedIs, WatchedBecomes, TargetsAre, TargetsBecome DEF DataOK
<1> QED BY <1>1, <1>2, <1>3 DEF DataOK

LEMMA ModifyIs ==
  ASSUME DataOK, at \in Nat, NEW f \in Fd, events[f] \in SUBSET Event, "in" \in events[f],
         Watched(f) # {}, Watched(f) \subseteq events[f],
         data' = modify(f), kind' = kind, at' = at
  PROVE  /\ DataOK' /\ DueTargets' = DueTargets
         /\ Watched(f)' = events[f]
         /\ \A g \in Fd \ {f} : Watched(g)' = Watched(g)
<1>1. CASE kind = "poll"
  <2>1. data' = pollModify(data, f, events[f])
    BY <1>1 DEF modify
  <2>2. PollOK(data) /\ pollWatched(data, f) # {}
    BY <1>1, WatchedIs DEF DataOK
  <2>3. /\ PollOK(data') /\ pollWatched(data', f) = events[f]
        /\ \A g \in Fd \ {f} : pollWatched(data', g) = pollWatched(data, g)
        /\ \A a \in Nat : pollTargets(data', a) = pollTargets(data, a)
    BY <2>1, <2>2, PollModifies
  <2> QED BY <1>1, <2>3, WatchedIs, WatchedBecomes, TargetsAre, TargetsBecome DEF DataOK
<1>2. CASE kind = "epoll"
  <2>1. data' = epollCtl(data, f, events[f])
    BY <1>2 DEF modify, epollModify
  <2>2. EpollOK(data)
    BY <1>2 DEF DataOK
  <2>3. /\ EpollOK(data') /\ data'.interest = [data.interest EXCEPT ![f] = events[f]]
        /\ \A a \in Nat : epollTargets(data', a) = epollTargets(data, a)
    BY <2>1, <2>2, EpollSets
  <2>4. data.interest \in [Fd -> SUBSET Event]
    BY <2>2 DEF EpollOK, EpollData
  <2> QED BY <1>2, <2>3, <2>4, WatchedIs, WatchedBecomes, TargetsAre, TargetsBecome DEF DataOK
<1>3. CASE kind = "select"
  <2> DEFINE c == clearFdSet(data, f, events[f])
  <2>1. data' = setFdSet(c, f, events[f])
    BY <1>3 DEF modify, selectModify
  <2>2. data \in SelectData /\ selectWatched(data, f) \subseteq events[f]
    BY <1>3, WatchedIs DEF DataOK
  <2>3. /\ c \in SelectData /\ selectWatched(c, f) = selectWatched(data, f) \ events[f]
        /\ \A g \in Fd \ {f} : selectWatched(c, g) = selectWatched(data, g)
        /\ \A a \in Nat : selectTargets(c, a) = selectTargets(data, a)
    BY <2>2, SelectSets
  <2> HIDE DEF c
  <2>4. /\ data' \in SelectData /\ selectWatched(data', f) = selectWatched(c, f) \cup events[f]
        /\ \A g \in Fd \ {f} : selectWatched(data', g) = selectWatched(c, g)
        /\ \A a \in Nat : selectTargets(data', a) = selectTargets(c, a)
    BY <2>1, <2>3, SelectSets
  <2>5. selectWatched(data', f) = events[f]
    BY <2>2, <2>3, <2>4
  <2> QED BY <1>3, <2>3, <2>4, <2>5, WatchedIs, WatchedBecomes, TargetsAre, TargetsBecome DEF DataOK
<1> QED BY <1>1, <1>2, <1>3 DEF DataOK

LEMMA RemoveIs ==
  ASSUME DataOK, at \in Nat, NEW f \in Fd, events[f] \in SUBSET Event,
         Watched(f) \subseteq events[f], \A t \in DueTargets : t[1] # f,
         data' = remove(f), kind' = kind, at' = at
  PROVE  /\ DataOK' /\ DueTargets' = DueTargets
         /\ Watched(f)' = {}
         /\ \A g \in Fd \ {f} : Watched(g)' = Watched(g)
<1>1. CASE kind = "poll"
  <2>1. data' = pollRemove(data, f)
    BY <1>1 DEF remove
  <2>2. PollOK(data) /\ \A t \in pollTargets(data, at) : t[1] # f
    BY <1>1, TargetsAre DEF DataOK
  <2>3. /\ PollOK(data') /\ pollWatched(data', f) = {}
        /\ \A g \in Fd \ {f} : pollWatched(data', g) = pollWatched(data, g)
        /\ pollTargets(data', at) = pollTargets(data, at)
    BY <2>1, <2>2, PollRemoves
  <2> QED BY <1>1, <2>3, WatchedIs, WatchedBecomes, TargetsAre, TargetsBecome DEF DataOK
<1>2. CASE kind = "epoll"
  <2>1. data' = epollCtl(data, f, {})
    BY <1>2 DEF remove, epollRemove
  <2>2. EpollOK(data)
    BY <1>2 DEF DataOK
  <2>3. /\ EpollOK(data') /\ data'.interest = [data.interest EXCEPT ![f] = {}]
        /\ \A a \in Nat : epollTargets(data', a) = epollTargets(data, a)
    <3> DEFINE nothing == {}
    <3>1. nothing \in SUBSET Event /\ data' = epollCtl(data, f, nothing)
      BY <2>1
    <3> HIDE DEF nothing
    <3>2. /\ EpollOK(data') /\ data'.interest = [data.interest EXCEPT ![f] = nothing]
          /\ \A a \in Nat : epollTargets(data', a) = epollTargets(data, a)
      BY <2>2, <3>1, EpollSets
    <3> QED BY <3>2 DEF nothing
  <2>4. data.interest \in [Fd -> SUBSET Event]
    BY <2>2 DEF EpollOK, EpollData
  <2> QED BY <1>2, <2>3, <2>4, WatchedIs, WatchedBecomes, TargetsAre, TargetsBecome DEF DataOK
<1>3. CASE kind = "select"
  <2>1. data' = clearFdSet(data, f, events[f])
    BY <1>3 DEF remove, selectRemove
  <2>2. data \in SelectData /\ selectWatched(data, f) \subseteq events[f]
    BY <1>3, WatchedIs DEF DataOK
  <2>3. /\ data' \in SelectData /\ selectWatched(data', f) = {}
        /\ \A g \in Fd \ {f} : selectWatched(data', g) = selectWatched(data, g)
        /\ \A a \in Nat : selectTargets(data', a) = selectTargets(data, a)
    BY <2>1, <2>2, SelectSets
  <2> QED BY <1>3, <2>3, WatchedIs, WatchedBecomes, TargetsAre, TargetsBecome DEF DataOK
<1> QED BY <1>1, <1>2, <1>3 DEF DataOK

(* What a report makes due was watched for and held when the call returned. *)
LEMMA WaitIs ==
  ASSUME DataOK, Holds \in [Fd -> SUBSET Event], WaitReturns
  PROVE  /\ DataOK' /\ \A g \in Fd : Watched(g)' = Watched(g)
         /\ DueTargets' \subseteq {t \in Fd \X Event : t[2] \in Watched(t[1]) \cap Holds[t[1]]}
<1> DEFINE H == Holds
<1>0. at' = 0 /\ kind' = kind /\ H \in [Fd -> SUBSET Event]
  BY DEF WaitReturns
<1>1. CASE kind = "poll"
  <2>1. data' = [data EXCEPT !.revents = [i \in Slot |->
                       IF i > data.maxfd THEN data.revents[i]
                       ELSE IF data.fd[i] = NoFd THEN {}
                       ELSE {x \in data.events[i] : x \in H[data.fd[i]]}]]
    BY <1>1 DEF WaitReturns, pollWait
  <2> HIDE DEF H
  <2>2. PollOK(data)
    BY <1>1 DEF DataOK
  <2>3. /\ PollOK(data') /\ \A f \in Fd : pollWatched(data', f) = pollWatched(data, f)
        /\ pollTargets(data', 0) \subseteq
             {t \in Fd \X Event : t[2] \in pollWatched(data, t[1]) \cap H[t[1]]}
    BY <1>0, <2>1, <2>2, PollWaits, SMTT(30)
  <2> USE DEF H
  <2> QED BY <1>0, <1>1, <2>3, WatchedIs, WatchedBecomes, TargetsBecome DEF DataOK
<1>2. CASE kind = "epoll"
  <2>1. PICK failed : failed = Failed
    OBVIOUS
  <2>2. EpollOK(data) /\ data' \in epollWait(data, H, failed)
    BY <1>2, <2>1 DEF DataOK, WaitReturns
  <2> HIDE DEF H
  <2>3. /\ EpollOK(data') /\ data'.interest = data.interest
        /\ epollTargets(data', 0) \subseteq
             {t \in Fd \X Event : t[2] \in data.interest[t[1]] \cap H[t[1]]}
    BY <1>0, <2>2, EpollWaits
  <2> USE DEF H
  <2> QED BY <1>0, <1>2, <2>3, WatchedIs, WatchedBecomes, TargetsBecome DEF DataOK
<1>3. CASE kind = "select"
  <2>1. data \in SelectData /\ data' = selectWait(data, H)
    BY <1>3 DEF DataOK, WaitReturns
  <2> HIDE DEF H
  <2>3. /\ data' \in SelectData /\ \A f \in Fd : selectWatched(data', f) = selectWatched(data, f)
        /\ selectTargets(data', 0) \subseteq
             {t \in Fd \X Event : t[2] \in selectWatched(data, t[1]) \cap H[t[1]]}
    BY <1>0, <2>1, SelectWaits
  <2> USE DEF H
  <2> QED BY <1>0, <1>3, <2>3, WatchedIs, WatchedBecomes, TargetsBecome DEF DataOK
<1> QED BY <1>1, <1>2, <1>3 DEF DataOK

LEMMA LastIsBehind == Last \in Nat /\ Last >= 2 * MAX
<1> DEFINE S == {MAX, EPOLL_MAX, SELECT_MAX}
<1>1. \E x \in S : \A y \in S : x >= y
  BY PollAssumption, EpollAssumption, SelectAssumption
<1>2. Max(S) \in S /\ \A y \in S : Max(S) >= y
  BY <1>1 DEF Max
<1> QED BY <1>2, PollAssumption, EpollAssumption, SelectAssumption DEF Last

(* A scan that has ended has nothing left, from any place on.               *)
LEMMA DoneIs ==
  ASSUME DataOK, at \in Nat, EndScan
  PROVE  /\ DataOK' /\ \A g \in Fd : Watched(g)' = Watched(g)
         /\ DueTargets = {} /\ DueTargets' = {} /\ at' \in Nat
<1>0. kind' = kind /\ at' = Last /\ Last \in Nat /\ DueTargets = {}
  BY LastIsBehind DEF EndScan, DueTargets
<1>1. CASE kind = "poll"
  <2>1. PollOK(data) /\ data' = data /\ kind' = "poll"
    BY <1>1 DEF EndScan, DataOK
  <2>2. pollDue(data, Last) = {}
    BY <2>1, LastIsBehind, PollDueIs, PollAssumption DEF PollOK
  <2>3. DueTargets' = {}
    BY <1>0, <2>1, <2>2, TargetsBecome DEF pollTargets
  <2> QED BY <1>0, <1>1, <2>1, <2>3, WatchedIs, WatchedBecomes DEF DataOK
<1>2. CASE kind = "epoll"
  <2>1. EpollOK(data) /\ data' = epollDone(data)
    BY <1>2 DEF EndScan, DataOK
  <2>2. EpollOK(data') /\ data'.interest = data.interest /\ epollTargets(data', Last) = {}
    BY <1>0, <2>1, EpollDone
  <2> QED BY <1>0, <1>2, <2>2, WatchedIs, WatchedBecomes, TargetsBecome DEF DataOK
<1>3. CASE kind = "select"
  <2>1. data \in SelectData /\ data' = selectDone(data)
    BY <1>3 DEF EndScan, DataOK
  <2>2. /\ data' \in SelectData /\ \A f \in Fd : selectWatched(data', f) = selectWatched(data, f)
        /\ selectTargets(data', Last) = {}
    BY <1>0, <2>1, SelectDone
  <2> QED BY <1>0, <1>3, <2>2, WatchedIs, WatchedBecomes, TargetsBecome DEF DataOK
<1> QED BY <1>1, <1>2, <1>3 DEF DataOK

(* The places of a scan: numbers from the one reached on; two of one        *)
(* descriptor are the two tests of one entry.                               *)
LEMMA DuePlaces ==
  ASSUME DataOK, at \in Nat
  PROVE  /\ Due \subseteq Nat
         /\ \A p \in Due : at <= p /\ Target(p)[2] = EventAt(p) /\ Target(p) = <<Target(p)[1], Target(p)[2]>>
         /\ \A p, q \in Due : Target(p)[1] = Target(q)[1] => p \div 2 = q \div 2
<1>1. CASE kind = "poll"
  <2>1. PollOK(data) /\ data \in PollData /\ TableOK(data)
    BY <1>1 DEF DataOK, PollOK
  <2>2. /\ \A p \in pollDue(data, at) : p \in Nat /\ at <= p /\ p \div 2 \in Slot /\ data.fd[p \div 2] # NoFd
    BY <2>1, PollDueIs
  <2>3. \A p : Target(p) = <<data.fd[p \div 2], EventAt(p)>>
    BY <1>1 DEF Target, pollTarget
  <2>4. Due = pollDue(data, at)
    BY <1>1 DEF Due
  <2>5. \A i, j \in Slot : data.fd[i] # NoFd /\ data.fd[i] = data.fd[j] => i = j
    BY <2>1 DEF TableOK
  <2> HIDE DEF Target, Due
  <2> QED BY <2>2, <2>3, <2>4, <2>5
<1>2. CASE kind = "epoll"
  <2>1. EpollOK(data)
    BY <1>2 DEF DataOK
  <2>2. /\ \A p \in epollDue(data, at) : p \in Nat /\ at <= p /\ p \div 2 + 1 \in 1 .. Len(data.events)
    BY <2>1, EpollDueIs
  <2>3. \A p : Target(p) = <<data.events[p \div 2 + 1].fd, EventAt(p)>>
    BY <1>2 DEF Target, epollTarget
  <2>4. Due = epollDue(data, at)
    BY <1>2 DEF Due
  <2>5. \A p, q \in Due : Target(p)[1] = Target(q)[1] => p \div 2 + 1 = q \div 2 + 1
    BY <2>1, <2>2, <2>3, <2>4 DEF EpollOK
  <2>6. \A p, q \in Due : p \div 2 + 1 = q \div 2 + 1 => p \div 2 = q \div 2
    BY <2>2, <2>4
  <2> QED BY <2>2, <2>3, <2>4, <2>5, <2>6
<1>3. CASE kind = "select"
  <2>1. data \in SelectData
    BY <1>3 DEF DataOK
  <2>2. \A p \in selectDue(data, at) : p \in Nat /\ at <= p
    BY <2>1, SelectDueIs
  <2>3. \A p : Target(p) = <<p \div 2, EventAt(p)>>
    BY <1>3 DEF Target, selectTarget
  <2>4. Due = selectDue(data, at)
    BY <1>3 DEF Due
  <2> QED BY <2>2, <2>3, <2>4
<1> QED BY <1>1, <1>2, <1>3 DEF DataOK

(* Advancing a scan leaves the places that follow.                          *)
LEMMA Advance ==
  ASSUME DataOK, at \in Nat, data' = data, kind' = kind, NEW p \in Due, at' = p + 1
  PROVE  /\ Due' = {q \in Due : p < q} /\ \A q : Target(q)' = Target(q)
         /\ DataOK' /\ \A g \in Fd : Watched(g)' = Watched(g)
<1>0. at' \in Nat /\ \A q : Target(q)' = Target(q)
  BY DuePlaces DEF Target, pollTarget, epollTarget, selectTarget
<1>1. DataOK' /\ \A g \in Fd : Watched(g)' = Watched(g)
  BY WatchedIs, WatchedBecomes DEF DataOK
<1>2. at <= p /\ p \in Nat
  BY DuePlaces
<1>3. CASE kind = "poll"
  <2>1. data \in PollData /\ Due = pollDue(data, at) /\ Due' = pollDue(data, at')
    BY <1>3 DEF DataOK, PollOK, Due, pollDue
  <2>2. \A q : q \in Due' <=> q \in Due /\ p < q
    BY <1>0, <1>2, <2>1, PollDueIs
  <2> QED BY <1>0, <1>1, <2>2
<1>4. CASE kind = "epoll"
  <2>1. EpollOK(data) /\ Due = epollDue(data, at) /\ Due' = epollDue(data, at')
    BY <1>4 DEF DataOK, Due, epollDue
  <2>2. \A q : q \in Due' <=> q \in Due /\ p < q
    BY <1>0, <1>2, <2>1, EpollDueIs
  <2> QED BY <1>0, <1>1, <2>2
<1>5. CASE kind = "select"
  <2>1. data \in SelectData /\ Due = selectDue(data, at) /\ Due' = selectDue(data, at')
    BY <1>5 DEF DataOK, Due, selectDue
  <2>2. \A q : q \in Due' <=> q \in Due /\ p < q
    BY <1>0, <1>2, <2>1, SelectDueIs
  <2> QED BY <1>0, <1>1, <2>2
<1> QED BY <1>3, <1>4, <1>5 DEF DataOK

(* An activation takes its own event from what is due, and after that for   *)
(* writing nothing is left for the descriptor.                              *)
LEMMA ActivateIs ==
  ASSUME DataOK, at \in Nat, NEW f, NEW e, Activates(f, e), data' = data, kind' = kind
  PROVE  /\ <<f, e>> \in DueTargets /\ DueTargets' = DueTargets \ {<<f, e>>}
         /\ \A t \in DueTargets' : t[1] = f => e = "in" /\ t[2] = "out"
         /\ DataOK' /\ at' \in Nat /\ \A g \in Fd : Watched(g)' = Watched(g)
<1> DEFINE p == Min(Due)
<1>1. Due \in SUBSET Nat /\ Due # {}
  BY DuePlaces DEF Activates
<1>2. p \in Due /\ \A q \in Due : p <= q
  BY <1>1, MinIsFirst
<1>3. Target(p) = <<f, e>> /\ at' = p + 1
  BY DEF Activates, Current
<1> HIDE DEF p
<1>4. Due' = {q \in Due : p < q} /\ (\A q : Target(q)' = Target(q))
      /\ DataOK' /\ \A g \in Fd : Watched(g)' = Watched(g)
  BY <1>2, <1>3, Advance
<1>5. DueTargets = {Target(q) : q \in Due} /\ DueTargets' = {Target(q) : q \in {r \in Due : p < r}}
  BY <1>4 DEF DueTargets
<1>6. e = EventAt(p)
  BY <1>2, <1>3, DuePlaces
<1>7. ASSUME NEW q \in Due, p < q
      PROVE  Target(q) # <<f, e>> /\ (Target(q)[1] = f => e = "in" /\ Target(q)[2] = "out")
  <2>1. p \in Nat /\ q \in Nat
    BY <1>1, <1>2
  <2>2. Target(q)[2] = EventAt(q)
    BY DuePlaces
  <2>3. Target(q)[1] = f => q \div 2 = p \div 2
    BY <1>2, <1>3, DuePlaces
  <2>4. q \div 2 = p \div 2 => EventAt(p) = "in" /\ EventAt(q) = "out"
    BY <1>7, <2>1, Places DEF EventAt
  <2> QED BY <1>6, <2>2, <2>3, <2>4
<1>8. \A q \in Due : p < q \/ q = p
  BY <1>1, <1>2
<1> HIDE DEF DueTargets
<1>9. DueTargets' = DueTargets \ {<<f, e>>} /\ <<f, e>> \in DueTargets
  BY <1>2, <1>3, <1>5, <1>7, <1>8
<1>10. \A t \in DueTargets' : t[1] = f => e = "in" /\ t[2] = "out"
  BY <1>5, <1>7
<1> QED BY <1>1, <1>2, <1>3, <1>4, <1>9, <1>10
-----------------------------------------------------------------------------
(***************************************************************************)
(* The invariant of the loop.                                              *)
(***************************************************************************)
Types ==
  /\ kind \in Kinds /\ auto \in Builds
  /\ pc \in {"wait", "scan", "own", "run"} /\ at \in Nat
  /\ tasks \in Seq(Task)
  /\ open \in SUBSET Fd /\ list \in SUBSET Fd /\ left \in SUBSET Fd
  /\ events \in [Fd -> SUBSET Event]
  /\ input \in [Fd -> Input]

(* A channel asks for reading, and for all it is watched for; for writing   *)
(* only with MSG_SEND_AUTO.                                                 *)
EventsOK ==
  /\ \A f \in Fd : "in" \in events[f] /\ Watched(f) \subseteq events[f]
  /\ ~auto => \A f \in Fd : events[f] = {"in"}

(* An ADD is queued once, for an open connection not yet in the map; a task *)
(* of the loop's own is the last one, for a channel that is watched, and a  *)
(* DELETE leaves nothing of the report behind.                              *)
TasksOK ==
  \A i \in 1 .. Len(tasks) :
    /\ tasks[i].type = "ADD" =>
         /\ tasks[i].fd \in open \ list
         /\ \A j \in 1 .. Len(tasks) : tasks[j].type = "ADD" /\ tasks[j].fd = tasks[i].fd => j = i
    /\ tasks[i].type # "ADD" => pc = "own" /\ i = Len(tasks) /\ Watched(tasks[i].fd) # {}
    /\ tasks[i].type = "DELETE" => \A t \in DueTargets : t[1] # tasks[i].fd

MapOK == list \subseteq open /\ \A f \in Fd : Watched(f) # {} => f \in list

ScanOK == /\ ActivatesLiveChannels
          /\ pc \in {"wait", "run"} => DueTargets = {}

LoopInv == Types /\ DataOK /\ EventsOK /\ TasksOK /\ MapOK /\ ScanOK /\ WatchedAsAsked

LEMMA TaskIs ==
  ASSUME NEW s \in Seq(Task), NEW i \in 1 .. Len(s)
  PROVE  s[i] \in Task /\ s[i].fd \in Fd /\ s[i].type \in {"ADD", "DELETE", "MODIFY"}
<1>1. s[i] \in Task
  OBVIOUS
<1> QED BY <1>1 DEF Task

LEMMA TargetsInit == Init => DataOK /\ DueTargets = {} /\ \A f \in Fd : Watched(f) = {}
<1> SUFFICES ASSUME Init PROVE DataOK /\ DueTargets = {} /\ \A f \in Fd : Watched(f) = {}
  OBVIOUS
<1>0. kind \in {"poll", "epoll", "select"} /\ at = 0
  BY DispatchAssumption DEF Init
<1>1. CASE kind = "poll"
  <2>1. data = pollInit
    BY <1>1 DEF Init
  <2>2. PollOK(data)
    BY <2>1, PollAssumption DEF pollInit, PollOK, PollData, TableOK, Slot
  <2>3. \A p : p \notin pollDue(data, at)
    BY <1>0, <2>1, <2>2, PollDueIs DEF pollInit, PollOK
  <2>4. DueTargets = {}
    BY <1>1, <2>3, TargetsAre DEF pollTargets
  <2>5. \A f \in Fd : Watched(f) = {}
    <3>1. \A f \in Fd : SlotsOf(data, f) = {}
      BY <2>1, PollAssumption DEF pollInit, SlotsOf
    <3> QED BY <1>1, <2>2, <3>1, PollEntry, WatchedIs
  <2> QED BY <1>0, <1>1, <2>2, <2>4, <2>5 DEF DataOK
<1>2. CASE kind = "epoll"
  <2>1. data = epollInit
    BY <1>2 DEF Init
  <2>2. EpollOK(data)
    BY <2>1 DEF epollInit, EpollOK, EpollData
  <2>3. \A p : p \notin epollDue(data, at)
    BY <1>0, <2>1, <2>2, EpollDueIs DEF epollInit
  <2>4. DueTargets = {}
    BY <1>2, <2>3, TargetsAre DEF epollTargets
  <2>5. \A f \in Fd : Watched(f) = {}
    BY <1>2, <2>1, WatchedIs DEF epollInit
  <2> QED BY <1>0, <1>2, <2>2, <2>4, <2>5 DEF DataOK
<1>3. CASE kind = "select"
  <2>1. data = selectInit
    BY <1>3 DEF Init
  <2>2. data \in SelectData
    BY <2>1 DEF selectInit, SelectData
  <2>3. \A p : p \notin selectDue(data, at)
    <3>1. \A p \in Nat : data.tmp[EventAt(p)] = {}
      BY <2>1, Places DEF selectInit
    <3> QED BY <1>0, <2>2, <3>1, SelectDueIs
  <2>4. DueTargets = {}
    BY <1>3, <2>3, TargetsAre DEF selectTargets
  <2>5. \A f \in Fd : Watched(f) = {}
    BY <1>3, <2>1, WatchedIs DEF selectInit, selectWatched
  <2> QED BY <1>0, <1>3, <2>2, <2>4, <2>5 DEF DataOK
<1> QED BY <1>0, <1>1, <1>2, <1>3

LEMMA InvInit == Init => LoopInv
<1> SUFFICES ASSUME Init PROVE LoopInv
  OBVIOUS
<1>1. DataOK /\ DueTargets = {} /\ \A f \in Fd : Watched(f) = {}
  BY TargetsInit
<1>2. Types
  BY DEF Init, Types, Event, Input
<1>3. tasks = <<>> /\ list = {} /\ open = {} /\ events = [f \in Fd |-> {"in"}]
  BY DEF Init
<1> QED BY <1>1, <1>2, <1>3 DEF LoopInv, EventsOK, TasksOK, MapOK, ScanOK,
                                ActivatesLiveChannels, WatchedAsAsked

LEMMA SameData ==
  ASSUME DataOK, data' = data, kind' = kind, at' = at
  PROVE  DataOK' /\ DueTargets' = DueTargets /\ \A g \in Fd : Watched(g)' = Watched(g)
BY WatchedIs, WatchedBecomes, TargetsAre, TargetsBecome DEF DataOK

(* Between tasks nothing of the loop's own is queued.                       *)
LEMMA OnlyAdds ==
  ASSUME LoopInv, pc # "own"
  PROVE  /\ \A i \in 1 .. Len(tasks) : tasks[i].type = "ADD"
         /\ \A f \in Fd : Watched(f) \in {{}, events[f]}
<1>1. \A i \in 1 .. Len(tasks) : tasks[i].type = "ADD"
  BY DEF LoopInv, TasksOK
<1>2. DOMAIN tasks = 1 .. Len(tasks)
  BY DEF LoopInv, Types
<1>3. \A f \in Fd : ~Queued("MODIFY", f)
  BY <1>1, <1>2 DEF Queued
<1> QED BY <1>1, <1>3 DEF LoopInv, WatchedAsAsked

(* What a step keeps that leaves the map, and what is asked for and watched. *)
LEMMA Keeps ==
  ASSUME LoopInv, auto' = auto, list' = list, events' = events, open \subseteq open',
         \A g \in Fd : Watched(g)' = Watched(g)
  PROVE  /\ EventsOK' /\ MapOK'
         /\ DueTargets' \subseteq DueTargets => ActivatesLiveChannels'
<1>1. EventsOK'
  BY DEF LoopInv, EventsOK
<1>2. MapOK'
  BY DEF LoopInv, MapOK
<1>3. ASSUME NEW t \in DueTargets
      PROVE  t[1] \in list' \cap open' /\ t[2] \in Watched(t[1])'
  <2>1. t[1] \in list /\ t[1] \in open /\ t[2] \in Watched(t[1])
    BY DEF LoopInv, ScanOK, ActivatesLiveChannels
  <2>2. t[1] \in Fd
    BY <2>1 DEF LoopInv, Types
  <2> QED BY <2>1, <2>2
<1> QED BY <1>1, <1>2, <1>3 DEF ActivatesLiveChannels

LEMMA AcceptStep ==
  ASSUME LoopInv, NEW f \in Fd, Accept(f)
  PROVE  LoopInv'
<1>1. DataOK' /\ DueTargets' = DueTargets /\ \A g \in Fd : Watched(g)' = Watched(g)
  BY SameData DEF LoopInv, Accept
<1> DEFINE new == [type |-> "ADD", fd |-> f]
<1>2. new \in Task /\ new.type = "ADD" /\ new.fd = f
  BY DEF Task
<1>3. tasks' = Append(tasks, new) /\ tasks \in Seq(Task)
  BY DEF LoopInv, Types, Accept
<1> HIDE DEF new
<1>4. /\ tasks' \in Seq(Task) /\ Len(tasks') = Len(tasks) + 1 /\ Len(tasks) \in Nat
      /\ \A i \in 1 .. Len(tasks) : tasks'[i] = tasks[i] /\ tasks'[Len(tasks) + 1] = new
  BY <1>2, <1>3
<1>5. tasks'[Len(tasks) + 1] = new
  BY <1>2, <1>3
<1>6. Types'
  BY <1>4 DEF LoopInv, Types, Accept
<1>7. EventsOK' /\ MapOK' /\ ScanOK'
  <2>1. /\ auto' = auto /\ list' = list /\ events' = events /\ open \subseteq open'
        /\ pc' \in {"wait", "run"} => DueTargets = {}
    BY DEF LoopInv, ScanOK, Accept
  <2>2. EventsOK' /\ MapOK' /\ ActivatesLiveChannels'
    BY <1>1, <2>1, Keeps
  <2> QED BY <1>1, <2>1, <2>2 DEF ScanOK
<1>8. TasksOK'
  <2>1. \A i \in 1 .. Len(tasks) : tasks[i].type = "ADD" /\ tasks[i].fd \in open \ list
    BY OnlyAdds DEF LoopInv, TasksOK, Accept
  <2>2. f \notin open /\ f \notin list /\ open' = open \cup {f} /\ list' = list
    BY DEF LoopInv, MapOK, Accept
  <2>3. \A i \in 1 .. Len(tasks') : i \in 1 .. Len(tasks) \/ i = Len(tasks) + 1
    BY <1>4
  <2>4. \A i \in 1 .. Len(tasks') : tasks'[i].type = "ADD" /\ tasks'[i].fd \in open' \ list'
    BY <1>2, <1>4, <1>5, <2>1, <2>2, <2>3
  <2>5. \A i, j \in 1 .. Len(tasks') : tasks'[i].fd = tasks'[j].fd => i = j
    BY <1>2, <1>4, <1>5, <2>1, <2>2, <2>3 DEF LoopInv, TasksOK
  <2> QED BY <2>4, <2>5 DEF TasksOK
<1>9. WatchedAsAsked'
  BY <1>1, OnlyAdds DEF Accept, WatchedAsAsked
<1> QED BY <1>1, <1>6, <1>7, <1>8, <1>9 DEF LoopInv

LEMMA ClientStep ==
  ASSUME LoopInv, NEW f \in Fd, NEW what \in Input \ {"quiet"}, ClientSends(f, what)
  PROVE  LoopInv'
<1>1. DataOK' /\ DueTargets' = DueTargets /\ \A g \in Fd : Watched(g)' = Watched(g)
  BY SameData DEF LoopInv, ClientSends
<1>2. Types'
  BY DEF LoopInv, Types, ClientSends
<1>3. EventsOK' /\ MapOK' /\ ScanOK'
  <2>1. /\ auto' = auto /\ list' = list /\ events' = events /\ open \subseteq open'
        /\ pc' \in {"wait", "run"} => DueTargets = {}
    BY DEF LoopInv, ScanOK, ClientSends
  <2>2. EventsOK' /\ MapOK' /\ ActivatesLiveChannels'
    BY <1>1, <2>1, Keeps
  <2> QED BY <1>1, <2>1, <2>2 DEF ScanOK
<1>4. TasksOK'
  <2>1. \A i \in 1 .. Len(tasks) : tasks[i].fd \in Fd
    BY TaskIs DEF LoopInv, Types
  <2> QED BY <1>1, <2>1 DEF LoopInv, TasksOK, ClientSends
<1>5. WatchedAsAsked'
  BY <1>1 DEF LoopInv, WatchedAsAsked, Queued, ClientSends
<1> QED BY <1>1, <1>2, <1>3, <1>4, <1>5 DEF LoopInv

LEMMA EndTasksStep ==
  ASSUME LoopInv, EndTasks
  PROVE  LoopInv'
<1>1. DataOK' /\ DueTargets' = DueTargets /\ \A g \in Fd : Watched(g)' = Watched(g)
  BY SameData DEF LoopInv, EndTasks, connVars
<1>2. Types'
  BY DEF LoopInv, Types, EndTasks, connVars
<1>3. EventsOK' /\ MapOK' /\ ScanOK'
  <2>1. /\ auto' = auto /\ list' = list /\ events' = events /\ open \subseteq open'
        /\ pc' \in {"wait", "run"} => DueTargets = {}
    BY DEF LoopInv, ScanOK, EndTasks, connVars
  <2>2. EventsOK' /\ MapOK' /\ ActivatesLiveChannels'
    BY <1>1, <2>1, Keeps
  <2> QED BY <1>1, <2>1, <2>2 DEF ScanOK
<1>4. TasksOK'
  BY DEF TasksOK, EndTasks
<1>5. WatchedAsAsked'
  BY <1>1 DEF LoopInv, WatchedAsAsked, Queued, EndTasks, connVars
<1> QED BY <1>1, <1>2, <1>3, <1>4, <1>5 DEF LoopInv

LEMMA EndScanStep ==
  ASSUME LoopInv, EndScan
  PROVE  LoopInv'
<1>1. /\ DataOK' /\ \A g \in Fd : Watched(g)' = Watched(g)
      /\ DueTargets' = {} /\ at' \in Nat
  BY DoneIs DEF LoopInv, Types
<1>2. Types'
  BY <1>1 DEF LoopInv, Types, EndScan, connVars
<1>3. EventsOK' /\ MapOK' /\ ScanOK'
  BY <1>1 DEF LoopInv, EventsOK, MapOK, ScanOK, ActivatesLiveChannels, EndScan, connVars
<1>4. TasksOK'
  BY OnlyAdds DEF LoopInv, TasksOK, EndScan, connVars
<1>5. WatchedAsAsked'
  BY <1>1, OnlyAdds DEF WatchedAsAsked, EndScan, connVars
<1> QED BY <1>1, <1>2, <1>3, <1>4, <1>5 DEF LoopInv

(* Nothing that is closed is still watched, so select(2) does not fail.     *)
LEMMA SelectNeverFails ==
  ASSUME LoopInv, kind = "select"
  PROVE  ~selectFails(data, open)
<1>1. data.set["in"] \in SUBSET Fd /\ data.set["out"] \in SUBSET Fd
  BY DEF LoopInv, DataOK, SelectData, Event
<1>2. \A f \in Fd, e \in Event : f \in data.set[e] => f \in open
  BY WatchedIs DEF LoopInv, MapOK, selectWatched
<1> QED BY <1>1, <1>2 DEF selectFails, Event

LEMMA HoldsType == ASSUME input \in [Fd -> Input] PROVE Holds \in [Fd -> SUBSET Event]
BY DEF Holds, Event

LEMMA WaitStep ==
  ASSUME LoopInv, WaitReturns
  PROVE  LoopInv'
<1>1. /\ DataOK' /\ \A g \in Fd : Watched(g)' = Watched(g)
      /\ DueTargets' \subseteq {t \in Fd \X Event : t[2] \in Watched(t[1]) \cap Holds[t[1]]}
  BY WaitIs, HoldsType DEF LoopInv, Types
<1>2. pc = "wait" /\ pc' = "scan" /\ at' = 0
  BY SelectNeverFails DEF WaitReturns
<1>3. Types'
  <2>1. UNCHANGED <<kind, auto, tasks, connVars>>
    BY DEF WaitReturns
  <2>2. UNCHANGED <<kind, auto, tasks, open, list, left, events, input>>
    BY <2>1 DEF connVars
  <2> QED BY <1>2, <2>2 DEF LoopInv, Types
<1>4. EventsOK' /\ MapOK'
  BY <1>1 DEF LoopInv, EventsOK, MapOK, WaitReturns, connVars
<1>5. ScanOK'
  <2>1. \A t \in DueTargets' : t[1] \in Fd /\ t[2] \in Watched(t[1])
    BY <1>1
  <2>2. \A t \in DueTargets' : t[1] \in list' \cap open' /\ t[2] \in Watched(t[1])'
    BY <1>1, <2>1 DEF LoopInv, MapOK, WaitReturns, connVars
  <2> QED BY <1>2, <2>2 DEF ScanOK, ActivatesLiveChannels
<1>6. TasksOK'
  BY <1>2, OnlyAdds DEF LoopInv, TasksOK, WaitReturns, connVars
<1>7. WatchedAsAsked'
  BY <1>1, <1>2, OnlyAdds DEF WatchedAsAsked, WaitReturns, connVars
<1> QED BY <1>1, <1>3, <1>4, <1>5, <1>6, <1>7 DEF LoopInv

(* What is to be activated next is live. *)
LEMMA ActivationStep ==
  ASSUME LoopInv, NEW f, NEW e, Activates(f, e), UNCHANGED <<kind, auto, data, open, list>>
  PROVE  /\ f \in Fd /\ f \in list \cap open /\ e \in Watched(f) /\ pc = "scan"
         /\ DataOK' /\ at' \in Nat /\ \A g \in Fd : Watched(g)' = Watched(g)
         /\ <<f, e>> \in DueTargets /\ DueTargets' = DueTargets \ {<<f, e>>}
         /\ \A t \in DueTargets' : t[1] = f => e = "in" /\ t[2] = "out"
         /\ MapOK' /\ ActivatesLiveChannels'
<1>1. /\ <<f, e>> \in DueTargets /\ DueTargets' = DueTargets \ {<<f, e>>}
      /\ \A t \in DueTargets' : t[1] = f => e = "in" /\ t[2] = "out"
      /\ DataOK' /\ at' \in Nat /\ \A g \in Fd : Watched(g)' = Watched(g)
  BY ActivateIs DEF LoopInv, Types
<1>2. \A t \in DueTargets : t[1] \in list \cap open /\ t[2] \in Watched(t[1]) /\ t[1] \in Fd
  BY DEF LoopInv, ScanOK, ActivatesLiveChannels, Types
<1>3. f \in list \cap open /\ e \in Watched(f) /\ f \in Fd
  BY <1>1, <1>2
<1>4. MapOK'
  BY <1>1 DEF LoopInv, MapOK
<1>5. ActivatesLiveChannels'
  BY <1>1, <1>2 DEF ActivatesLiveChannels
<1>6. pc = "scan"
  BY DEF Activates
<1> QED BY <1>1, <1>3, <1>4, <1>5, <1>6

(* A callback queues a task for its own descriptor at the most.             *)
LEMMA OwnTaskStep ==
  ASSUME LoopInv, NEW f \in Fd, NEW e, Activates(f, e),
         UNCHANGED <<kind, auto, data, open, list>>,
         NEW type \in {"MODIFY", "DELETE"}, OwnTask(type, f),
         type = "DELETE" => \A t \in DueTargets' : t[1] # f
  PROVE  TasksOK' /\ tasks' \in Seq(Task) /\ Queued(type, f)'
<1>1. /\ e \in Watched(f) /\ pc = "scan" /\ \A g \in Fd : Watched(g)' = Watched(g)
  BY ActivationStep
<1> DEFINE new == [type |-> type, fd |-> f]
<1>2. new \in Task /\ new.type = type /\ new.fd = f
  BY DEF Task
<1>3. tasks' = Append(tasks, new) /\ tasks \in Seq(Task) /\ pc' = "own"
  BY DEF LoopInv, Types, OwnTask
<1>4. Queued(type, f)' = \E i \in DOMAIN tasks' : tasks'[i] = new
  BY DEF Queued
<1> HIDE DEF new
<1>5. /\ tasks' \in Seq(Task) /\ Len(tasks') = Len(tasks) + 1 /\ Len(tasks) \in Nat
      /\ \A i \in 1 .. Len(tasks) : tasks'[i] = tasks[i]
  BY <1>2, <1>3
<1>6. tasks'[Len(tasks) + 1] = new
  BY <1>2, <1>3
<1>7. \A i \in 1 .. Len(tasks') : i \in 1 .. Len(tasks) \/ i = Len(tasks) + 1
  BY <1>5
<1>8. /\ \A i \in 1 .. Len(tasks) : tasks[i].type = "ADD" /\ tasks[i].fd \in open \ list
      /\ \A i, j \in 1 .. Len(tasks) : tasks[j].fd = tasks[i].fd => j = i
  <2>1. \A i \in 1 .. Len(tasks) : tasks[i].type = "ADD"
    BY <1>1, OnlyAdds
  <2> QED BY <2>1 DEF LoopInv, TasksOK
<1>9. ASSUME NEW i \in 1 .. Len(tasks')
      PROVE  /\ tasks'[i].type = "ADD" =>
                  /\ tasks'[i].fd \in open' \ list'
                  /\ \A j \in 1 .. Len(tasks') :
                       tasks'[j].type = "ADD" /\ tasks'[j].fd = tasks'[i].fd => j = i
             /\ tasks'[i].type # "ADD" => i = Len(tasks') /\ tasks'[i] = new
  <2>1. CASE i \in 1 .. Len(tasks)
    <3>1. tasks'[i] = tasks[i] /\ tasks'[i].type = "ADD" /\ tasks'[i].fd \in open' \ list'
      BY <1>5, <1>8, <2>1
    <3>2. ASSUME NEW j \in 1 .. Len(tasks'), tasks'[j].type = "ADD", tasks'[j].fd = tasks'[i].fd
          PROVE  j = i
      <4>1. j \in 1 .. Len(tasks)
        BY <1>2, <1>6, <1>7, <3>2
      <4> QED BY <1>5, <1>8, <2>1, <3>2, <4>1
    <3> QED BY <3>1, <3>2
  <2>2. CASE i = Len(tasks) + 1
    <3>1. tasks'[i] = new /\ i = Len(tasks')
      BY <1>5, <1>6, <2>2
    <3> QED BY <1>2, <3>1
  <2> QED BY <1>7, <2>1, <2>2
<1>10. TasksOK'
  <2>1. \A i \in 1 .. Len(tasks') :
          tasks'[i] = new => Watched(f)' # {} /\ tasks'[i].fd = f /\ tasks'[i].type = type
    BY <1>1, <1>2
  <2> QED BY <1>3, <1>9, <2>1 DEF TasksOK
<1>11. Queued(type, f)'
  BY <1>4, <1>5, <1>6
<1> QED BY <1>5, <1>10, <1>11

LEMMA ReadStep ==
  ASSUME LoopInv, NEW f \in Fd, processRead(f)
  PROVE  LoopInv'
<1>1. /\ Activates(f, "in") /\ UNCHANGED <<kind, auto, data, open, list>>
  BY DEF processRead
<1>2. /\ "in" \in Watched(f) /\ pc = "scan"
      /\ DataOK' /\ at' \in Nat /\ \A g \in Fd : Watched(g)' = Watched(g)
      /\ DueTargets' = DueTargets \ {<<f, "in">>}
      /\ \A t \in DueTargets' : t[1] = f => t[2] = "out"
      /\ MapOK' /\ ActivatesLiveChannels'
  BY <1>1, ActivationStep
<1>3. ~auto => \A t \in DueTargets' : t[1] # f
  <2>1. \A t \in DueTargets' : t[2] \in Watched(t[1])
    BY <1>2 DEF LoopInv, ScanOK, ActivatesLiveChannels
  <2>2. ~auto => Watched(f) \subseteq {"in"}
    BY DEF LoopInv, EventsOK
  <2> QED BY <1>2, <2>1, <2>2
<1>4. \/ ~auto /\ OwnTask("DELETE", f) /\ events' = events
      \/ auto /\ OwnTask("MODIFY", f) /\ events' = [events EXCEPT ![f] = events[f] \cup {"out"}]
      \/ auto /\ NoTask /\ events' = events
  BY DEF processRead, writeEventEnable
<1>5. input' \in [Fd -> Input] /\ left' \in SUBSET Fd
  BY DEF processRead, LoopInv, Types, Input
<1>6. events' \in [Fd -> SUBSET Event] /\ EventsOK'
  <2>1. /\ events \in [Fd -> SUBSET Event] /\ \A g \in Fd : "in" \in events[g] /\ Watched(g) \subseteq events[g]
        /\ ~auto => \A g \in Fd : events[g] = {"in"}
    BY DEF LoopInv, Types, EventsOK
  <2>2. CASE events' = events
    BY <1>1, <1>2, <2>1, <2>2 DEF EventsOK
  <2>3. CASE auto /\ events' = [events EXCEPT ![f] = events[f] \cup {"out"}]
    <3>1. events' \in [Fd -> SUBSET Event]
      BY <2>1, <2>3 DEF Event
    <3>2. \A g \in Fd : events[g] \subseteq events'[g]
      BY <2>1, <2>3
    <3> QED BY <1>1, <1>2, <2>1, <2>3, <3>1, <3>2 DEF EventsOK
  <2> QED BY <1>4, <2>2, <2>3
<1>7. /\ TasksOK' /\ tasks' \in Seq(Task) /\ pc' \in {"scan", "own"}
      /\ events' # events => Queued("MODIFY", f)'
  <2>1. CASE ~auto /\ OwnTask("DELETE", f) /\ events' = events
    <3>1. TasksOK' /\ tasks' \in Seq(Task)
      BY <1>1, <1>3, <2>1, OwnTaskStep
    <3> QED BY <2>1, <3>1 DEF OwnTask
  <2>2. CASE auto /\ OwnTask("MODIFY", f)
    <3>1. TasksOK' /\ tasks' \in Seq(Task) /\ Queued("MODIFY", f)'
      BY <1>1, <2>2, OwnTaskStep
    <3> QED BY <2>2, <3>1 DEF OwnTask
  <2>3. CASE NoTask /\ events' = events
    BY <1>1, <1>2, <2>3, OnlyAdds DEF NoTask, TasksOK, LoopInv, Types
  <2> QED BY <1>4, <2>1, <2>2, <2>3
<1>8. WatchedAsAsked'
  <2>1. \A g \in Fd : Watched(g) \in {{}, events[g]}
    BY <1>2, OnlyAdds
  <2>2. \A g \in Fd \ {f} : events'[g] = events[g]
    BY <1>4 DEF LoopInv, Types
  <2>3. \A g \in Fd : Watched(g)' \in {{}, events'[g]} \/ Queued("MODIFY", g)'
    <3>1. CASE events' = events
      BY <1>2, <2>1, <3>1
    <3>2. CASE events' # events
      BY <1>2, <1>7, <2>1, <2>2, <3>2
    <3> QED BY <3>1, <3>2
  <2> QED BY <2>3 DEF WatchedAsAsked
<1>9. Types'
  BY <1>1, <1>2, <1>5, <1>6, <1>7 DEF LoopInv, Types
<1>10. ScanOK'
  BY <1>2, <1>7 DEF ScanOK
<1> QED BY <1>2, <1>6, <1>7, <1>8, <1>9, <1>10 DEF LoopInv

LEMMA WriteStep ==
  ASSUME LoopInv, NEW f \in Fd, processWrite(f)
  PROVE  LoopInv'
<1>1. /\ Activates(f, "out") /\ UNCHANGED <<kind, auto, data, open, list, events, left, input>>
  BY DEF processWrite, connVars
<1>2. /\ pc = "scan" /\ DataOK' /\ at' \in Nat /\ \A g \in Fd : Watched(g)' = Watched(g)
      /\ \A t \in DueTargets' : t[1] # f
      /\ MapOK' /\ ActivatesLiveChannels'
  BY <1>1, ActivationStep
<1>3. NoTask \/ OwnTask("DELETE", f)
  BY DEF processWrite
<1>4. TasksOK' /\ tasks' \in Seq(Task) /\ pc' \in {"scan", "own"}
  <2>1. CASE OwnTask("DELETE", f)
    <3>1. TasksOK' /\ tasks' \in Seq(Task)
      BY <1>1, <1>2, <2>1, OwnTaskStep
    <3> QED BY <2>1, <3>1 DEF OwnTask
  <2>2. CASE NoTask
    BY <1>1, <1>2, <2>2, OnlyAdds DEF NoTask, TasksOK, LoopInv, Types
  <2> QED BY <1>3, <2>1, <2>2
<1>5. EventsOK'
  BY <1>1, <1>2 DEF LoopInv, EventsOK
<1>6. Types'
  BY <1>1, <1>2, <1>4 DEF LoopInv, Types
<1>7. WatchedAsAsked'
  BY <1>1, <1>2, OnlyAdds DEF WatchedAsAsked
<1>8. ScanOK'
  BY <1>2, <1>4 DEF ScanOK
<1> QED BY <1>2, <1>4, <1>5, <1>6, <1>7, <1>8 DEF LoopInv

(* epoll_ctl accepts what the loop asks of it.                              *)
LEMMA NeverRefusedByKernel ==
  ASSUME LoopInv, NEW t \in Task, (t.type = "ADD") = (Watched(t.fd) = {})
  PROVE  ~exits(t)
BY WatchedIs DEF exits, epollCtlFails

LEMMA FirstTask ==
  ASSUME LoopInv, NEW type, Runs(type)
  PROVE  /\ Head(tasks) = tasks[1] /\ tasks[1] \in Task /\ tasks[1].type = type
         /\ tasks[1].fd \in Fd /\ 1 \in 1 .. Len(tasks)
         /\ Tail(tasks) \in Seq(Task) /\ Len(Tail(tasks)) = Len(tasks) - 1 /\ Len(tasks) \in Nat
         /\ \A i \in 1 .. Len(Tail(tasks)) : i + 1 \in 1 .. Len(tasks) /\ Tail(tasks)[i] = tasks[i + 1]
<1>1. tasks \in Seq(Task) /\ tasks # <<>> /\ Head(tasks).type = type
  BY DEF LoopInv, Types, Runs
<1>2. 1 \in 1 .. Len(tasks) /\ Head(tasks) = tasks[1] /\ Len(tasks) \in Nat
  BY <1>1
<1>3. tasks[1] \in Task /\ tasks[1].fd \in Fd
  BY <1>1, <1>2, TaskIs
<1>4. /\ Tail(tasks) \in Seq(Task) /\ Len(Tail(tasks)) = Len(tasks) - 1
      /\ \A i \in 1 .. Len(Tail(tasks)) : i + 1 \in 1 .. Len(tasks) /\ Tail(tasks)[i] = tasks[i + 1]
  BY <1>1
<1> QED BY <1>1, <1>2, <1>3, <1>4

(* What an ADD does: it is never skipped, and never fails.                  *)
LEMMA AddDoes ==
  ASSUME LoopInv, eventLoopAdd, NEW f, f = Head(tasks).fd
  PROVE  /\ f \in Fd /\ f \in open \ list /\ Watched(f) = {}
         /\ list' = list \cup {f} /\ tasks' = Tail(tasks)
         /\ UNCHANGED <<kind, auto, pc, at, open, events, left, input>>
         /\ DataOK' /\ DueTargets' = DueTargets
         /\ Watched(f)' = IF Refused(f) THEN {} ELSE events[f]
         /\ \A g \in Fd \ {f} : Watched(g)' = Watched(g)
<1>1. Runs("ADD")
  BY DEF eventLoopAdd
<1>2. /\ Head(tasks) = tasks[1] /\ tasks[1] \in Task /\ tasks[1].type = "ADD"
      /\ f = tasks[1].fd /\ f \in Fd /\ 1 \in 1 .. Len(tasks)
  BY <1>1, FirstTask
<1>3. f \in open \ list
  BY <1>2 DEF LoopInv, TasksOK
<1>4. Watched(f) = {}
  BY <1>2, <1>3 DEF LoopInv, MapOK
<1>5. ~exits(Head(tasks))
  BY <1>2, <1>4, NeverRefusedByKernel
<1>6. list' = list \cup {f} /\ Apply(add(f)) /\ UNCHANGED <<open, events, left, input>>
  BY <1>3 DEF eventLoopAdd
<1>7. tasks' = Tail(tasks) /\ data' = add(f) /\ UNCHANGED <<kind, auto, pc, at>>
  BY <1>5, <1>6 DEF Apply
<1>8. events[f] \in SUBSET Event /\ "in" \in events[f] /\ at \in Nat /\ DataOK
  BY <1>2 DEF LoopInv, Types, EventsOK
<1>9. /\ DataOK' /\ DueTargets' = DueTargets
      /\ Watched(f)' = IF Refused(f) THEN {} ELSE events[f]
      /\ \A g \in Fd \ {f} : Watched(g)' = Watched(g)
  BY <1>2, <1>4, <1>7, <1>8, AddIs
<1> QED BY <1>2, <1>3, <1>4, <1>6, <1>7, <1>9

LEMMA AddStep ==
  ASSUME LoopInv, eventLoopAdd
  PROVE  LoopInv'
<1>0. PICK f : f = Head(tasks).fd
  OBVIOUS
<1>1. /\ f \in Fd /\ f \in open \ list /\ Watched(f) = {}
      /\ list' = list \cup {f} /\ tasks' = Tail(tasks)
      /\ UNCHANGED <<kind, auto, pc, at, open, events, left, input>>
      /\ DataOK' /\ DueTargets' = DueTargets
      /\ Watched(f)' \in {{}, events[f]}
      /\ \A g \in Fd \ {f} : Watched(g)' = Watched(g)
  BY <1>0, AddDoes
<1>2. /\ f = tasks[1].fd /\ tasks[1].type = "ADD" /\ 1 \in 1 .. Len(tasks)
      /\ tasks' \in Seq(Task) /\ Len(tasks') = Len(tasks) - 1 /\ Len(tasks) \in Nat
      /\ \A i \in 1 .. Len(tasks') : i + 1 \in 1 .. Len(tasks) /\ tasks'[i] = tasks[i + 1]
  BY <1>0, <1>1, FirstTask DEF eventLoopAdd
<1>3. Types'
  BY <1>1, <1>2 DEF LoopInv, Types
<1>4. EventsOK'
  <2>1. \A g \in Fd : Watched(g)' \subseteq events[g]
    BY <1>1 DEF LoopInv, EventsOK
  <2> QED BY <1>1, <2>1 DEF LoopInv, EventsOK
<1>5. MapOK'
  BY <1>1 DEF LoopInv, MapOK
<1>6. ScanOK'
  <2>1. ASSUME NEW t \in DueTargets PROVE t[1] \in list' \cap open' /\ t[2] \in Watched(t[1])'
    <3>1. t[1] \in list \cap open /\ t[2] \in Watched(t[1]) /\ t[1] \in Fd
      BY DEF LoopInv, ScanOK, ActivatesLiveChannels, Types
    <3> QED BY <1>1, <3>1
  <2> QED BY <1>1, <2>1 DEF LoopInv, ScanOK, ActivatesLiveChannels
<1>7. TasksOK'
  <2> SUFFICES ASSUME NEW i \in 1 .. Len(tasks')
               PROVE  /\ tasks'[i].type = "ADD" =>
                           /\ tasks'[i].fd \in open' \ list'
                           /\ \A j \in 1 .. Len(tasks') :
                                tasks'[j].type = "ADD" /\ tasks'[j].fd = tasks'[i].fd => j = i
                      /\ tasks'[i].type # "ADD" =>
                           pc' = "own" /\ i = Len(tasks') /\ (Watched(tasks[i].fd) # {})'
                      /\ tasks'[i].type = "DELETE" => \A t \in DueTargets' : t[1] # tasks'[i].fd
    BY DEF TasksOK
  <2>1. i + 1 \in 1 .. Len(tasks) /\ i + 1 # 1 /\ tasks'[i] = tasks[i + 1] /\ i \in Nat
    BY <1>2
  <2>2. tasks[i + 1].fd \in Fd
    BY <2>1, TaskIs DEF LoopInv, Types
  <2>3. tasks'[i].type = "ADD" => tasks'[i].fd \in open' \ list'
    BY <1>1, <1>2, <2>1 DEF LoopInv, TasksOK
  <2>4. ASSUME NEW j \in 1 .. Len(tasks'), tasks'[i].type = "ADD",
               tasks'[j].type = "ADD", tasks'[j].fd = tasks'[i].fd
        PROVE  j = i
    <3>1. j + 1 \in 1 .. Len(tasks) /\ tasks'[j] = tasks[j + 1] /\ j \in Nat
      BY <1>2
    <3>2. j + 1 = i + 1
      BY <2>1, <2>4, <3>1 DEF LoopInv, TasksOK
    <3> QED BY <2>1, <3>1, <3>2
  <2>5. tasks'[i].type # "ADD" => pc' = "own" /\ i = Len(tasks') /\ Watched(tasks[i + 1].fd) # {}
    <3>1. tasks[i + 1].type # "ADD" => pc = "own" /\ i + 1 = Len(tasks) /\ Watched(tasks[i + 1].fd) # {}
      BY <2>1 DEF LoopInv, TasksOK
    <3>2. i + 1 = Len(tasks) => i = Len(tasks')
      BY <1>2, <2>1
    <3> QED BY <1>1, <2>1, <3>1, <3>2
  <2>6. PICK g \in Fd : g = tasks[i + 1].fd
    BY <2>2
  <2>7. Watched(g) # {} => Watched(g)' # {}
    BY <1>1
  <2>8. (Watched(tasks[i].fd) # {})' <=> Watched(g)' # {}
    BY <2>1, <2>6
  <2>9. tasks'[i].type = "DELETE" => \A t \in DueTargets' : t[1] # tasks'[i].fd
    BY <1>1, <2>1 DEF LoopInv, TasksOK
  <2> QED BY <2>3, <2>4, <2>5, <2>6, <2>7, <2>8, <2>9
<1>8. WatchedAsAsked'
  <2>1. ASSUME NEW g \in Fd, Queued("MODIFY", g) PROVE Queued("MODIFY", g)'
    <3>1. PICK i \in 1 .. Len(tasks) : tasks[i].type = "MODIFY" /\ tasks[i] = [type |-> "MODIFY", fd |-> g]
      BY <2>1 DEF Queued, LoopInv, Types
    <3>2. i # 1
      BY <1>2, <3>1
    <3>3. i - 1 \in 1 .. Len(tasks') /\ tasks'[i - 1] = tasks[i]
      BY <1>2, <3>2
    <3>4. i - 1 \in DOMAIN tasks'
      BY <1>2, <3>3
    <3> QED BY <3>1, <3>3, <3>4 DEF Queued
  <2>2. \A g \in Fd : Watched(g)' \in {{}, events'[g]} \/ Queued("MODIFY", g)'
    BY <1>1, <2>1 DEF LoopInv, WatchedAsAsked
  <2> QED BY <2>2 DEF WatchedAsAsked
<1> QED BY <1>1, <1>3, <1>4, <1>5, <1>6, <1>7, <1>8 DEF LoopInv

LEMMA ModifyDoes ==
  ASSUME LoopInv, eventLoopModify, NEW f, f = Head(tasks).fd
  PROVE  /\ f \in Fd /\ f \in list /\ Watched(f) # {}
         /\ tasks' = <<>>
         /\ UNCHANGED <<kind, auto, pc, at, open, list, events, left, input>>
         /\ DataOK' /\ DueTargets' = DueTargets
         /\ Watched(f)' = events[f] /\ "in" \in events[f]
         /\ \A g \in Fd \ {f} : Watched(g)' = Watched(g)
<1>1. Runs("MODIFY")
  BY DEF eventLoopModify
<1>2. /\ Head(tasks) = tasks[1] /\ tasks[1] \in Task /\ tasks[1].type = "MODIFY"
      /\ f = tasks[1].fd /\ f \in Fd /\ 1 \in 1 .. Len(tasks)
      /\ Tail(tasks) \in Seq(Task) /\ Len(Tail(tasks)) = Len(tasks) - 1
  BY <1>1, FirstTask
<1>3. 1 = Len(tasks) /\ Watched(f) # {}
  BY <1>2 DEF LoopInv, TasksOK
<1>4. f \in list
  BY <1>2, <1>3 DEF LoopInv, MapOK
<1>5. ~exits(Head(tasks))
  BY <1>2, <1>3, NeverRefusedByKernel
<1>6. Apply(modify(f)) /\ UNCHANGED connVars
  BY <1>4 DEF eventLoopModify
<1>7. /\ tasks' = <<>> /\ data' = modify(f)
      /\ UNCHANGED <<kind, auto, pc, at, open, list, events, left, input>>
  BY <1>2, <1>3, <1>5, <1>6 DEF Apply, connVars
<1>8. events[f] \in SUBSET Event /\ "in" \in events[f] /\ at \in Nat /\ DataOK /\ Watched(f) \subseteq events[f]
  BY <1>2 DEF LoopInv, Types, EventsOK
<1>9. /\ DataOK' /\ DueTargets' = DueTargets /\ Watched(f)' = events[f]
      /\ \A g \in Fd \ {f} : Watched(g)' = Watched(g)
  BY <1>2, <1>3, <1>7, <1>8, ModifyIs
<1> QED BY <1>2, <1>3, <1>4, <1>7, <1>8, <1>9

LEMMA ModifyStep ==
  ASSUME LoopInv, eventLoopModify
  PROVE  LoopInv'
<1>0. PICK f : f = Head(tasks).fd
  OBVIOUS
<1>1. /\ f \in Fd /\ f \in list /\ Watched(f) # {}
      /\ tasks' = <<>>
      /\ UNCHANGED <<kind, auto, pc, at, open, list, events, left, input>>
      /\ DataOK' /\ DueTargets' = DueTargets
      /\ Watched(f)' = events[f]
      /\ \A g \in Fd \ {f} : Watched(g)' = Watched(g)
  BY <1>0, ModifyDoes
<1>2. Types'
  BY <1>1 DEF LoopInv, Types
<1>3. \A g \in Fd : Watched(g) \subseteq Watched(g)' /\ Watched(g)' \subseteq events[g]
  BY <1>1 DEF LoopInv, EventsOK
<1>4. EventsOK'
  BY <1>1, <1>3 DEF LoopInv, EventsOK
<1>5. MapOK'
  BY <1>1 DEF LoopInv, MapOK
<1>6. ScanOK'
  <2>1. ASSUME NEW t \in DueTargets PROVE t[1] \in list' \cap open' /\ t[2] \in Watched(t[1])'
    <3>1. t[1] \in list \cap open /\ t[2] \in Watched(t[1]) /\ t[1] \in Fd
      BY DEF LoopInv, ScanOK, ActivatesLiveChannels, Types
    <3> QED BY <1>1, <1>3, <3>1
  <2> QED BY <1>1, <2>1 DEF LoopInv, ScanOK, ActivatesLiveChannels
<1>7. TasksOK'
  BY <1>1 DEF TasksOK
<1>8. WatchedAsAsked'
  <2>1. ASSUME NEW g \in Fd PROVE Watched(g)' \in {{}, events'[g]}
    <3>1. CASE g = f
      BY <1>1, <3>1
    <3>2. CASE g # f
      <4>1. ~Queued("MODIFY", g)
        <5>1. Len(tasks) = 1 /\ tasks[1].fd = f
          <6>1. /\ Head(tasks) = tasks[1] /\ tasks[1].type = "MODIFY" /\ 1 \in 1 .. Len(tasks)
            BY FirstTask DEF eventLoopModify
          <6> QED BY <1>0, <6>1 DEF LoopInv, TasksOK
        <5> QED BY <3>2, <5>1 DEF Queued, LoopInv, Types
      <4> QED BY <1>1, <3>2, <4>1 DEF LoopInv, WatchedAsAsked
    <3> QED BY <3>1, <3>2
  <2> QED BY <2>1 DEF WatchedAsAsked
<1> QED BY <1>1, <1>2, <1>4, <1>5, <1>6, <1>7, <1>8 DEF LoopInv

LEMMA RemoveDoes ==
  ASSUME LoopInv, eventLoopRemove, NEW f, f = Head(tasks).fd
  PROVE  /\ f \in Fd /\ f \in list /\ Watched(f) # {} /\ Head(tasks).type = "DELETE"
         /\ tasks' = <<>> /\ UNCHANGED <<kind, auto, pc, at, left>>
         /\ open' \in {open, open \ {f}} /\ list' = IF open' = open THEN list ELSE list \ {f}
         /\ events' = [events EXCEPT ![f] = {"in"}] /\ input' = [input EXCEPT ![f] = "quiet"]
         /\ DataOK' /\ DueTargets' = DueTargets /\ \A t \in DueTargets : t[1] # f
         /\ Watched(f)' = {}
         /\ \A g \in Fd \ {f} : Watched(g)' = Watched(g)
<1>1. Runs("DELETE")
  BY DEF eventLoopRemove
<1>2. /\ Head(tasks) = tasks[1] /\ tasks[1] \in Task /\ tasks[1].type = "DELETE"
      /\ f = tasks[1].fd /\ f \in Fd /\ 1 \in 1 .. Len(tasks)
      /\ Tail(tasks) \in Seq(Task) /\ Len(Tail(tasks)) = Len(tasks) - 1
  BY <1>1, FirstTask
<1>3. 1 = Len(tasks) /\ Watched(f) # {} /\ \A t \in DueTargets : t[1] # f
  BY <1>2 DEF LoopInv, TasksOK
<1>4. f \in list /\ f \in open
  BY <1>2, <1>3 DEF LoopInv, MapOK
<1>5. ~exits(Head(tasks))
  BY <1>2, <1>3, NeverRefusedByKernel
<1>6. Apply(remove(f)) /\ destoryCallback(f) /\ Forget(f) /\ left' = left
  BY <1>5 DEF eventLoopRemove
<1>7. tasks' = <<>> /\ data' = remove(f) /\ UNCHANGED <<kind, auto, pc, at>>
  BY <1>2, <1>3, <1>5, <1>6 DEF Apply
<1>8. events[f] \in SUBSET Event /\ at \in Nat /\ DataOK /\ Watched(f) \subseteq events[f]
  BY <1>2 DEF LoopInv, Types, EventsOK
<1>9. /\ DataOK' /\ DueTargets' = DueTargets /\ Watched(f)' = {}
      /\ \A g \in Fd \ {f} : Watched(g)' = Watched(g)
  BY <1>2, <1>3, <1>7, <1>8, RemoveIs
<1>10. open' \in {open, open \ {f}} /\ list' = IF open' = open THEN list ELSE list \ {f}
  BY <1>4, <1>6 DEF destoryCallback
<1>11. events' = [events EXCEPT ![f] = {"in"}] /\ input' = [input EXCEPT ![f] = "quiet"]
  BY <1>6 DEF Forget
<1> QED BY <1>2, <1>3, <1>4, <1>6, <1>7, <1>9, <1>10, <1>11

LEMMA RemoveStep ==
  ASSUME LoopInv, eventLoopRemove
  PROVE  LoopInv'
<1>0. PICK f : f = Head(tasks).fd
  OBVIOUS
<1>1. /\ f \in Fd /\ f \in list /\ Watched(f) # {}
      /\ tasks' = <<>> /\ UNCHANGED <<kind, auto, pc, at, left>>
      /\ open' \in {open, open \ {f}} /\ list' = IF open' = open THEN list ELSE list \ {f}
      /\ events' = [events EXCEPT ![f] = {"in"}] /\ input' = [input EXCEPT ![f] = "quiet"]
      /\ DataOK' /\ DueTargets' = DueTargets /\ \A t \in DueTargets : t[1] # f
      /\ Watched(f)' = {}
      /\ \A g \in Fd \ {f} : Watched(g)' = Watched(g)
  BY <1>0, RemoveDoes
<1>2. events' \in [Fd -> SUBSET Event] /\ input' \in [Fd -> Input]
  BY <1>1 DEF LoopInv, Types, Event, Input
<1>3. Types'
  BY <1>1, <1>2 DEF LoopInv, Types
<1>4. EventsOK'
  <2>1. events \in [Fd -> SUBSET Event]
    BY DEF LoopInv, Types
  <2>2. events'[f] = {"in"} /\ \A g \in Fd \ {f} : events'[g] = events[g]
    BY <1>1, <2>1
  <2> QED BY <1>1, <2>2 DEF LoopInv, EventsOK
<1>5. MapOK'
  BY <1>1 DEF LoopInv, MapOK
<1>6. ScanOK'
  <2>1. ASSUME NEW t \in DueTargets PROVE t[1] \in list' \cap open' /\ t[2] \in Watched(t[1])'
    <3>1. t[1] \in list \cap open /\ t[2] \in Watched(t[1]) /\ t[1] \in Fd /\ t[1] # f
      BY <1>1 DEF LoopInv, ScanOK, ActivatesLiveChannels, Types
    <3> QED BY <1>1, <3>1
  <2> QED BY <1>1, <2>1 DEF LoopInv, ScanOK, ActivatesLiveChannels
<1>7. TasksOK'
  BY <1>1 DEF TasksOK
<1>8. WatchedAsAsked'
  <2>1. ASSUME NEW g \in Fd PROVE Watched(g)' \in {{}, events'[g]}
    <3>1. CASE g = f
      BY <1>1, <3>1
    <3>2. CASE g # f
      <4>1. ~Queued("MODIFY", g)
        <5>1. Len(tasks) = 1 /\ tasks[1].fd = f
          <6>1. /\ Head(tasks) = tasks[1] /\ tasks[1].type = "DELETE" /\ 1 \in 1 .. Len(tasks)
            BY FirstTask DEF eventLoopRemove
          <6> QED BY <1>0, <6>1 DEF LoopInv, TasksOK
        <5> QED BY <3>2, <5>1 DEF Queued, LoopInv, Types
      <4>2. events'[g] = events[g]
        BY <1>1, <3>2 DEF LoopInv, Types
      <4> QED BY <1>1, <3>2, <4>1, <4>2 DEF LoopInv, WatchedAsAsked
    <3> QED BY <3>1, <3>2
  <2> QED BY <2>1 DEF WatchedAsAsked
<1> QED BY <1>1, <1>3, <1>4, <1>5, <1>6, <1>7, <1>8 DEF LoopInv

LEMMA InvNext == LoopInv /\ [Next]_vars => LoopInv'
<1> SUFFICES ASSUME LoopInv, [Next]_vars PROVE LoopInv'
  OBVIOUS
<1>1. CASE WaitReturns
  BY <1>1, WaitStep
<1>2. ASSUME NEW f \in Fd, processRead(f) PROVE LoopInv'
  BY <1>2, ReadStep
<1>3. ASSUME NEW f \in Fd, processWrite(f) PROVE LoopInv'
  BY <1>3, WriteStep
<1>4. CASE EndScan
  BY <1>4, EndScanStep
<1>5. CASE eventLoopAdd
  BY <1>5, AddStep
<1>6. CASE eventLoopModify
  BY <1>6, ModifyStep
<1>7. CASE eventLoopRemove
  BY <1>7, RemoveStep
<1>8. CASE EndTasks
  BY <1>8, EndTasksStep
<1>9. ASSUME NEW f \in Fd, Accept(f) PROVE LoopInv'
  BY <1>9, AcceptStep
<1>10. ASSUME NEW f \in Fd, NEW what \in Input \ {"quiet"}, ClientSends(f, what) PROVE LoopInv'
  BY <1>10, ClientStep
<1>11. CASE UNCHANGED vars
  <2>1. /\ UNCHANGED <<kind, auto, data, pc, at, tasks>> /\ UNCHANGED <<open, list, events, left, input>>
    BY <1>11 DEF vars
  <2>2. DataOK' /\ DueTargets' = DueTargets /\ \A g \in Fd : Watched(g)' = Watched(g)
    BY <2>1, SameData DEF LoopInv
  <2>3. EventsOK' /\ MapOK' /\ ActivatesLiveChannels'
    BY <2>1, <2>2, Keeps
  <2>4. Types' /\ ScanOK'
    BY <2>1, <2>2, <2>3 DEF LoopInv, Types, ScanOK
  <2>5. TasksOK'
    <3>1. \A i \in 1 .. Len(tasks) : tasks[i].fd \in Fd
      BY TaskIs DEF LoopInv, Types
    <3> QED BY <2>1, <2>2, <3>1 DEF LoopInv, TasksOK
  <2>6. WatchedAsAsked'
    BY <2>1, <2>2 DEF LoopInv, WatchedAsAsked, Queued
  <2> QED BY <2>2, <2>3, <2>4, <2>5, <2>6 DEF LoopInv
<1> QED BY <1>1, <1>2, <1>3, <1>4, <1>5, <1>6, <1>7, <1>8, <1>9, <1>10, <1>11 DEF Next, Loop, Others

LEMMA LoopInvariant == Spec => []LoopInv
BY InvInit, InvNext, PTL DEF Spec
-----------------------------------------------------------------------------
(* What is left of a scan always names a channel that is in the map, open   *)
(* and watched for that event: eventActivate, which looks at neither, never *)
(* runs on a channel a callback of the same scan has destroyed              *)
(* (EventLoop.c:153-166), whichever the dispatcher and the build.           *)
THEOREM ScanFindsLiveChannels == Spec => []ActivatesLiveChannels
<1>1. LoopInv => ActivatesLiveChannels
  BY DEF LoopInv, ScanOK
<1> QED BY <1>1, LoopInvariant, PTL

(* The dispatcher watches a channel for what it asks for, unless the MODIFY *)
(* for the difference is queued (Channel.c, EventLoop.c:215-240).           *)
THEOREM ChangesAreQueued == Spec => []WatchedAsAsked
<1>1. LoopInv => WatchedAsAsked
  BY DEF LoopInv
<1> QED BY <1>1, LoopInvariant, PTL

(* The exits of EpollDispatcher.c and SelectDispatcher.c are never taken:   *)
(* no sequence of tasks makes epoll_ctl or select fail.                     *)
THEOREM ServerNeverExits == Spec => []NeverExits
<1>1. LoopInv => NeverExits
  BY DEF LoopInv, Types, NeverExits
<1> QED BY <1>1, LoopInvariant, PTL

(* Every variable keeps its type, the data of each dispatcher among them.   *)
THEOREM TypesStay == Spec => []TypeOK
<1>1. ASSUME LoopInv PROVE TypeOK
  <2> DEFINE D == CASE kind = "poll" -> PollData [] kind = "epoll" -> EpollData
                    [] kind = "select" -> SelectData
  <2>1. data \in D
    <3>1. /\ kind = "poll" => D = PollData
          /\ kind = "epoll" => D = EpollData
          /\ kind = "select" => D = SelectData
      OBVIOUS
    <3> HIDE DEF D
    <3> QED BY <1>1, <3>1 DEF LoopInv, DataOK, PollOK, EpollOK
  <2> HIDE DEF D
  <2>2. data \in D <=> data \in CASE kind = "poll" -> PollData [] kind = "epoll" -> EpollData
                                   [] kind = "select" -> SelectData
    BY Zenon DEF D
  <2> QED BY <1>1, <2>1, <2>2 DEF LoopInv, Types, TypeOK
<1> QED BY <1>1, LoopInvariant, PTL

(* An ADD that is processed has its channel watched, but for the limits; a  *)
(* channel is watched until its DELETE is processed.                        *)
LEMMA LimitStep ==
  ASSUME LoopInv, [Next]_vars, NEW f \in Fd
  PROVE  /\ Queued("ADD", f) /\ ~Queued("ADD", f)' => Watched(f)' = events[f] \/ Refused(f)
         /\ Watched(f) # {} /\ Watched(f)' = {} =>
              tasks # <<>> /\ Head(tasks) = [type |-> "DELETE", fd |-> f]
<1> DEFINE Goal ==
      /\ Queued("ADD", f) /\ ~Queued("ADD", f)' => Watched(f)' = events[f] \/ Refused(f)
      /\ Watched(f) # {} /\ Watched(f)' = {} =>
           tasks # <<>> /\ Head(tasks) = [type |-> "DELETE", fd |-> f]
<1>1. tasks \in Seq(Task) /\ DOMAIN tasks = 1 .. Len(tasks)
  BY DEF LoopInv, Types
<1>2. ASSUME NEW new \in Task, tasks' = Append(tasks, new)
      PROVE  Queued("ADD", f) => Queued("ADD", f)'
  <2>1. ASSUME NEW i \in DOMAIN tasks PROVE i \in DOMAIN tasks' /\ tasks'[i] = tasks[i]
    BY <1>1, <1>2
  <2> QED BY <2>1 DEF Queued
<1>3. tasks' = tasks => (Queued("ADD", f) => Queued("ADD", f)')
  BY DEF Queued
<1>4. ASSUME Watched(f)' = Watched(f),
             tasks' = tasks \/ \E new \in Task : tasks' = Append(tasks, new)
      PROVE  Goal
  BY <1>2, <1>3, <1>4
<1>5. ASSUME NEW type \in {"ADD", "DELETE", "MODIFY"}, NEW g \in Fd PROVE [type |-> type, fd |-> g] \in Task
  BY DEF Task
<1>6. CASE WaitReturns
  BY <1>4, <1>6, WaitIs, HoldsType DEF LoopInv, Types, WaitReturns
<1>7. ASSUME NEW g \in Fd, processRead(g) \/ processWrite(g) PROVE Goal
  <2>1. \E e \in Event : Activates(g, e)
    BY <1>7 DEF processRead, processWrite, Event
  <2>2. UNCHANGED <<kind, auto, data, open, list>>
    BY <1>7 DEF processRead, processWrite, connVars
  <2>3. Watched(f)' = Watched(f)
    BY <2>1, <2>2, ActivationStep
  <2>4. NoTask \/ \E type \in {"DELETE", "MODIFY"} : OwnTask(type, g)
    BY <1>7 DEF processRead, processWrite
  <2>5. tasks' = tasks \/ \E new \in Task : tasks' = Append(tasks, new)
    BY <1>5, <2>4 DEF NoTask, OwnTask
  <2> QED BY <1>4, <2>3, <2>5
<1>8. CASE EndScan
  BY <1>4, <1>8, DoneIs DEF LoopInv, Types, EndScan
<1>9. CASE eventLoopAdd
  <2>1. PICK h : h = Head(tasks).fd
    OBVIOUS
  <2>2. /\ tasks' = Tail(tasks) /\ h \in Fd /\ Watched(h) = {} /\ (Refused(h) \/ Watched(h)' = events[h])
        /\ \A g \in Fd \ {h} : Watched(g)' = Watched(g)
    BY <1>9, <2>1, AddDoes
  <2>3. /\ Head(tasks) = tasks[1]
        /\ \A i \in 1 .. Len(Tail(tasks)) : i + 1 \in 1 .. Len(tasks) /\ Tail(tasks)[i] = tasks[i + 1]
        /\ Tail(tasks) \in Seq(Task) /\ Len(Tail(tasks)) = Len(tasks) - 1 /\ Len(tasks) \in Nat
    BY <1>9, FirstTask DEF eventLoopAdd
  <2>4. ASSUME f # h, Queued("ADD", f) PROVE Queued("ADD", f)'
    <3>1. PICK i \in 1 .. Len(tasks) : tasks[i] = [type |-> "ADD", fd |-> f]
      BY <1>1, <2>4 DEF Queued
    <3>2. i # 1
      BY <2>1, <2>3, <2>4, <3>1
    <3>3. i - 1 \in 1 .. Len(tasks') /\ tasks'[i - 1] = tasks[i]
      BY <2>2, <2>3, <3>2
    <3>4. i - 1 \in DOMAIN tasks'
      BY <2>2, <2>3, <3>3
    <3> QED BY <3>1, <3>3, <3>4 DEF Queued
  <2> QED BY <2>2, <2>4
<1>10. ASSUME NEW type \in {"MODIFY", "DELETE"}, Runs(type) PROVE ~Queued("ADD", f)
  <2>1. tasks[1].type = type /\ 1 \in 1 .. Len(tasks)
    BY <1>10, FirstTask
  <2>2. Len(tasks) = 1
    BY <2>1 DEF LoopInv, TasksOK
  <2> QED BY <1>1, <2>1, <2>2 DEF Queued
<1>11. CASE eventLoopModify
  <2>1. PICK h : h = Head(tasks).fd
    OBVIOUS
  <2>2. h \in Fd /\ Watched(h)' = events[h] /\ "in" \in events[h] /\ \A g \in Fd \ {h} : Watched(g)' = Watched(g)
    BY <1>11, <2>1, ModifyDoes
  <2>3. ~Queued("ADD", f)
    BY <1>10, <1>11 DEF eventLoopModify
  <2> QED BY <2>2, <2>3
<1>12. CASE eventLoopRemove
  <2>1. PICK h : h = Head(tasks).fd
    OBVIOUS
  <2>2. h \in Fd /\ \A g \in Fd \ {h} : Watched(g)' = Watched(g)
    BY <1>12, <2>1, RemoveDoes
  <2>3. ~Queued("ADD", f)
    BY <1>10, <1>12 DEF eventLoopRemove
  <2>4. tasks # <<>> /\ Head(tasks) = [type |-> "DELETE", fd |-> h]
    <3>1. Head(tasks) \in Task /\ Head(tasks).type = "DELETE" /\ tasks # <<>>
      BY <1>12, FirstTask DEF eventLoopRemove, Runs
    <3> QED BY <2>1, <3>1 DEF Task
  <2> QED BY <2>2, <2>3, <2>4
<1>13. CASE EndTasks
  BY <1>4, <1>13, SameData DEF LoopInv, EndTasks, connVars
<1>14. ASSUME NEW g \in Fd, Accept(g) PROVE Goal
  BY <1>4, <1>5, <1>14, SameData DEF LoopInv, Accept
<1>15. ASSUME NEW g \in Fd, NEW what, ClientSends(g, what) PROVE Goal
  BY <1>4, <1>15, SameData DEF LoopInv, ClientSends
<1>16. CASE UNCHANGED vars
  BY <1>4, <1>16, SameData DEF LoopInv, vars
<1> QED BY <1>6, <1>7, <1>8, <1>9, <1>11, <1>12, <1>13, <1>14, <1>15, <1>16 DEF Next, Loop, Others

(* Only a full poll table, or a descriptor that does not fit an fd_set,     *)
(* leaves a channel unwatched whose ADD was processed, and nothing but its  *)
(* DELETE ends the watching.                                                *)
THEOREM OnlyLimitsRefuse == Spec => OnlyTheLimitRefuses
<1>1. LoopInv /\ [Next]_vars =>
        [\A f \in Fd :
           /\ Queued("ADD", f) /\ ~Queued("ADD", f)' => Watched(f)' = events[f] \/ Refused(f)
           /\ Watched(f) # {} /\ Watched(f)' = {} =>
                tasks # <<>> /\ Head(tasks) = [type |-> "DELETE", fd |-> f]]_vars
  BY LimitStep
<1> QED BY <1>1, LoopInvariant, PTL DEF Spec, OnlyTheLimitRefuses
-----------------------------------------------------------------------------
(***************************************************************************)
(* Each dispatcher implements WatchSet.                                    *)
(***************************************************************************)
LEMMA WatchSame ==
  ASSUME \A g \in Fd : Watched(g)' = Watched(g)
  PROVE  [f \in Fd |-> Watched(f)]' = [f \in Fd |-> Watched(f)]
OBVIOUS

LEMMA WatchChanges ==
  ASSUME NEW f \in Fd, \A g \in Fd \ {f} : Watched(g)' = Watched(g), NEW ev, Watched(f)' = ev
  PROVE  [g \in Fd |-> Watched(g)]' = [[g \in Fd |-> Watched(g)] EXCEPT ![f] = ev]
OBVIOUS

LEMMA HoldsSame == ASSUME input' = input PROVE Holds' = Holds
BY DEF Holds

LEMMA HoldsChanges ==
  ASSUME input \in [Fd -> Input], NEW f \in Fd, NEW x, input' = [input EXCEPT ![f] = x]
  PROVE  \E S \in SUBSET Event : /\ Holds' = [Holds EXCEPT ![f] = S]
                                 /\ S = IF x = "quiet" THEN {"out"} ELSE Event
<1> DEFINE S == IF x = "quiet" THEN {"out"} ELSE Event
<1>1. S \in SUBSET Event
  BY DEF Event
<1>2. Holds' = [g \in Fd |-> IF input'[g] = "quiet" THEN {"out"} ELSE Event]
  BY DEF Holds
<1>3. \A g \in Fd : input'[g] = IF g = f THEN x ELSE input[g]
  OBVIOUS
<1>4. Holds' = [Holds EXCEPT ![f] = S]
  BY <1>2, <1>3 DEF Holds
<1> QED BY <1>1, <1>4

LEMMA SetInit == Init => Abstract!Init
<1> SUFFICES ASSUME Init PROVE Abstract!Init
  OBVIOUS
<1>1. DueTargets = {} /\ \A f \in Fd : Watched(f) = {}
  BY TargetsInit
<1>2. Holds \in [Fd -> SUBSET Event]
  BY HoldsType DEF Init, Input
<1> QED BY <1>1, <1>2 DEF Abstract!Init

LEMMA SetStep == LoopInv /\ [Next]_vars => [Abstract!Next]_(Abstract!vars)
<1> SUFFICES ASSUME LoopInv, [Next]_vars PROVE [Abstract!Next]_(Abstract!vars)
  OBVIOUS
<1> DEFINE W == [f \in Fd |-> Watched(f)]
<1>1. ASSUME \A g \in Fd : Watched(g)' = Watched(g), DueTargets' = DueTargets, input' = input
      PROVE  UNCHANGED Abstract!vars
  BY <1>1, WatchSame, HoldsSame DEF Abstract!vars
<1>2. input \in [Fd -> Input] /\ Holds \in [Fd -> SUBSET Event]
  BY HoldsType DEF LoopInv, Types
<1>3. CASE WaitReturns
  <2>1. /\ \A g \in Fd : Watched(g)' = Watched(g)
        /\ DueTargets' \subseteq {t \in Fd \X Event : t[2] \in Watched(t[1]) \cap Holds[t[1]]}
    BY <1>2, <1>3, WaitIs DEF LoopInv
  <2>2. pc = "wait" /\ UNCHANGED <<kind, auto, tasks, connVars>>
    BY <1>3 DEF WaitReturns
  <2>3. DueTargets = {} /\ Holds' = Holds
    BY <2>2, HoldsSame DEF LoopInv, ScanOK, connVars
  <2>4. {t \in Fd \X Event : t[2] \in Watched(t[1]) \cap Holds[t[1]]}
          = {t \in Fd \X Event : t[2] \in W[t[1]] \cap Holds[t[1]]}
    OBVIOUS
  <2>5. W' = W
    BY <2>1, WatchSame
  <2>6. Abstract!Report
    BY <2>1, <2>3, <2>4, <2>5 DEF Abstract!Report
  <2> QED BY <2>6 DEF Abstract!Next
<1>4. ASSUME NEW f \in Fd, NEW e \in Event, Activates(f, e), e \in Holds[f],
             UNCHANGED <<kind, auto, data, open, list>>,
             NEW x, input' = [input EXCEPT ![f] = x]
      PROVE  Abstract!Next
  <2>1. /\ e \in Watched(f) /\ \A g \in Fd : Watched(g)' = Watched(g)
        /\ <<f, e>> \in DueTargets /\ DueTargets' = DueTargets \ {<<f, e>>}
    BY <1>4, ActivationStep
  <2>2. \E S \in SUBSET Event : Holds' = [Holds EXCEPT ![f] = S]
    BY <1>2, <1>4, HoldsChanges
  <2>3. W' = W /\ e \in W[f]
    BY <2>1, WatchSame
  <2>4. Abstract!Activate(f, e)
    BY <1>4, <2>1, <2>2, <2>3 DEF Abstract!Activate
  <2> QED BY <2>4 DEF Abstract!Next
<1>5. ASSUME NEW f \in Fd, processRead(f) PROVE Abstract!Next
  <2>1. /\ Activates(f, "in") /\ UNCHANGED <<kind, auto, data, open, list>>
        /\ input[f] # "quiet" /\ input' \in {input, [input EXCEPT ![f] = "quiet"]}
    BY <1>5 DEF processRead
  <2>2. "in" \in Holds[f] /\ "in" \in Event
    BY <2>1 DEF Holds, Event
  <2>3. \E x : input' = [input EXCEPT ![f] = x]
    <3>1. input = [input EXCEPT ![f] = input[f]]
      BY <1>2
    <3> QED BY <2>1, <3>1
  <2> QED BY <1>4, <2>1, <2>2, <2>3
<1>6. ASSUME NEW f \in Fd, processWrite(f) PROVE Abstract!Next
  <2>1. /\ Activates(f, "out") /\ UNCHANGED <<kind, auto, data, open, list>> /\ input' = input
    BY <1>6 DEF processWrite, connVars
  <2>2. "out" \in Holds[f] /\ "out" \in Event
    BY DEF Holds, Event
  <2>3. input' = [input EXCEPT ![f] = input[f]]
    BY <1>2, <2>1
  <2> QED BY <1>4, <2>1, <2>2, <2>3
<1>7. CASE EndScan
  BY <1>1, <1>7, DoneIs DEF LoopInv, Types, EndScan, connVars
<1>8. CASE eventLoopAdd
  <2>1. PICK f : f = Head(tasks).fd
    OBVIOUS
  <2>2. /\ f \in Fd /\ Watched(f) = {} /\ input' = input /\ DueTargets' = DueTargets
        /\ Watched(f)' = IF Refused(f) THEN {} ELSE events[f]
        /\ \A g \in Fd \ {f} : Watched(g)' = Watched(g)
    BY <1>8, <2>1, AddDoes
  <2>3. CASE Refused(f)
    BY <1>1, <2>2, <2>3
  <2>4. CASE ~Refused(f)
    <3>1. events[f] \in (SUBSET Event) \ {{}} /\ Holds' = Holds
      BY <2>2, HoldsSame DEF LoopInv, Types, EventsOK
    <3>2. W' = [W EXCEPT ![f] = events[f]]
      BY <2>2, <2>4, WatchChanges
    <3>3. Abstract!Watch(f, events[f])
      BY <2>2, <3>1, <3>2 DEF Abstract!Watch
    <3> QED BY <2>2, <3>1, <3>3 DEF Abstract!Next
  <2> QED BY <2>3, <2>4
<1>9. CASE eventLoopModify
  <2>1. PICK f : f = Head(tasks).fd
    OBVIOUS
  <2>2. /\ f \in Fd /\ input' = input /\ DueTargets' = DueTargets
        /\ Watched(f)' = events[f] /\ "in" \in events[f]
        /\ \A g \in Fd \ {f} : Watched(g)' = Watched(g)
    BY <1>9, <2>1, ModifyDoes
  <2>3. events[f] \in (SUBSET Event) \ {{}} /\ Holds' = Holds
    BY <2>2, HoldsSame DEF LoopInv, Types
  <2>4. W' = [W EXCEPT ![f] = events[f]]
    BY <2>2, WatchChanges
  <2>5. Abstract!Watch(f, events[f])
    BY <2>2, <2>3, <2>4 DEF Abstract!Watch
  <2> QED BY <2>2, <2>3, <2>5 DEF Abstract!Next
<1>10. CASE eventLoopRemove
  <2>1. PICK f : f = Head(tasks).fd
    OBVIOUS
  <2>2. /\ f \in Fd /\ input' = [input EXCEPT ![f] = "quiet"]
        /\ DueTargets' = DueTargets /\ \A t \in DueTargets : t[1] # f
        /\ Watched(f)' = {}
        /\ \A g \in Fd \ {f} : Watched(g)' = Watched(g)
    BY <1>10, <2>1, RemoveDoes
  <2>3. \E S \in SUBSET Event : Holds' = [Holds EXCEPT ![f] = S]
    BY <1>2, <2>2, HoldsChanges
  <2>4. W' = [W EXCEPT ![f] = {}]
    BY <2>2, WatchChanges
  <2>5. Abstract!GiveUp(f)
    BY <2>2, <2>3, <2>4 DEF Abstract!GiveUp
  <2> QED BY <2>2, <2>5 DEF Abstract!Next
<1>11. CASE EndTasks
  BY <1>1, <1>11, SameData DEF LoopInv, EndTasks, connVars
<1>12. ASSUME NEW f \in Fd, Accept(f) PROVE UNCHANGED Abstract!vars
  BY <1>1, <1>12, SameData DEF LoopInv, Accept
<1>13. ASSUME NEW f \in Fd, NEW what \in Input \ {"quiet"}, ClientSends(f, what) PROVE Abstract!Next
  <2>1. \A g \in Fd : Watched(g)' = Watched(g)
    BY <1>13, SameData DEF LoopInv, ClientSends
  <2>2. DueTargets' = DueTargets /\ input' = [input EXCEPT ![f] = what]
    BY <1>13, SameData DEF LoopInv, ClientSends
  <2>3. \E S \in SUBSET Event : Holds' = [Holds EXCEPT ![f] = S] /\ S = Event
    BY <1>2, <1>13, <2>2, HoldsChanges
  <2>4. Holds[f] \subseteq Event
    BY <1>2
  <2>5. W' = W
    BY <2>1, WatchSame
  <2>6. Abstract!Environment(f)
    BY <2>2, <2>3, <2>4, <2>5 DEF Abstract!Environment
  <2> QED BY <2>6 DEF Abstract!Next
<1>14. CASE UNCHANGED vars
  BY <1>1, <1>14, SameData DEF LoopInv, vars
<1> QED BY <1>3, <1>5, <1>6, <1>7, <1>8, <1>9, <1>10, <1>11, <1>12, <1>13, <1>14 DEF Next, Loop, Others

(* Each of the three dispatchers keeps what WatchSet promises its loop: it  *)
(* reports only what is watched for and holds, each report is activated     *)
(* once and while it still holds, and a descriptor is given up only when    *)
(* nothing more is due for it.                                              *)
THEOREM EachIsAWatchSet == Spec => ImplementsWatchSet
<1>1. Init => LoopInv /\ Abstract!Init
  BY InvInit, SetInit
<1>2. LoopInv /\ [Next]_vars => LoopInv' /\ [Abstract!Next]_(Abstract!vars)
  BY InvNext, SetStep
<1> QED BY <1>1, <1>2, PTL DEF Spec, ImplementsWatchSet, Abstract!Spec
-----------------------------------------------------------------------------
(***************************************************************************)
(* A report takes in all that is watched for and holds.                    *)
(***************************************************************************)
LEMMA PlaceOf ==
  ASSUME NEW i \in Nat, NEW x \in Event
  PROVE  \E p \in Nat : p \div 2 = i /\ EventAt(p) = x /\ p <= 2 * i + 1
<1>1. CASE x = "in"
  <2>1. (2 * i) \div 2 = i /\ (2 * i) % 2 = 0 /\ 2 * i \in Nat /\ 2 * i <= 2 * i + 1
    OBVIOUS
  <2> QED BY <1>1, <2>1 DEF EventAt
<1>2. CASE x = "out"
  <2>1. (2 * i + 1) \div 2 = i /\ (2 * i + 1) % 2 # 0 /\ 2 * i + 1 \in Nat
    OBVIOUS
  <2> QED BY <1>2, <2>1 DEF EventAt
<1> QED BY <1>1, <1>2 DEF Event

LEMMA PollReportsAll ==
  ASSUME NEW d, PollOK(d), NEW holds \in [Fd -> SUBSET Event],
         NEW e, e = [d EXCEPT !.revents = [i \in Slot |->
                       IF i > d.maxfd THEN d.revents[i]
                       ELSE IF d.fd[i] = NoFd THEN {}
                       ELSE {x \in d.events[i] : x \in holds[d.fd[i]]}]],
         NEW f \in Fd, NEW x \in pollWatched(d, f) \cap holds[f]
  PROVE  <<f, x>> \in pollTargets(e, 0)
<1>1. d \in PollData /\ TableOK(d) /\ f # NoFd /\ x \in Event
  BY PollAssumption DEF PollOK
<1>2. PICK i \in Slot : d.fd[i] = f /\ x \in d.events[i]
  BY DEF pollWatched, SlotsOf
<1>3. i <= d.maxfd /\ d.maxfd \in Slot
  BY <1>1, <1>2 DEF TableOK, PollData
<1>4. Slot \subseteq Nat
  BY PollAssumption DEF Slot
<1>5. ~(i > d.maxfd)
  BY <1>3, <1>4
<1>6. e.fd = d.fd /\ e.maxfd = d.maxfd /\ e \in PollData
  BY <1>1 DEF PollData
<1>7. x \in e.revents[i]
  BY <1>1, <1>2, <1>5 DEF PollData
<1>8. PICK p \in Nat : p \div 2 = i /\ EventAt(p) = x /\ p <= 2 * i + 1
  BY <1>1, <1>4, PlaceOf
<1>9. 2 * i + 1 <= 2 * MAX - 1
  BY PollAssumption DEF Slot
<1>10. p <= 2 * MAX - 1
  BY <1>4, <1>8, <1>9, PollAssumption
<1>11. p \in pollDue(e, 0)
  <2>1. /\ p \in Nat /\ 0 <= p /\ p <= 2 * MAX - 1
        /\ p \div 2 \in Slot /\ p \div 2 <= e.maxfd /\ e.fd[p \div 2] # NoFd
        /\ EventAt(p) \in e.revents[p \div 2]
    BY <1>1, <1>2, <1>3, <1>6, <1>7, <1>8, <1>10
  <2>2. e \in PollData /\ 0 \in Nat
    BY <1>6
  <2> QED BY <2>1, <2>2, PollDueIs
<1>12. pollTarget(e, p) = <<f, x>>
  BY <1>2, <1>6, <1>8 DEF pollTarget
<1> QED BY <1>11, <1>12 DEF pollTargets

LEMMA SelectReportsAll ==
  ASSUME NEW d \in SelectData, NEW holds \in [Fd -> SUBSET Event],
         NEW f \in Fd, NEW x \in selectWatched(d, f) \cap holds[f], ~(f >= SELECT_MAX)
  PROVE  <<f, x>> \in selectTargets(selectWait(d, holds), 0)
<1> DEFINE e == selectWait(d, holds)
<1>1. e \in SelectData
  BY SelectWaits
<1>2. x \in Event /\ f \in d.set[x] /\ f \in Nat /\ f < SELECT_MAX /\ SELECT_MAX \in Nat
  BY SelectAssumption DEF selectWatched
<1>3. f \in e.tmp[x]
  BY <1>2 DEF selectWait, SelectData
<1>4. PICK p \in Nat : p \div 2 = f /\ EventAt(p) = x /\ p <= 2 * f + 1
  BY <1>2, PlaceOf
<1>5. p <= 2 * SELECT_MAX - 1
  BY <1>2, <1>4
<1>6. p \in selectDue(e, 0)
  BY <1>1, <1>3, <1>4, <1>5, SelectDueIs
<1> QED BY <1>4, <1>6 DEF selectTargets, selectTarget

(* The array takes in every descriptor if it has room for them.             *)
LEMMA EpollReportsAll ==
  ASSUME NEW d, EpollOK(d), NEW holds \in [Fd -> SUBSET Event], NEW failed,
         \A f \in Fd : f \in failed => holds[f] = Event,
         NEW e \in epollWait(d, holds, failed),
         NEW f \in Fd, f \notin failed, NEW x \in d.interest[f] \cap holds[f],
         ~(Cardinality({g \in Fd : d.interest[g] \cap holds[g] # {}}) > EPOLL_MAX)
  PROVE  <<f, x>> \in epollTargets(e, 0)
<1> DEFINE R     == {g \in Fd : d.interest[g] \cap holds[g] # {}}
           ready == {g \in Fd : d.interest[g] # {} /\ epollEntry(d, g, holds, failed).events # {}}
           size  == Min({Cardinality(ready), EPOLL_MAX})
<1>1. d = [interest |-> d.interest, events |-> d.events] /\ d.interest \in [Fd -> SUBSET Event]
  BY DEF EpollOK, EpollData
<1>2. PICK order \in [1 .. size -> ready] :
         /\ IsInjective(order)
         /\ e = [d EXCEPT !.events = [i \in 1 .. size |-> epollEntry(d, order[i], holds, failed)]]
  BY DEF epollWait
<1>3. ready = R
  <2>1. ASSUME NEW g \in Fd PROVE g \in ready <=> g \in R
    <3>1. g \in failed => (d.interest[g] # {} => d.interest[g] \cap holds[g] # {})
      BY <1>1
    <3>2. epollEntry(d, g, holds, failed).events
            = (d.interest[g] \cap holds[g]) \cup (IF g \in failed THEN {"err"} ELSE {})
      BY DEF epollEntry
    <3> QED BY <3>1, <3>2
  <2> QED BY <2>1
<1>4. IsFiniteSet(ready) /\ Cardinality(ready) \in Nat
  <2>1. ready \in SUBSET Fd
    OBVIOUS
  <2>2. IsFiniteSet(ready)
    BY <2>1, FS_Subset, EpollAssumption
  <2> QED BY <2>2, FS_CardinalityType
<1>5. ~(Cardinality(ready) > EPOLL_MAX)
  BY <1>3
<1>6. f \in ready
  BY <1>3
<1> HIDE DEF ready, R
<1>7. size = Cardinality(ready)
  <2> DEFINE S == {Cardinality(ready), EPOLL_MAX}
  <2>1. S \in SUBSET Nat /\ S # {}
    BY <1>4, EpollAssumption
  <2>2. Min(S) \in S /\ \A j \in S : Min(S) <= j
    BY <2>1, MinIsFirst
  <2>3. \A j \in S : j >= Cardinality(ready)
    BY <1>4, <1>5, EpollAssumption
  <2> QED BY <1>4, <2>1, <2>2, <2>3
<1> HIDE DEF size
<1>8. size \in Nat /\ IsFiniteSet(1 .. size) /\ Cardinality(1 .. size) = size
  <2>1. size \in Nat
    BY <1>4, <1>7
  <2>2. IsFiniteSet(1 .. size) /\ Cardinality(1 .. size) = IF 1 > size THEN 0 ELSE size - 1 + 1
    BY <2>1, FS_Interval
  <2> QED BY <2>1, <2>2
<1>9. PICK i \in 1 .. size : order[i] = f
  <2>1. order \in Injection(1 .. size, ready)
    BY <1>2 DEF Injection
  <2>2. order \in Surjection(1 .. size, ready)
    BY <1>4, <1>7, <1>8, <2>1, FS_Injection
  <2> QED BY <1>6, <2>2 DEF Surjection
<1> DEFINE array == [k \in 1 .. size |-> epollEntry(d, order[k], holds, failed)]
<1>10. e = [interest |-> d.interest, events |-> array]
  <2>1. e = [d EXCEPT !.events = array]
    BY <1>2
  <2> HIDE DEF array
  <2> QED BY <1>1, <2>1
<1>11. EpollOK(e)
  BY EpollWaits
<1>12. array[i].fd = f /\ array[i].events = d.interest[f] \cap holds[f]
  BY <1>9 DEF epollEntry
<1>13. Len(array) = size
  BY <1>8
<1> HIDE DEF array
<1>14. x \in Event /\ "err" \notin Event
  BY <1>1 DEF Event
<1>15. PICK p \in Nat : p \div 2 = i - 1 /\ EventAt(p) = x /\ p <= 2 * (i - 1) + 1
  <2>1. i - 1 \in Nat
    BY <1>8
  <2> QED BY <1>14, <2>1, PlaceOf
<1>16. p \div 2 + 1 = i /\ p <= 2 * size - 1
  BY <1>8, <1>15
<1>17. p \in epollDue(e, 0)
  <2>1. e.events = array /\ array[i].events \subseteq Event
    BY <1>1, <1>10, <1>12
  <2>2. /\ p \in Nat /\ 0 <= p /\ p <= 2 * Len(e.events) - 1
        /\ p \div 2 + 1 \in 1 .. Len(e.events)
        /\ "err" \notin e.events[p \div 2 + 1].events
        /\ EventAt(p) \in e.events[p \div 2 + 1].events
    BY <1>12, <1>13, <1>14, <1>15, <1>16, <2>1
  <2> QED BY <1>11, <2>2, EpollDueIs
<1>18. epollTarget(e, p) = <<f, x>>
  BY <1>10, <1>12, <1>15, <1>16 DEF epollTarget
<1> QED BY <1>17, <1>18 DEF epollTargets

(* selectAdd watches nothing that does not fit an fd_set. *)
FitsSet == \A f \in Fd : Watched(f) # {} => ~(kind = "select" /\ f >= SELECT_MAX)

LEMMA FitsStep == LoopInv /\ FitsSet /\ [Next]_vars => FitsSet'
<1> SUFFICES ASSUME LoopInv, FitsSet, [Next]_vars, NEW f \in Fd, Watched(f)' # {}
             PROVE  ~(kind' = "select" /\ f >= SELECT_MAX)
  BY DEF FitsSet
<1>1. ASSUME kind' = kind, Watched(f)' # {} => Watched(f) # {} \/ ~Refused(f)
      PROVE  ~(kind' = "select" /\ f >= SELECT_MAX)
  BY <1>1 DEF FitsSet, Refused
<1>2. CASE WaitReturns
  <2>1. UNCHANGED <<kind, auto, tasks, connVars>>
    BY <1>2 DEF WaitReturns
  <2>2. \A g \in Fd : Watched(g)' = Watched(g)
    BY <1>2, WaitIs, HoldsType DEF LoopInv, Types
  <2> QED BY <1>1, <2>1, <2>2
<1>3. ASSUME NEW g \in Fd, processRead(g) \/ processWrite(g) PROVE kind' = kind /\ Watched(f)' = Watched(f)
  <2>1. (\E e \in Event : Activates(g, e)) /\ UNCHANGED <<kind, auto, data, open, list>>
    BY <1>3 DEF processRead, processWrite, connVars, Event
  <2> QED BY <2>1, ActivationStep
<1>4. CASE EndScan
  BY <1>1, <1>4, DoneIs DEF LoopInv, Types, EndScan
<1>5. CASE eventLoopAdd
  <2>1. PICK h : h = Head(tasks).fd
    OBVIOUS
  <2>2. /\ kind' = kind /\ (Refused(h) => Watched(h)' = {})
        /\ \A g \in Fd \ {h} : Watched(g)' = Watched(g)
    BY <1>5, <2>1, AddDoes
  <2>3. f = h \/ Watched(f)' = Watched(f)
    BY <2>2
  <2> QED BY <1>1, <2>2, <2>3
<1>6. CASE eventLoopModify
  <2>1. PICK h : h = Head(tasks).fd
    OBVIOUS
  <2>2. kind' = kind /\ Watched(h) # {} /\ \A g \in Fd \ {h} : Watched(g)' = Watched(g)
    BY <1>6, <2>1, ModifyDoes
  <2>3. f = h \/ Watched(f)' = Watched(f)
    BY <2>2
  <2> QED BY <1>1, <2>2, <2>3
<1>7. CASE eventLoopRemove
  <2>1. PICK h : h = Head(tasks).fd
    OBVIOUS
  <2>2. kind' = kind /\ Watched(h)' = {} /\ \A g \in Fd \ {h} : Watched(g)' = Watched(g)
    BY <1>7, <2>1, RemoveDoes
  <2>3. f = h \/ Watched(f)' = Watched(f)
    BY <2>2
  <2> QED BY <1>1, <2>2, <2>3
<1>8. CASE EndTasks
  BY <1>1, <1>8, SameData DEF LoopInv, EndTasks, connVars
<1>9. ASSUME NEW g \in Fd, Accept(g) \/ \E what \in Input \ {"quiet"} : ClientSends(g, what)
      PROVE  kind' = kind /\ Watched(f)' = Watched(f)
  BY <1>9, SameData DEF LoopInv, Accept, ClientSends
<1>10. CASE UNCHANGED vars
  BY <1>1, <1>10, SameData DEF LoopInv, vars
<1> QED BY <1>1, <1>2, <1>3, <1>4, <1>5, <1>6, <1>7, <1>8, <1>9, <1>10 DEF Next, Loop, Others

(* The report of a wait. *)
LEMMA ReportStep ==
  ASSUME LoopInv, FitsSet, WaitReturns, NEW t \in Ready, t \notin DueTargets'
  PROVE  /\ kind = "epoll"
         /\ t[1] \in Failed \/ Cardinality({q[1] : q \in Ready}) > EPOLL_MAX
<1> DEFINE H == Holds
<1>0. at' = 0 /\ kind' = kind /\ H \in [Fd -> SUBSET Event] /\ DataOK
  BY HoldsType DEF WaitReturns, LoopInv, Types
<1>1. PICK f \in Fd, x \in Event : t = <<f, x>> /\ x \in Watched(f) \cap H[f]
  BY DEF Ready
<1>2. kind # "poll"
  <2> SUFFICES ASSUME kind = "poll" PROVE FALSE
    OBVIOUS
  <2>1. data' = [data EXCEPT !.revents = [i \in Slot |->
                       IF i > data.maxfd THEN data.revents[i]
                       ELSE IF data.fd[i] = NoFd THEN {}
                       ELSE {y \in data.events[i] : y \in H[data.fd[i]]}]]
    BY DEF WaitReturns, pollWait
  <2> HIDE DEF H
  <2>2. PollOK(data) /\ x \in pollWatched(data, f) \cap H[f]
    BY <1>0, <1>1, WatchedIs DEF DataOK
  <2>3. <<f, x>> \in pollTargets(data', 0)
    BY <1>0, <2>1, <2>2, PollReportsAll
  <2> QED BY <1>0, <1>1, <2>3, TargetsBecome
<1>3. kind # "select"
  <2> SUFFICES ASSUME kind = "select" PROVE FALSE
    OBVIOUS
  <2>1. data \in SelectData /\ data' = selectWait(data, H) /\ ~(f >= SELECT_MAX)
    BY <1>0, <1>1 DEF DataOK, WaitReturns, FitsSet
  <2> HIDE DEF H
  <2>2. x \in selectWatched(data, f) \cap H[f]
    BY <1>1, WatchedIs
  <2>3. <<f, x>> \in selectTargets(data', 0)
    BY <1>0, <2>1, <2>2, SelectReportsAll
  <2> QED BY <1>0, <1>1, <2>3, TargetsBecome
<1>4. kind = "epoll"
  BY <1>0, <1>2, <1>3 DEF DataOK
<1>5. ASSUME f \notin Failed PROVE Cardinality({q[1] : q \in Ready}) > EPOLL_MAX
  <2> DEFINE R == {g \in Fd : data.interest[g] \cap H[g] # {}}
  <2>1. PICK failed : failed = Failed
    OBVIOUS
  <2>2. EpollOK(data) /\ data' \in epollWait(data, H, failed) /\ f \notin failed
    BY <1>4, <1>5, <2>1 DEF DataOK, LoopInv, WaitReturns
  <2>3. \A g \in Fd : g \in failed => H[g] = Event
    BY <2>1 DEF Failed, Holds
  <2>4. {q[1] : q \in Ready} = R
    <3>1. \A q \in Ready : q[1] \in R
      BY <1>4, WatchedIs DEF Ready
    <3>2. ASSUME NEW g \in R PROVE \E q \in Ready : q[1] = g
      <4>1. PICK y : y \in data.interest[g] \cap H[g]
        OBVIOUS
      <4>2. y \in Event /\ y \in Watched(g) \cap Holds[g]
        BY <1>0, <1>4, <4>1, WatchedIs
      <4> DEFINE q == <<g, y>>
      <4>3. q \in Fd \X Event /\ q[1] = g /\ q[2] = y
        BY <4>2
      <4> QED BY <4>2, <4>3 DEF Ready
    <3> QED BY <3>1, <3>2
  <2>5. x \in data.interest[f] \cap H[f]
    BY <1>1, <1>4, WatchedIs
  <2>6. <<f, x>> \notin epollTargets(data', 0)
    BY <1>0, <1>1, <1>4, TargetsBecome
  <2> HIDE DEF H
  <2>7. Cardinality({g \in Fd : data.interest[g] \cap H[g] # {}}) > EPOLL_MAX
    BY <1>0, <2>2, <2>3, <2>5, <2>6, EpollReportsAll
  <2> QED BY <2>4, <2>7
<1> QED BY <1>1, <1>4, <1>5

(* poll's scan reaches every watched entry, select's every watched          *)
(* descriptor; epoll leaves out what does not fit its array, and what is in *)
(* error (EpollDispatcher.c:115-119).                                       *)
THEOREM OnlyEpollLeavesOut == Spec => OnlyEpollOmits
<1>1. Init => FitsSet
  BY TargetsInit DEF FitsSet
<1>2. ASSUME LoopInv, FitsSet, [Next]_vars, pc = "wait", pc' = "scan"
      PROVE  \A p \in Ready \ DueTargets' :
               /\ kind = "epoll"
               /\ p[1] \in Failed \/ Cardinality({q[1] : q \in Ready}) > EPOLL_MAX
  <2>1. WaitReturns
    BY <1>2 DEF Next, Loop, Others, processRead, processWrite, Activates, EndScan, eventLoopAdd,
                eventLoopModify, eventLoopRemove, Runs, EndTasks, Accept, ClientSends, vars
  <2> QED BY <1>2, <2>1, ReportStep
<1>3. LoopInv /\ FitsSet /\ [Next]_vars =>
        [pc = "wait" /\ pc' = "scan" =>
           \A p \in Ready \ DueTargets' :
             /\ kind = "epoll"
             /\ p[1] \in Failed \/ Cardinality({q[1] : q \in Ready}) > EPOLL_MAX]_vars
  BY <1>2
<1> QED BY <1>1, <1>3, InvInit, InvNext, FitsStep, PTL DEF Spec, OnlyEpollOmits
=============================================================================
