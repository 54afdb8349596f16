------------------------ MODULE PollDispatcherProofs ------------------------
(* What the operations on the poll table preserve. *)
EXTENDS PollDispatcher, WellFoundedInduction, TLAPS

Below == {ss \in Nat \X Nat : ss[1] < ss[2]}

(* A nonempty set of entry numbers has a first one. *)
LEMMA MinIsFirst ==
  ASSUME NEW S \in SUBSET Nat, S # {}
  PROVE  Min(S) \in S /\ \A j \in S : Min(S) <= j
<1>0. Below = OpToRel(<, Nat)
  BY Zenon DEF Below, OpToRel
<1>1. IsWellFoundedOn(Below, Nat)
  BY <1>0, NatLessThanWellFounded, Zenon
<1>2. PICK x \in S : \A y \in S : ~(<<y, x>> \in Below)
  BY <1>1, WFMin, Zenon
<1>3. \A y \in S : <<y, x>> \in Below <=> y < x
  BY DEF Below
<1>4. \A y \in S : ~(y < x)
  BY <1>2, <1>3, Zenon
<1>5. \A y \in S : x <= y
  BY <1>4
<1> QED BY <1>5, Zenon DEF Min

(* Every descriptor's entries are numbers. *)
LEMMA SlotsAreNat ==
  ASSUME NEW d, NEW f
  PROVE  SlotsOf(d, f) \in SUBSET Slot /\ SlotsOf(d, f) \in SUBSET Nat
BY PollAssumption DEF SlotsOf, Slot

(* The entry pollAdd and pollRemove choose is an entry of that descriptor. *)
LEMMA FirstSlot ==
  ASSUME NEW d, NEW f, SlotsOf(d, f) # {}
  PROVE  Min(SlotsOf(d, f)) \in Slot /\ d.fd[Min(SlotsOf(d, f))] = f
BY SlotsAreNat, MinIsFirst DEF SlotsOf

(* pollAdd makes a table of a table, takes no entry from its descriptor and *)
(* never lowers maxfd (PollDispatcher.c:50-82).                             *)
LEMMA PollAdd ==
  ASSUME NEW d \in PollData, NEW f \in Fd, NEW ev \in SUBSET Event
  PROVE  /\ pollAdd(d, f, ev) \in PollData
         /\ pollAdd(d, f, ev).maxfd >= d.maxfd
         /\ \A i \in Slot : d.fd[i] # NoFd =>
              /\ pollAdd(d, f, ev).fd[i] = d.fd[i]
              /\ pollAdd(d, f, ev).events[i] = d.events[i]
<1>1. CASE SlotsOf(d, NoFd) = {}
  BY <1>1, PollAssumption DEF pollAdd, PollData, Slot
<1>2. CASE SlotsOf(d, NoFd) # {}
  <2> DEFINE k == Min(SlotsOf(d, NoFd))
  <2>1. k \in Slot /\ d.fd[k] = NoFd
    BY <1>2, FirstSlot
  <2> HIDE DEF k
  <2>2. pollAdd(d, f, ev) = [d EXCEPT !.fd[k] = f, !.events[k] = ev,
                                      !.maxfd = IF k > @ THEN k ELSE @]
    BY <1>2, Zenon DEF pollAdd, k
  <2>3. d = [maxfd |-> d.maxfd, fd |-> d.fd, events |-> d.events, revents |-> d.revents]
    BY DEF PollData
  <2>4. pollAdd(d, f, ev) = [maxfd   |-> IF k > d.maxfd THEN k ELSE d.maxfd,
                             fd      |-> [d.fd EXCEPT ![k] = f],
                             events  |-> [d.events EXCEPT ![k] = ev],
                             revents |-> d.revents]
    BY <2>2, <2>3
  <2>5. pollAdd(d, f, ev) \in PollData
    BY <2>1, <2>4 DEF PollData
  <2>6. k \in Int /\ d.maxfd \in Int
    BY <2>1, PollAssumption DEF PollData, Slot
  <2>7. pollAdd(d, f, ev).maxfd >= d.maxfd
    BY <2>4, <2>6
  <2> QED
    BY <2>1, <2>4, <2>5, <2>7 DEF PollData
<1> QED BY <1>1, <1>2

(* pollRemove makes a table of a table, leaves the entries of the other     *)
(* descriptors alone, and keeps maxfd (PollDispatcher.c:85-106).            *)
LEMMA PollRemove ==
  ASSUME NEW d \in PollData, NEW f
  PROVE  /\ pollRemove(d, f) \in PollData
         /\ pollRemove(d, f).maxfd = d.maxfd
         /\ \A i \in Slot : d.fd[i] # f =>
              /\ pollRemove(d, f).fd[i] = d.fd[i]
              /\ pollRemove(d, f).events[i] = d.events[i]
<1>1. CASE SlotsOf(d, f) = {}
  BY <1>1 DEF pollRemove
<1>2. CASE SlotsOf(d, f) # {}
  <2> DEFINE k == Min(SlotsOf(d, f))
  <2>1. k \in Slot /\ d.fd[k] = f
    BY <1>2, FirstSlot
  <2> HIDE DEF k
  <2>2. pollRemove(d, f) = [d EXCEPT !.fd[k] = NoFd, !.events[k] = {}, !.revents[k] = {}]
    BY <1>2, Zenon DEF pollRemove, k
  <2>3. d = [maxfd |-> d.maxfd, fd |-> d.fd, events |-> d.events, revents |-> d.revents]
    BY DEF PollData
  <2>4. pollRemove(d, f) = [maxfd   |-> d.maxfd,
                            fd      |-> [d.fd EXCEPT ![k] = NoFd],
                            events  |-> [d.events EXCEPT ![k] = {}],
                            revents |-> [d.revents EXCEPT ![k] = {}]]
    BY <2>2, <2>3
  <2>5. pollRemove(d, f) \in PollData
    BY <2>1, <2>4 DEF PollData
  <2> QED
    BY <2>1, <2>4, <2>5 DEF PollData
<1> QED BY <1>1, <1>2
-----------------------------------------------------------------------------
(***************************************************************************)
(* A table in order: no descriptor has two entries, what poll(2) reports   *)
(* of an unused entry is nothing, and the used ones are within maxfd.      *)
(***************************************************************************)
TableOK(d) ==
  /\ \A i, j \in Slot : d.fd[i] # NoFd /\ d.fd[i] = d.fd[j] => i = j
  /\ \A i \in Slot : IF d.fd[i] = NoFd THEN d.revents[i] = {} ELSE i <= d.maxfd

LEMMA TableInit == pollInit \in PollData /\ TableOK(pollInit)
BY PollAssumption DEF pollInit, PollData, TableOK, Slot

(* Adding a descriptor that has no entry keeps the order, and gives it one *)
(* if there is an unused one.  Nothing becomes active by it: the entry it  *)
(* takes has not been reported since it was cleared.                       *)
LEMMA TableAdd ==
  ASSUME NEW d \in PollData, NEW f \in Fd, NEW ev \in SUBSET Event,
         TableOK(d), SlotsOf(d, f) = {}
  PROVE  /\ TableOK(pollAdd(d, f, ev))
         /\ \A i \in Slot : pollAdd(d, f, ev).fd[i] \in {d.fd[i], f}
         /\ SlotsOf(d, NoFd) # {} => \E i \in Slot : pollAdd(d, f, ev).fd[i] = f
         /\ \A k : \A j \in ReadActive(pollAdd(d, f, ev), k) :
              j \in ReadActive(d, k) /\ pollAdd(d, f, ev).fd[j] = d.fd[j]
<1>1. CASE SlotsOf(d, NoFd) = {}
  BY <1>1 DEF pollAdd, ReadActive
<1>2. CASE SlotsOf(d, NoFd) # {}
  <2> DEFINE k == Min(SlotsOf(d, NoFd))
             e == pollAdd(d, f, ev)
  <2>1. k \in Slot /\ d.fd[k] = NoFd
    BY <1>2, FirstSlot
  <2>2. \A i \in Slot : d.fd[i] # f
    BY DEF SlotsOf
  <2> HIDE DEF k
  <2>3. e = [d EXCEPT !.fd[k] = f, !.events[k] = ev, !.maxfd = IF k > @ THEN k ELSE @]
    BY <1>2, Zenon DEF pollAdd, k
  <2>4. d = [maxfd |-> d.maxfd, fd |-> d.fd, events |-> d.events, revents |-> d.revents]
    BY DEF PollData
  <2>5. e = [maxfd   |-> IF k > d.maxfd THEN k ELSE d.maxfd,
             fd      |-> [d.fd EXCEPT ![k] = f],
             events  |-> [d.events EXCEPT ![k] = ev],
             revents |-> d.revents]
    BY <2>3, <2>4
  <2> HIDE DEF e
  <2>6. /\ \A i \in Slot : e.fd[i] = IF i = k THEN f ELSE d.fd[i]
        /\ e.revents = d.revents
        /\ e.maxfd = IF k > d.maxfd THEN k ELSE d.maxfd
    BY <2>1, <2>5 DEF PollData
  <2>7. f # NoFd /\ Slot \subseteq Int /\ k \in Int /\ d.maxfd \in Int
    BY <2>1, PollAssumption DEF PollData, Slot
  <2>8. \A i, j \in Slot : e.fd[i] # NoFd /\ e.fd[i] = e.fd[j] => i = j
    BY <2>1, <2>2, <2>6 DEF TableOK
  <2>9. \A i \in Slot : IF e.fd[i] = NoFd THEN e.revents[i] = {} ELSE i <= e.maxfd
    BY <2>1, <2>6, <2>7 DEF TableOK
  <2>10. \A m : \A j \in ReadActive(e, m) : j \in ReadActive(d, m) /\ e.fd[j] = d.fd[j]
    <3> SUFFICES ASSUME NEW m, NEW j \in ReadActive(e, m)
                 PROVE  j \in ReadActive(d, m) /\ e.fd[j] = d.fd[j]
      OBVIOUS
    <3>1. j \in Slot /\ m <= j /\ "in" \in d.revents[j]
      BY <2>6 DEF ReadActive
    <3>2. d.fd[j] # NoFd /\ j <= d.maxfd
      BY <3>1 DEF TableOK
    <3> QED BY <2>1, <2>6, <3>1, <3>2 DEF ReadActive
  <2> QED BY <2>1, <2>6, <2>8, <2>9, <2>10 DEF TableOK, e
<1> QED BY <1>1, <1>2

(* Removing a descriptor keeps the order, and leaves it no entry.  Of the  *)
(* others nothing that was still to be activated changes.                  *)
LEMMA TableRemove ==
  ASSUME NEW d \in PollData, NEW f, f # NoFd, TableOK(d)
  PROVE  /\ TableOK(pollRemove(d, f))
         /\ \A i \in Slot : pollRemove(d, f).fd[i] = IF d.fd[i] = f THEN NoFd ELSE d.fd[i]
         /\ \A k : \A j \in ReadActive(pollRemove(d, f), k) :
              j \in ReadActive(d, k) /\ pollRemove(d, f).fd[j] = d.fd[j]
<1>1. CASE SlotsOf(d, f) = {}
  BY <1>1 DEF pollRemove, SlotsOf
<1>2. CASE SlotsOf(d, f) # {}
  <2> DEFINE k == Min(SlotsOf(d, f))
             e == pollRemove(d, f)
  <2>1. k \in Slot /\ d.fd[k] = f
    BY <1>2, FirstSlot
  <2> HIDE DEF k
  <2>2. e = [d EXCEPT !.fd[k] = NoFd, !.events[k] = {}, !.revents[k] = {}]
    BY <1>2, Zenon DEF pollRemove, k
  <2>3. d = [maxfd |-> d.maxfd, fd |-> d.fd, events |-> d.events, revents |-> d.revents]
    BY DEF PollData
  <2>4. e = [maxfd   |-> d.maxfd,
             fd      |-> [d.fd EXCEPT ![k] = NoFd],
             events  |-> [d.events EXCEPT ![k] = {}],
             revents |-> [d.revents EXCEPT ![k] = {}]]
    BY <2>2, <2>3
  <2> HIDE DEF e
  <2>5. /\ \A i \in Slot : e.fd[i] = IF i = k THEN NoFd ELSE d.fd[i]
        /\ \A i \in Slot : e.revents[i] = IF i = k THEN {} ELSE d.revents[i]
        /\ e.maxfd = d.maxfd
    BY <2>1, <2>4 DEF PollData
  <2>6. \A i \in Slot : d.fd[i] = f <=> i = k
    BY <2>1 DEF TableOK
  <2>7. TableOK(e)
    BY <2>1, <2>5 DEF TableOK
  <2>8. \A m : \A j \in ReadActive(e, m) : j \in ReadActive(d, m) /\ e.fd[j] = d.fd[j]
    BY <2>5 DEF ReadActive
  <2> QED BY <2>5, <2>6, <2>7, <2>8 DEF e
<1> QED BY <1>1, <1>2
=============================================================================
