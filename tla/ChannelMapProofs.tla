--------------------------- MODULE ChannelMapProofs ---------------------------
(***************************************************************************)
(* Proofs about ChannelMap for any initial size of the array and any       *)
(* number of descriptors: for every descriptor whose number was never the  *)
(* size of the array, the map is what Reactor takes it for.                *)
(***************************************************************************)
EXTENDS ChannelMap, WellFoundedInduction, TLAPS

(* The induction from which it follows that doubling comes to an end.      *)
LessThan == {ss \in Nat \X Nat : ss[1] < ss[2]}

(* Induction over the natural numbers, over a set in place of a predicate. *)
LEMMA Induction ==
  ASSUME NEW S, 0 \in S, \A n \in Nat : n \in S => n + 1 \in S
  PROVE  Nat \subseteq S
<1> SUFFICES ASSUME Nat \ S # {} PROVE FALSE
  OBVIOUS
<1>1. IsWellFoundedOn(LessThan, Nat)
  <2>1. LessThan = OpToRel(<, Nat)
    BY Zenon DEF LessThan, OpToRel
  <2> QED BY <2>1, NatLessThanWellFounded, Zenon
<1>2. PICK n \in Nat \ S : \A m \in Nat \ S : ~(<<m, n>> \in LessThan)
  BY <1>1, WFMin, Zenon
<1>3. \A m \in Nat \ S : n <= m
  <2>1. \A m \in Nat \ S : <<m, n>> \in LessThan <=> m < n
    BY DEF LessThan
  <2>2. \A m \in Nat \ S : ~(m < n)
    BY <1>2, <2>1, Zenon
  <2> QED BY <2>2
<1>4. n # 0 /\ n - 1 \in Nat /\ ~(n <= n - 1)
  BY <1>2
<1>5. n - 1 \in S
  BY <1>3, <1>4
<1> QED BY <1>2, <1>4, <1>5

(* What Doubled says of its function, for a first size lo. *)
IsDoubling(f, lo, newSize) ==
  f = [c \in lo .. 2 * newSize |-> IF c < newSize THEN f[2 * c] ELSE c]

(* There is such a function: 2 * c is always nearer to newSize than c is.  *)
LEMMA DoublingExists ==
  ASSUME NEW lo \in Nat \ {0}, NEW newSize \in Nat, lo <= newSize
  PROVE  \E f : IsDoubling(f, lo, newSize)
<1> DEFINE S == {m \in Nat : \A n \in 1 .. newSize : n + m = newSize => \E f : IsDoubling(f, n, newSize)}
<1>1. 0 \in S
  <2>1. IsDoubling([c \in newSize .. 2 * newSize |-> c], newSize, newSize)
    BY DEF IsDoubling
  <2> QED BY <2>1
<1>2. ASSUME NEW m \in Nat, m \in S PROVE m + 1 \in S
  <2> SUFFICES ASSUME NEW n \in 1 .. newSize, n + (m + 1) = newSize
               PROVE  \E f : IsDoubling(f, n, newSize)
    OBVIOUS
  <2>1. n + 1 \in 1 .. newSize /\ (n + 1) + m = newSize
    OBVIOUS
  <2>2. PICK f : IsDoubling(f, n + 1, newSize)
    BY <1>2, <2>1
  <2> DEFINE g == [c \in n .. 2 * newSize |-> IF c = n THEN f[2 * c] ELSE f[c]]
  <2>3. ASSUME NEW c \in n .. 2 * newSize
        PROVE  g[c] = IF c < newSize THEN g[2 * c] ELSE c
    <3>1. CASE c < newSize
      <4>1. 2 * c \in n .. 2 * newSize /\ 2 * c # n
        BY <3>1
      <4>2. g[2 * c] = f[2 * c]
        BY <4>1
      <4>3. c # n => f[c] = f[2 * c]
        BY <2>2, <3>1 DEF IsDoubling
      <4> QED BY <3>1, <4>2, <4>3
    <3>2. CASE ~(c < newSize)
      <4>1. c # n /\ c \in n + 1 .. 2 * newSize
        BY <2>1, <3>2
      <4>2. f[c] = c
        BY <2>2, <3>2, <4>1 DEF IsDoubling
      <4> QED BY <3>2, <4>1, <4>2
    <3> QED BY <3>1, <3>2
  <2>4. g = [c \in n .. 2 * newSize |-> g[c]]
    OBVIOUS
  <2> HIDE DEF g
  <2>5. IsDoubling(g, n, newSize)
    BY <2>3, <2>4 DEF IsDoubling
  <2> QED BY <2>5
<1>3. newSize - lo \in S
  <2> HIDE DEF S
  <2>1. Nat \subseteq S
    BY <1>1, <1>2, Induction
  <2> QED BY <2>1
<1> QED BY <1>3

(* The loop of makeMapRoom ends, with a size that newSize fits into and that *)
(* is below twice newSize.                                                   *)
LEMMA DoubledIs ==
  ASSUME NEW n \in Nat \ {0}, NEW newSize \in Nat, n <= newSize
  PROVE  Doubled(n, newSize) \in newSize .. 2 * newSize - 1
<1> DEFINE f == CHOOSE f : IsDoubling(f, n, newSize)
           S == {m \in Nat : \A c \in n .. 2 * newSize - 1 :
                    c + m >= newSize => f[c] \in newSize .. 2 * newSize - 1}
<1>1. IsDoubling(f, n, newSize)
  BY DoublingExists
<1>2. Doubled(n, newSize) = f[n]
  BY DEF Doubled, IsDoubling
<1> HIDE DEF f
<1>3. 0 \in S
  BY <1>1 DEF IsDoubling
<1>4. ASSUME NEW m \in Nat, m \in S PROVE m + 1 \in S
  <2> SUFFICES ASSUME NEW c \in n .. 2 * newSize - 1, c + (m + 1) >= newSize
               PROVE  f[c] \in newSize .. 2 * newSize - 1
    OBVIOUS
  <2>1. CASE c < newSize
    <3>1. 2 * c \in n .. 2 * newSize - 1 /\ 2 * c + m >= newSize
      BY <2>1
    <3>2. f[c] = f[2 * c]
      BY <1>1, <2>1 DEF IsDoubling
    <3> QED BY <1>4, <3>1, <3>2
  <2>2. CASE ~(c < newSize)
    BY <1>1, <2>2 DEF IsDoubling
  <2> QED BY <2>1, <2>2
<1>5. newSize \in S
  <2> HIDE DEF S
  <2> QED BY <1>3, <1>4, Induction
<1> QED BY <1>2, <1>5

MapInv == TypeOK /\ size \in sizes /\ TableIsRight

(* makeMapRoom returns an array in which what fitted is where it was, and   *)
(* the new entries are empty (ChannelMap.c:31-50).                          *)
LEMMA RoomIsMade ==
  ASSUME TypeOK, NEW fd \in Fd, fd >= size, NEW m \in makeMapRoom(Map, fd)
  PROVE  /\ m.size \in Nat /\ size <= m.size /\ fd <= m.size
         /\ m.list \in [0 .. m.size - 1 -> Fd \cup {NULL}]
         /\ m.beyond \in Fd \cup {NULL, Garbage}
         /\ \A k \in 0 .. m.size - 1 : m.list[k] = IF k < size THEN list[k] ELSE NULL
         /\ m = [size |-> m.size, list |-> m.list, beyond |-> m.beyond]
<1>1. size \in Nat \ {0} /\ fd \in Nat /\ list \in [0 .. size - 1 -> Fd \cup {NULL}]
      /\ beyond \in Fd \cup {NULL, Garbage}
  BY ChannelMapAssumption DEF TypeOK, Fd
<1>2. CASE size >= fd
  BY <1>1, <1>2 DEF Map, makeMapRoom
<1>3. CASE ~(size >= fd)
  <2> DEFINE c == Doubled(size, fd)
  <2>1. PICK word \in {NULL, Garbage} : m = Grown(Map, c, word)
    BY <1>3 DEF makeMapRoom, Map
  <2>2. c \in fd .. 2 * fd - 1
    BY <1>1, <1>3, DoubledIs
  <2>3. c \in Nat /\ fd <= c /\ size <= c
    BY <1>1, <1>3, <2>2
  <2> HIDE DEF c
  <2> QED BY <1>1, <2>1, <2>3 DEF Grown, Map
<1> QED BY <1>2, <1>3

(* What eventLoopAdd may find the map to be once it has made room.          *)
LEMMA RoomOrMap ==
  ASSUME TypeOK, NEW fd \in Fd, NEW m \in IF fd >= size THEN makeMapRoom(Map, fd) ELSE {Map}
  PROVE  /\ m.size \in Nat /\ size <= m.size /\ fd <= m.size
         /\ m.list \in [0 .. m.size - 1 -> Fd \cup {NULL}]
         /\ m.beyond \in Fd \cup {NULL, Garbage}
         /\ \A k \in 0 .. m.size - 1 : m.list[k] = IF k < size THEN list[k] ELSE NULL
         /\ m = [size |-> m.size, list |-> m.list, beyond |-> m.beyond]
<1>1. CASE fd >= size
  BY <1>1, RoomIsMade
<1>2. CASE ~(fd >= size)
  BY <1>2, ChannelMapAssumption DEF TypeOK, Fd, Map
<1> QED BY <1>1, <1>2

(* The new channel takes its own entry and no other, and only if that is    *)
(* empty.                                                                   *)
LEMMA AddToMap ==
  ASSUME MapInv, NEW fd \in NextFd, NEW m \in IF fd >= size THEN makeMapRoom(Map, fd) ELSE {Map},
         Becomes(Listed(m, fd)),
         polled' = IF Entry(m, fd) = NULL THEN polled \cup {fd} ELSE polled,
         sizes' = sizes \cup {m.size}, held' = held \cup {fd}, UNCHANGED <<elsewhere, alive>>
  PROVE  MapInv' /\ (fd \notin sizes' => fd \in polled')
<1>1. fd \in Fd /\ fd \in Nat /\ fd \notin held /\ fd \notin polled
  BY ChannelMapAssumption DEF MapInv, TypeOK, NextFd, FreeFds, Fd
<1>2. /\ m.size \in Nat /\ size <= m.size /\ fd <= m.size
      /\ m.list \in [0 .. m.size - 1 -> Fd \cup {NULL}]
      /\ m.beyond \in Fd \cup {NULL, Garbage}
      /\ \A k \in 0 .. m.size - 1 : m.list[k] = IF k < size THEN list[k] ELSE NULL
      /\ m = [size |-> m.size, list |-> m.list, beyond |-> m.beyond]
  BY <1>1, RoomOrMap DEF MapInv
<1>3. /\ size' = m.size
      /\ list' = IF fd < m.size /\ m.list[fd] = NULL THEN [m.list EXCEPT ![fd] = fd] ELSE m.list
      /\ beyond' \in Fd \cup {NULL, Garbage}
  BY <1>1, <1>2 DEF Becomes, Listed, Entry, Store
<1>4. \A k \in 0 .. m.size - 1 :
        list'[k] = IF k = fd /\ m.list[fd] = NULL THEN fd ELSE m.list[k]
  BY <1>1, <1>2, <1>3
<1>5. TypeOK'
  <2>1. size' \in Nat \ {0} /\ list' \in [0 .. size' - 1 -> Fd \cup {NULL}]
    BY <1>1, <1>2, <1>3 DEF MapInv, TypeOK
  <2>2. polled' \subseteq held' /\ held' \subseteq Fd /\ elsewhere' \subseteq Fd \ held'
    BY <1>1 DEF MapInv, TypeOK, NextFd, FreeFds
  <2> QED BY <1>3, <2>1, <2>2 DEF MapInv, TypeOK
<1>6. size' \in sizes'
  BY <1>3
<1>7. fd \notin sizes' => fd < m.size /\ m.list[fd] = NULL /\ fd \in polled'
  <2> SUFFICES ASSUME fd \notin sizes' PROVE fd < m.size /\ m.list[fd] = NULL /\ fd \in polled'
    OBVIOUS
  <2>1. fd < m.size /\ fd \in Roomy
    BY <1>1, <1>2 DEF Roomy
  <2>2. m.list[fd] = NULL
    BY <1>1, <1>2, <2>1 DEF MapInv, TypeOK, TableIsRight
  <2> QED BY <1>1, <2>1, <2>2 DEF Entry
<1>8. TableIsRight'
  <2> SUFFICES ASSUME NEW g \in Roomy'
               PROVE  (/\ g \in polled => g < size /\ list[g] = g
                       /\ g < size /\ list[g] # NULL => list[g] = g /\ g \in held)'
    BY DEF TableIsRight
  <2>1. g \in Roomy /\ g \in Nat /\ g \notin sizes' /\ size \in Nat
    BY ChannelMapAssumption DEF Roomy, Fd, MapInv, TypeOK
  <2>2. CASE g = fd
    BY <1>1, <1>2, <1>3, <1>4, <1>7, <2>1, <2>2
  <2>3. CASE g # fd
    BY <1>2, <1>3, <1>4, <2>1, <2>3 DEF MapInv, TableIsRight
  <2> QED BY <2>2, <2>3
<1> QED BY <1>5, <1>6, <1>7, <1>8 DEF MapInv

LEMMA InitMap == Init => MapInv
BY ChannelMapAssumption DEF Init, MapInv, TypeOK, TableIsRight, Roomy, Fd

LEMMA MapStep == MapInv /\ [Next]_vars => MapInv'
<1> SUFFICES ASSUME MapInv, [Next]_vars PROVE MapInv'
  OBVIOUS
<1>1. CASE UNCHANGED vars
  BY <1>1 DEF vars, MapInv, TypeOK, TableIsRight, Roomy
<1>2. ASSUME NEW fd \in NextFd, eventLoopAdd(fd) PROVE MapInv'
  <2>1. CASE \E m \in IF fd >= size THEN makeMapRoom(Map, fd) ELSE {Map} :
               /\ Becomes(Listed(m, fd))
               /\ polled' = IF Entry(m, fd) = NULL THEN polled \cup {fd} ELSE polled
               /\ sizes' = sizes \cup {m.size}
    BY <1>2, <2>1, AddToMap DEF eventLoopAdd
  <2>2. CASE UNCHANGED <<size, list, beyond, polled, sizes>>
    BY <1>2, <2>2 DEF eventLoopAdd, MapInv, TypeOK, TableIsRight, Roomy, NextFd, FreeFds
  <2> QED BY <1>2, <2>1, <2>2 DEF eventLoopAdd
<1>3. ASSUME NEW fd \in NextFd, OpenElsewhere(fd) PROVE MapInv'
  BY <1>3 DEF OpenElsewhere, MapInv, TypeOK, TableIsRight, Roomy, NextFd, FreeFds
<1>4. CASE CloseElsewhere
  BY <1>4 DEF CloseElsewhere, MapInv, TypeOK, TableIsRight, Roomy
<1>5. ASSUME NEW fd \in polled, eventActivate(fd) PROVE MapInv'
  <2>1. fd \in Fd /\ fd \in Nat /\ size \in Nat /\ UNCHANGED <<elsewhere, sizes>>
    BY <1>5, ChannelMapAssumption DEF eventActivate, MapInv, TypeOK, Fd
  <2>2. CASE UNCHANGED <<size, list, beyond, held>> /\ polled' \in {polled, polled \ {fd}}
             /\ alive' \in BOOLEAN
    BY <2>1, <2>2 DEF MapInv, TypeOK, TableIsRight, Roomy
  <2>3. CASE fd < size /\ Becomes(destoryChannel(Map, fd)) /\ held' = held \ {fd}
             /\ polled' = polled \ {fd} /\ UNCHANGED alive
    <3>1. size' = size /\ beyond' = beyond /\ list' = [list EXCEPT ![fd] = NULL]
      BY <2>1, <2>3 DEF Becomes, destoryChannel, Store, Map
    <3>2. \A k \in 0 .. size - 1 : list'[k] = IF k = fd THEN NULL ELSE list[k]
      BY <3>1 DEF MapInv, TypeOK
    <3>3. TypeOK'
      BY <2>1, <2>3, <3>1 DEF MapInv, TypeOK
    <3>4. TableIsRight'
      BY <2>1, <2>3, <3>1, <3>2, ChannelMapAssumption DEF MapInv, TableIsRight, Roomy, Fd
    <3> QED BY <2>1, <3>1, <3>3, <3>4 DEF MapInv
  <2> QED BY <1>5, <2>2, <2>3 DEF eventActivate, MapInv, TypeOK
<1> QED BY <1>1, <1>2, <1>3, <1>4, <1>5 DEF Next

(* The array has one entry for each number below its size, through every    *)
(* growth by doubling (ChannelMap.c:31-50), and the dispatcher watches only *)
(* descriptors the loop holds, never one the process has open elsewhere.    *)
THEOREM MapTypes == Spec => []TypeOK
<1>1. MapInv => TypeOK
  BY DEF MapInv
<1> QED BY <1>1, InitMap, MapStep, PTL DEF Spec

(* For a descriptor whose number was never the size of the array, watched   *)
(* means listed under its own number and listed means not closed, through  *)
(* any growth, reuse and failure of realloc (ChannelMap.c, EventLoop.c):    *)
(* so the assertion EventLoop.c:97 can fail for the others only.            *)
THEOREM TableStaysRight == Spec => []TableIsRight
<1>1. MapInv => TableIsRight
  BY DEF MapInv
<1> QED BY <1>1, InitMap, MapStep, PTL DEF Spec

(* eventLoopAdd leaves a channel unwatched for two reasons only: its number *)
(* is a size the array has had, or realloc failed (EventLoop.c:187-204).    *)
THEOREM NewChannelIsWatched == Spec => NewIsWatched
<1> DEFINE Watched == \A fd \in held' \ held :
              fd \in polled' \/ fd \in sizes' \/ (ReallocFails /\ size < fd /\ size' = size)
<1>1. ASSUME MapInv, [Next]_vars PROVE Watched \/ UNCHANGED vars
  <2>1. ASSUME NEW fd \in NextFd, eventLoopAdd(fd) PROVE Watched
    <3>1. held' = held \cup {fd}
      BY <2>1 DEF eventLoopAdd
    <3>2. CASE \E m \in IF fd >= size THEN makeMapRoom(Map, fd) ELSE {Map} :
                 /\ Becomes(Listed(m, fd))
                 /\ polled' = IF Entry(m, fd) = NULL THEN polled \cup {fd} ELSE polled
                 /\ sizes' = sizes \cup {m.size}
      BY <1>1, <2>1, <3>1, <3>2, AddToMap DEF eventLoopAdd
    <3>3. CASE ReallocFails /\ size < fd /\ UNCHANGED size
      BY <3>1, <3>3
    <3> QED BY <2>1, <3>2, <3>3 DEF eventLoopAdd
  <2>2. ASSUME NEW fd \in NextFd, OpenElsewhere(fd) PROVE held' = held
    BY <2>2 DEF OpenElsewhere
  <2>3. ASSUME CloseElsewhere PROVE held' = held
    BY <2>3 DEF CloseElsewhere
  <2>4. ASSUME NEW fd \in polled, eventActivate(fd) PROVE held' \subseteq held
    BY <2>4 DEF eventActivate
  <2> QED BY <1>1, <2>1, <2>2, <2>3, <2>4 DEF Next
<1>2. MapInv /\ [Next]_vars => [Watched]_vars
  BY <1>1
<1> QED BY <1>2, InitMap, MapStep, PTL DEF Spec, NewIsWatched
=============================================================================
