------------------------------ MODULE ChannelMap ------------------------------
(***************************************************************************)
(* The table in which an event loop finds the channel of a descriptor      *)
(* (ChannelMap.c, and eventLoopAdd, eventLoopRemove, eventActivate and     *)
(* destoryChannel of EventLoop.c): an array indexed by descriptor, which   *)
(* starts small and is reallocated when a descriptor does not fit.  Only   *)
(* the thread of the loop uses it, so an operation is one step.  Reactor   *)
(* takes the table for a function on all descriptors; this module shows    *)
(* for which of them that is right.                                        *)
(*                                                                         *)
(* A descriptor whose number is the size of the array is not made room     *)
(* for.  Its entry is the word after the array: memory nobody cleared.     *)
(***************************************************************************)
EXTENDS Integers

CONSTANTS
  InitSize,      \* initial size (128 in the source)
  MaxFd,         \* bound: highest descriptor the process opens
  ReallocFails   \* whether realloc may return NULL

ASSUME ChannelMapAssumption ==
  /\ InitSize \in Nat \ {0} /\ MaxFd \in Nat
  /\ ReallocFails \in BOOLEAN

Fd == 0 .. MaxFd
NULL == -1       \* no channel
Garbage == -2    \* a word that is neither NULL nor a channel of this loop

VARIABLES
  size, list,  \* the map; the entry of a channel is its fd
  beyond,      \* the word after the array
  polled,      \* descriptors the dispatcher watches for the loop
  held,        \* descriptors of the loop's connections
  elsewhere,   \* descriptors the rest of the process has open
  sizes,       \* every size the array has had (history)
  alive        \* FALSE once eventActivate found another channel, or none

vars == <<size, list, beyond, polled, held, elsewhere, sizes, alive>>

TypeOK ==
  /\ size \in Nat \ {0}
  /\ list \in [0 .. size - 1 -> Fd \cup {NULL}]
  /\ beyond \in Fd \cup {NULL, Garbage}
  /\ polled \subseteq held /\ held \subseteq Fd /\ elsewhere \subseteq Fd \ held
  /\ alive \in BOOLEAN

(* channelMapInit; what lies beyond the array is anything. *)
Init ==
  /\ size = InitSize
  /\ list = [k \in 0 .. InitSize - 1 |-> NULL]
  /\ beyond \in {NULL, Garbage}
  /\ polled = {} /\ held = {} /\ elsewhere = {}
  /\ sizes = {InitSize}
  /\ alive = TRUE

Map == [size |-> size, list |-> list, beyond |-> beyond]
Becomes(m) == size' = m.size /\ list' = m.list /\ beyond' = m.beyond

(* map->list[fd], for an fd up to and with the size, and the store to it. *)
Entry(m, fd) == IF fd = m.size THEN m.beyond ELSE m.list[fd]
Store(m, fd, e) == IF fd = m.size THEN [m EXCEPT !.beyond = e]
                                  ELSE [m EXCEPT !.list[fd] = e]
-----------------------------------------------------------------------------
(* The size n doubled until newSize is not more than it. *)
Doubled(n, newSize) ==
  LET curSize[c \in n .. 2 * newSize] == IF c < newSize THEN curSize[2 * c] ELSE c
  IN  curSize[n]

(* Seeded fault: memset starts at the front of the list. *)
GrownCleared(m, curSize, word) ==
  [size |-> curSize, list |-> [k \in 0 .. curSize - 1 |-> NULL], beyond |-> word]

(* realloc and memset; word is what follows the new array. *)
Grown(m, curSize, word) ==
  [size   |-> curSize,
   list   |-> [k \in 0 .. curSize - 1 |-> IF k < m.size THEN m.list[k] ELSE NULL],
   beyond |-> word]

(* makeMapRoom: the maps it may leave when it returns true. *)
makeMapRoom(m, newSize) ==
  IF m.size >= newSize THEN {m}
  ELSE {Grown(m, Doubled(m.size, newSize), word) : word \in {NULL, Garbage}}

(* eventLoopAdd once there is room: an entry in use drops the channel. *)
Listed(m, fd) == IF Entry(m, fd) = NULL THEN Store(m, fd, fd) ELSE m

(* A connection is accepted, with the lowest free descriptor, and its ADD  *)
(* reaches eventLoopAdd.                                                   *)
eventLoopAdd(fd) ==
  /\ alive
  /\ \/ \E m \in IF fd >= size THEN makeMapRoom(Map, fd) ELSE {Map} :
          /\ Becomes(Listed(m, fd))
          /\ polled' = IF Entry(m, fd) = NULL THEN polled \cup {fd} ELSE polled
          /\ sizes' = sizes \cup {m.size}
     \/ /\ ReallocFails /\ size < fd
        /\ UNCHANGED <<size, list, beyond, polled, sizes>>
  /\ held' = held \cup {fd}
  /\ UNCHANGED <<elsewhere, alive>>

(* Seeded fault: the entry of a closed descriptor stays. *)
destoryChannelKeepsEntry(m, fd) == m

destoryChannel(m, fd) == Store(m, fd, NULL)

(* A watched descriptor is ready: eventActivate looks its channel up and   *)
(* asserts that it is the right one.  The callback keeps the connection,   *)
(* or has it deleted: eventLoopRemove, which does nothing for a descriptor *)
(* that is not in the array, removes it from the dispatcher, and           *)
(* destoryChannel closes it, unless a buffer holds bytes: then the entry   *)
(* and the descriptor stay.                                                *)
eventActivate(fd) ==
  /\ alive
  /\ IF Entry(Map, fd) # fd
     THEN /\ alive' = FALSE
          /\ UNCHANGED <<size, list, beyond, polled, held>>
     ELSE /\ fd < size
          /\ polled' = polled \ {fd}
          /\ \/ Becomes(destoryChannel(Map, fd)) /\ held' = held \ {fd}
             \/ UNCHANGED <<size, list, beyond, held>>
          /\ UNCHANGED alive
  /\ UNCHANGED <<elsewhere, sizes>>

(* Descriptors come and go in the rest of the process. *)
OpenElsewhere(fd) == /\ alive
                     /\ elsewhere' = elsewhere \cup {fd}
                     /\ UNCHANGED <<size, list, beyond, polled, held, sizes, alive>>
CloseElsewhere == /\ alive
                  /\ \E fd \in elsewhere : elsewhere' = elsewhere \ {fd}
                  /\ UNCHANGED <<size, list, beyond, polled, held, sizes, alive>>

(* The kernel hands out the lowest free descriptor. *)
FreeFds == Fd \ (held \cup elsewhere)
NextFd == {fd \in FreeFds : \A g \in FreeFds : fd <= g}

Next == \/ \E fd \in NextFd : eventLoopAdd(fd) \/ OpenElsewhere(fd)
        \/ \E fd \in polled : eventActivate(fd)
        \/ CloseElsewhere

Spec == Init /\ [][Next]_vars
-----------------------------------------------------------------------------
(* Descriptors in the array when they were added: not the ones whose number *)
(* was the size of the array at some time.                                  *)
Roomy == Fd \ sizes

(* For those the table is what Reactor takes it for: whatever was opened,  *)
(* closed and reallocated, what the dispatcher watches has its own entry,  *)
(* and an entry is its own descriptor's, which is not closed.  So the      *)
(* assertion of eventActivate can fail only for the others.                *)
TableIsRight ==
  \A fd \in Roomy :
    /\ fd \in polled => fd < size /\ list[fd] = fd
    /\ fd < size /\ list[fd] # NULL => list[fd] = fd /\ fd \in held

(* A new connection is watched from its ADD on, though its descriptor was   *)
(* another channel's before and the array may have moved for it, unless     *)
(* its number is a size of the array, or no memory was there to grow it.    *)
NewIsWatched ==
  [][\A fd \in held' \ held :
       fd \in polled' \/ fd \in sizes' \/ (ReallocFails /\ size < fd /\ size' = size)]_vars

(* EventLoop.c:97: assert(fd == channel->fd), the channel found for a ready *)
(* descriptor is the one that was added for it.                             *)
AssertHolds == alive
=============================================================================
