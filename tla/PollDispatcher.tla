--------------------------- MODULE PollDispatcher ---------------------------
(***************************************************************************)
(* The dispatcher every event loop uses by default (EventLoop.c:46): the   *)
(* table handed to poll(2), and the operations on it.                      *)
(*                                                                         *)
(* Only the thread of the owning loop touches its table, so each operation *)
(* is a function from a table to a table.  Reactor and Dispatch apply      *)
(* them.  The return codes are not modelled: no caller reads them.         *)
(***************************************************************************)
EXTENDS Integers, FiniteSetsExt, Channel

CONSTANTS
  NoFd,    \* the -1 of an unused entry
  MAX      \* number of entries of the table (1024 in the source)

ASSUME PollAssumption == /\ NoFd \notin Fd
                         /\ MAX \in Nat \ {0}

Slot == 0 .. MAX - 1

(* struct PollData, with struct pollfd split into its three fields. *)
PollData == [maxfd   : Slot,
             fd      : [Slot -> Fd \cup {NoFd}],
             events  : [Slot -> SUBSET Event],
             revents : [Slot -> SUBSET Event]]

pollInit == [maxfd   |-> 0,
             fd      |-> [i \in Slot |-> NoFd],
             events  |-> [i \in Slot |-> {}],
             revents |-> [i \in Slot |-> {}]]

SlotsOf(d, f) == {i \in Slot : d.fd[i] = f}

(* Seeded fault: the range of the table is not extended. *)
pollAddKeepsMaxfd(d, f, events) ==
  IF SlotsOf(d, NoFd) = {}
  THEN d
  ELSE LET i == Min(SlotsOf(d, NoFd))
       IN  [d EXCEPT !.fd[i] = f, !.events[i] = events]

(* The first unused entry takes the descriptor.  revents is not written:   *)
(* it is whatever the entry's last use left there.                         *)
pollAdd(d, f, events) ==
  IF SlotsOf(d, NoFd) = {}
  THEN d
  ELSE LET i == Min(SlotsOf(d, NoFd))
       IN  [d EXCEPT !.fd[i]     = f,
                     !.events[i] = events,
                     !.maxfd     = IF i > @ THEN i ELSE @]

(* Seeded fault: the entry keeps its descriptor. *)
pollRemoveKeepsFd(d, f) ==
  IF SlotsOf(d, f) = {} THEN d ELSE [d EXCEPT !.revents[Min(SlotsOf(d, f))] = {}]

(* Clears the first entry of the descriptor; maxfd never shrinks. *)
pollRemove(d, f) ==
  IF SlotsOf(d, f) = {}
  THEN d
  ELSE LET i == Min(SlotsOf(d, f))
       IN  [d EXCEPT !.fd[i] = NoFd, !.events[i] = {}, !.revents[i] = {}]

(* Changes what the first entry of the descriptor asks for, and leaves what *)
(* poll(2) has reported there.                                              *)
pollModify(d, f, events) ==
  IF SlotsOf(d, f) = {} THEN d ELSE [d EXCEPT !.events[Min(SlotsOf(d, f))] = events]

(* poll(2) rewrites revents of the entries 0..maxfd: nothing for a negative *)
(* descriptor, otherwise the requested events that hold; the other entries  *)
(* are not passed to the call.                                              *)
pollWait(d, Holds(_, _)) ==
  [d EXCEPT !.revents =
     [i \in Slot |->
        IF i > d.maxfd   THEN d.revents[i]
        ELSE IF d.fd[i] = NoFd THEN {}
        ELSE {e \in d.events[i] : Holds(d.fd[i], e)}]]

(* Entries still to be visited, from index i on, that will be activated for *)
(* reading.  The loop re-reads maxfd, fd and revents at every entry.        *)
ReadActive(d, i) ==
  {j \in Slot : i <= j /\ j <= d.maxfd /\ d.fd[j] # NoFd /\ "in" \in d.revents[j]}

(* The same loop with both its tests: place 2i is the test of entry i for   *)
(* POLLIN, place 2i + 1 for POLLOUT.  The places that will activate.        *)
pollDue(d, place) ==
  {p \in place .. 2 * MAX - 1 :
     LET i == p \div 2 IN
       i <= d.maxfd /\ d.fd[i] # NoFd /\ EventAt(p) \in d.revents[i]}

pollTarget(d, p) == <<d.fd[p \div 2], EventAt(p)>>
=============================================================================
