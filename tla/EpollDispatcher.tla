-------------------------- MODULE EpollDispatcher --------------------------
(***************************************************************************)
(* The dispatcher over epoll(7): the kernel's interest list, and the array *)
(* the last epoll_wait filled.  Operations are functions from one such     *)
(* record to another, as in PollDispatcher.                                *)
(***************************************************************************)
EXTENDS Sequences, FiniteSetsExt, Functions, Channel

CONSTANT EPOLL_MAX     \* entries of the array (520 in the source)

(* A process has as many descriptors as its limit allows, so they can be counted. *)
ASSUME EpollAssumption == EPOLL_MAX \in Nat \ {0} /\ IsFiniteSet(Fd)

Reported == [fd : Fd, events : SUBSET (Event \cup {"err"})]

(* A channel always asks for reading, so asking for nothing stands for a   *)
(* descriptor that is not in the interest list.                            *)
EpollData == [interest : [Fd -> SUBSET Event], events : Seq(Reported)]

epollInit == [interest |-> [f \in Fd |-> {}], events |-> <<>>]

(* epoll_ctl refuses to add what is there, and to change what is not; the   *)
(* program then exits.                                                      *)
epollCtlFails(d, op, f) == (op = "ADD") = (d.interest[f] # {})

epollCtl(d, f, events) == [d EXCEPT !.interest[f] = events]

epollAdd(d, f, events)    == epollCtl(d, f, events)
epollModify(d, f, events) == epollCtl(d, f, events)

(* Seeded fault: the descriptor stays in the interest list. *)
epollRemoveNothing(d, f) == d

epollRemove(d, f) == epollCtl(d, f, {})

(* What epoll_wait may return: entries for at most EPOLL_MAX of the ready   *)
(* descriptors, in any order.  holds is what could be reported of each      *)
(* descriptor, failed the set of those in error, which epoll reports        *)
(* without being asked.                                                     *)
epollEntry(d, f, holds, failed) ==
  [fd |-> f, events |-> (d.interest[f] \cap holds[f]) \cup (IF f \in failed THEN {"err"} ELSE {})]

epollWait(d, holds, failed) ==
  LET ready == {f \in Fd : d.interest[f] # {} /\ epollEntry(d, f, holds, failed).events # {}}
      size  == Min({Cardinality(ready), EPOLL_MAX})
  IN  {[d EXCEPT !.events = [i \in 1 .. size |-> epollEntry(d, order[i], holds, failed)]] :
         order \in {o \in [1 .. size -> ready] : IsInjective(o)}}

(* The places of the loop over the array that will activate.  An entry in   *)
(* error is skipped whatever else it reports, and nothing is done about it. *)
epollDue(d, place) ==
  {p \in place .. 2 * Len(d.events) - 1 :
     LET entry == d.events[p \div 2 + 1] IN
       "err" \notin entry.events /\ EventAt(p) \in entry.events}

(* count is a local variable, and nobody looks at the array without it. *)
epollDone(d) == [d EXCEPT !.events = <<>>]

epollTarget(d, p) == <<d.events[p \div 2 + 1].fd, EventAt(p)>>
=============================================================================
