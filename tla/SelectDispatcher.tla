-------------------------- MODULE SelectDispatcher --------------------------
(***************************************************************************)
(* The dispatcher over select(2): readSet and writeSet as set["in"] and    *)
(* set["out"]; rdtmp and wrtmp, the copies select overwrites, as tmp.      *)
(* Operations are functions from one such record to another, as in         *)
(* PollDispatcher.  Descriptors are numbers here.                          *)
(***************************************************************************)
EXTENDS Channel

CONSTANT SELECT_MAX     \* size of an fd_set (1024 in the source)

ASSUME SelectAssumption == SELECT_MAX \in Nat /\ Fd \subseteq Nat

SelectData == [set : [Event -> SUBSET Fd], tmp : [Event -> SUBSET Fd]]

selectInit == [set |-> [e \in Event |-> {}], tmp |-> [e \in Event |-> {}]]

setFdSet(d, f, events) ==
  [d EXCEPT !.set = [e \in Event |-> IF e \in events THEN @[e] \cup {f} ELSE @[e]]]

(* Clears the events the channel asks for now, not those it asked for when *)
(* it was added or last modified.                                          *)
clearFdSet(d, f, events) ==
  [d EXCEPT !.set = [e \in Event |-> IF e \in events THEN @[e] \ {f} ELSE @[e]]]

selectAdd(d, f, events) == IF f >= SELECT_MAX THEN d ELSE setFdSet(d, f, events)

selectRemove(d, f, events) == clearFdSet(d, f, events)

selectModify(d, f, events) == setFdSet(clearFdSet(d, f, events), f, events)

(* select(2) fails when one of the descriptors is not open. *)
selectFails(d, open) == ~ (d.set["in"] \cup d.set["out"] \subseteq open)

(* Seeded fault: the loop tests the sets, not the copies. *)
selectWaitIgnored(d, holds) == [d EXCEPT !.tmp = d.set]

(* It leaves in each copy the descriptors of it that are ready. *)
selectWait(d, holds) ==
  [d EXCEPT !.tmp = [e \in Event |-> {f \in d.set[e] : e \in holds[f]}]]

(* The places of the loop over the descriptors that will activate: place 2f *)
(* is the test of descriptor f in rdtmp, place 2f + 1 in wrtmp.             *)
selectDue(d, place) ==
  {p \in place .. 2 * SELECT_MAX - 1 : p \div 2 \in d.tmp[EventAt(p)]}

(* The copies are local variables. *)
selectDone(d) == [d EXCEPT !.tmp = selectInit.tmp]

selectTarget(p) == <<p \div 2, EventAt(p)>>
=============================================================================
