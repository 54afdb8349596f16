------------------------------ MODULE WatchSet ------------------------------
(***************************************************************************)
(* What a dispatcher promises its event loop (struct Dispatcher), whatever *)
(* it is made of.  It watches descriptors for events.  Now and then it     *)
(* reports: some of the events that are watched for and hold become due.   *)
(* What is due is activated once, each while it still holds; before the    *)
(* next report nothing else is activated, and a descriptor is given up     *)
(* only when nothing more is due for it.                                   *)
(***************************************************************************)
CONSTANTS Fd, Event

VARIABLES watch,   \* the events each descriptor is watched for
          ready,   \* the events that hold of it
          due      \* what was reported and is still to be activated

vars == <<watch, ready, due>>

Init == /\ watch = [f \in Fd |-> {}]
        /\ ready \in [Fd -> SUBSET Event]
        /\ due = {}

(* Watches a descriptor, or watches it for other events. *)
Watch(f, events) ==
  /\ watch' = [watch EXCEPT ![f] = events]
  /\ UNCHANGED <<ready, due>>

(* The descriptor may be closed at once. *)
GiveUp(f) ==
  /\ \A p \in due : p[1] # f
  /\ watch' = [watch EXCEPT ![f] = {}]
  /\ \E S \in SUBSET Event : ready' = [ready EXCEPT ![f] = S]
  /\ UNCHANGED due

Report ==
  /\ due = {}
  /\ due' \in SUBSET {p \in Fd \X Event : p[2] \in watch[p[1]] \cap ready[p[1]]}
  /\ UNCHANGED <<watch, ready>>

(* A callback may use up what it was called for, of its own descriptor. *)
Activate(f, e) ==
  /\ <<f, e>> \in due /\ e \in watch[f] \cap ready[f]
  /\ due' = due \ {<<f, e>>}
  /\ \E S \in SUBSET Event : ready' = [ready EXCEPT ![f] = S]
  /\ UNCHANGED watch

(* Nobody else makes a watched descriptor less ready. *)
Environment(f) ==
  /\ \E S \in SUBSET Event : /\ watch[f] # {} => ready[f] \subseteq S
                             /\ ready' = [ready EXCEPT ![f] = S]
  /\ UNCHANGED <<watch, due>>

Next == \/ Report
        \/ \E f \in Fd : \/ GiveUp(f) \/ Environment(f)
                         \/ \E events \in (SUBSET Event) \ {{}} : Watch(f, events)
                         \/ \E e \in Event : Activate(f, e)

Spec == Init /\ [][Next]_vars
=============================================================================
