------------------------------ MODULE Channel ------------------------------
(***************************************************************************)
(* What event loop and dispatchers see of a channel (Channel.c): the       *)
(* descriptor, which stands for the channel in the models, and the events  *)
(* it asks for.                                                            *)
(***************************************************************************)
EXTENDS Integers

CONSTANT Fd     \* the descriptors a loop may watch

(* ReadEvent and WriteEvent, and the names the three kernel interfaces     *)
(* have for them.                                                          *)
Event == {"in", "out"}

writeEventEnable(events, flag) ==
  IF flag THEN events \cup {"out"} ELSE events \ {"out"}

(* Every dispatcher tests what it visits first for reading, then for       *)
(* writing: an even place of its scan is a test for reading.               *)
EventAt(place) == IF place % 2 = 0 THEN "in" ELSE "out"
=============================================================================
