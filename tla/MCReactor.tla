------------------------------ MODULE MCReactor ------------------------------
(* Instances of Reactor for TLC.  Clients are interchangeable, and so are  *)
(* the descriptors of connections; loops are not, being numbers.           *)
EXTENDS Reactor, TLC

Symmetry == Permutations(Conn) \cup Permutations(ConnFd)
=============================================================================
