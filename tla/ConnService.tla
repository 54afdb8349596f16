----------------------------- MODULE ConnService -----------------------------
(***************************************************************************)
(* What the server promises a connection, without threads, queues, tables  *)
(* or wake-ups: it is accepted on a descriptor nobody else holds, given to *)
(* one loop, answered by that loop once, and at once either released, its  *)
(* descriptor becoming available again, or stranded for good.  A loop      *)
(* answers one connection at a time.                                       *)
(***************************************************************************)
CONSTANTS Conn, ConnFd, Loop, NoFd

VARIABLES phase,   \* how far a connection has got
          fd,      \* the descriptor it was accepted on
          server   \* the loop it was given to

vars == <<phase, fd, server>>

Holding == {"accepted", "answered", "stranded"}

Init == /\ phase  = [c \in Conn |-> "idle"]
        /\ fd     = [c \in Conn |-> NoFd]
        /\ server \in [Conn -> Loop]

To(c, from, to) == phase[c] = from /\ phase' = [phase EXCEPT ![c] = to]

Arrive(c) == To(c, "idle", "waiting") /\ UNCHANGED <<fd, server>>

Accept(c, f, l) ==
  /\ To(c, "waiting", "accepted")
  /\ \A d \in Conn : phase[d] \in Holding => fd[d] # f
  /\ fd' = [fd EXCEPT ![c] = f]
  /\ server' = [server EXCEPT ![c] = l]

Answer(c) ==
  /\ To(c, "accepted", "answered")
  /\ \A d \in Conn : phase[d] = "answered" => server[d] # server[c]
  /\ UNCHANGED <<fd, server>>

Release(c) == To(c, "answered", "released") /\ UNCHANGED <<fd, server>>
Strand(c)  == To(c, "answered", "stranded") /\ UNCHANGED <<fd, server>>

Next == \E c \in Conn : \/ Arrive(c)
                        \/ \E f \in ConnFd, l \in Loop : Accept(c, f, l)
                        \/ Answer(c) \/ Release(c) \/ Strand(c)

Spec == Init /\ [][Next]_vars
=============================================================================
