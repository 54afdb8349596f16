------------------------------ MODULE ByteQueue ------------------------------
(***************************************************************************)
(* What a buffer promises its users: bytes come out in the order they went *)
(* in, and none is lost, repeated or invented.                             *)
(***************************************************************************)
EXTENDS Sequences, Integers

CONSTANTS Byte, MaxChunk      \* at most MaxChunk bytes are put at once

VARIABLE unread

Init == unread = <<>>

Put == \E n \in 1 .. MaxChunk : \E bytes \in [1 .. n -> Byte] : unread' = unread \o bytes

Take == \E n \in 1 .. Len(unread) : unread' = SubSeq(unread, n + 1, Len(unread))

Spec == Init /\ [][Put \/ Take]_unread
=============================================================================
