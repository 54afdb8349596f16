----------------------------- MODULE UrlDecode -----------------------------
(***************************************************************************)
(* decodeMsg (HttpRequest.c) as processHttpRequest calls it: from and to   *)
(* are the same string, the URL, and move along it at different speeds.    *)
(* Characters are their ASCII codes.                                       *)
(***************************************************************************)
EXTENDS Integers, Sequences, FiniteSetsExt

CONSTANTS Char,     \* characters of URLs
          MaxLen    \* bound: the length of a URL

VARIABLES text,     \* the URL as it was sent
          msg,      \* the array: the URL and its terminator, 0, while it is decoded
          from, to  \* places in msg, from 1

decodeVars == <<text, msg, from, to>>

Percent == 37

isxdigit(c) == c \in 48 .. 57 \cup 97 .. 102 \cup 65 .. 70

hexToDec(c) == IF c <= 57 THEN c - 48 ELSE IF c >= 97 THEN c - 87 ELSE c - 55

(* An escape starts at place i of s; the second digit is looked at only if *)
(* the first is one, so that nothing behind the terminator is.             *)
Escape(s, i) == s[i] = Percent /\ isxdigit(s[i + 1]) /\ isxdigit(s[i + 2])

Escaped(s, i) == (hexToDec(s[i + 1]) * 16) + hexToDec(s[i + 2])

DecodeInit ==
  /\ text \in UNION {[1 .. n -> Char] : n \in 0 .. MaxLen}
  /\ msg = Append(text, 0)
  /\ from = 1 /\ to = 1

(* One round of the loop. *)
Decode ==
  /\ msg[from] # 0
  /\ IF Escape(msg, from)
     THEN msg' = [msg EXCEPT ![to] = Escaped(msg, from)] /\ from' = from + 3
     ELSE msg' = [msg EXCEPT ![to] = msg[from]] /\ from' = from + 1
  /\ to' = to + 1
  /\ UNCHANGED text

DecodeSpec == DecodeInit /\ [][Decode]_decodeVars
-----------------------------------------------------------------------------
(* What the URL stands for. *)
Decoded(s) ==
  LET z == Append(s, 0)
      d[i \in 1 .. Len(s) + 1] ==
        IF i > Len(s) THEN <<>>
        ELSE IF Escape(z, i) THEN <<Escaped(z, i)>> \o d[i + 3]
        ELSE <<s[i]>> \o d[i + 1]
  IN  d[1]

(* The string in the array: all up to its first 0. *)
CString(s) == SubSeq(s, 1, Min({i \in DOMAIN s : s[i] = 0}) - 1)

(* decodeMsg decodes the string (HttpRequest.h: "decode the string"): when *)
(* its loop has ended, the URL, which stat gets next, reads as decoded.    *)
DecodesString == msg[from] = 0 => CString(msg) = CString(Append(Decoded(text), 0))
=============================================================================
