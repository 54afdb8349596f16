---------------------------- MODULE HttpRequest ----------------------------
(***************************************************************************)
(* The request parser (HttpRequest.c), as functions of the request and of  *)
(* the unread bytes b of the read buffer.                                  *)
(*                                                                         *)
(* A byte is one of the four the parser looks for, or a word, which stands *)
(* for the bytes of a method, a path, a version, a name or a value: what   *)
(* the parser does with them does not depend on how many there are.        *)
(***************************************************************************)
EXTENDS Sequences, FiniteSetsExt

CONSTANTS Word,         \* the words
          HeaderSize    \* places for headers (12 in the source)

Sign == {"CR", "LF", "SP", "COLON"}
Byte == Sign \cup Word

ASSUME HttpRequestAssumption == HeaderSize \in Nat /\ Word \cap Sign = {}

ParseState == {"ParseReqLine", "ParseReqHeaders", "ParseReqDone"}

(* struct HttpRequest; the version is stored and never used. *)
HttpRequest == [curState   : ParseState,
                method     : Seq(Byte),
                url        : Seq(Byte),
                reqHeaders : Seq([key : Seq(Byte), value : Seq(Byte)])]

httpRequestReset == [curState |-> "ParseReqLine", method |-> <<>>, url |-> <<>>,
                     reqHeaders |-> <<>>]

(* Where the first occurrence of a pattern starts, 0 if there is none. *)
memmem(b, pattern) ==
  LET at == {i \in 1 .. Len(b) - Len(pattern) + 1 :
               SubSeq(b, i, i + Len(pattern) - 1) = pattern}
  IN  IF at = {} THEN 0 ELSE Min(at)

bufferFindCRLF(b) == memmem(b, <<"CR", "LF">>)

Line(b)      == SubSeq(b, 1, bufferFindCRLF(b) - 1)
AfterLine(b) == SubSeq(b, bufferFindCRLF(b) + 2, Len(b))

(* splitRequestLine: what stands before the first occurrence of sub, and   *)
(* what stands behind it.                                                  *)
splitRequestLine(b, sub) ==
  LET i == memmem(b, sub)
  IN  [word |-> SubSeq(b, 1, i - 1), rest |-> SubSeq(b, i + 1, Len(b))]

(* Neither function goes on without a whole line, the first not with an    *)
(* empty one.                                                              *)
LineFails(b) == bufferFindCRLF(b) <= 1
HeadFails(b) == bufferFindCRLF(b) = 0

(* Without two spaces memmem finds nothing, and its NULL is used as the    *)
(* address of the space: undefined.                                        *)
LineUndefined(line) ==
  \/ memmem(line, <<"SP">>) = 0
  \/ memmem(splitRequestLine(line, <<"SP">>).rest, <<"SP">>) = 0

parseHttpRequestLine(request, line) ==
  LET first  == splitRequestLine(line, <<"SP">>)
      second == splitRequestLine(first.rest, <<"SP">>)
  IN  [request EXCEPT !.method = first.word, !.url = second.word,
                      !.curState = "ParseReqHeaders"]

IsHeader(line) == memmem(line, <<"COLON", "SP">>) # 0

(* A header behind the last place is stored past the array: undefined. *)
HeadUndefined(request, line) == IsHeader(line) /\ Len(request.reqHeaders) >= HeaderSize

(* Seeded fault: the position of the separator is taken for its end. *)
httpRequestAddHeaderShifted(request, line) ==
  LET middle == memmem(line, <<"COLON", "SP">>)
  IN  [request EXCEPT !.reqHeaders =
         Append(@, [key |-> SubSeq(line, 1, middle - 1), value |-> SubSeq(line, middle + 1, Len(line))])]

httpRequestAddHeader(request, line) ==
  LET middle == memmem(line, <<"COLON", "SP">>)
  IN  [request EXCEPT !.reqHeaders =
         Append(@, [key |-> SubSeq(line, 1, middle - 1), value |-> SubSeq(line, middle + 2, Len(line))])]

(* One line of the head.  A line without ": " ends it, be it empty or not. *)
parseHttpRequestHead(request, line) ==
  IF IsHeader(line) THEN httpRequestAddHeader(request, line)
                    ELSE [request EXCEPT !.curState = "ParseReqDone"]

(* Seeded faults: of the line that ends the head nothing is skipped, or as *)
(* if it stood behind the CR LF of the last header.                        *)
UnreadAfterKeepsBlank(b, line) == IF IsHeader(line) THEN AfterLine(b) ELSE b
UnreadAfterSkipsMore(b, line)  == IF IsHeader(line) THEN AfterLine(b) ELSE SubSeq(b, 5, Len(b))

(* Of the line that ends the head, two bytes are skipped, be they CR LF or *)
(* not.                                                                    *)
UnreadAfter(b, line) == IF IsHeader(line) THEN AfterLine(b) ELSE SubSeq(b, 3, Len(b))
=============================================================================
