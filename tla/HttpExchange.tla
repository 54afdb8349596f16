---------------------------- MODULE HttpExchange ----------------------------
(***************************************************************************)
(* One connection from its first byte to its end: the client, processRead  *)
(* and processWrite (TcpConnection.c), the parser and the answer, in three *)
(* builds.  MSG_SEND_AUTO is defined nowhere (the default), in             *)
(* TcpConnection.h, where the source has it commented out and where, of    *)
(* the files that test it, only TcpConnection.c sees it ("header"), or for  *)
(* every file ("flag").                                                    *)
(*                                                                         *)
(* Descriptor, channel and dispatcher are Reactor's and Dispatch's         *)
(* subject.  send and sendfile block, and pass on one chunk per step.      *)
(***************************************************************************)
EXTENDS HttpRequest, HttpResponse, SequencesExt

CONSTANTS Builds,       \* of {"default", "header", "flag"}
          Scripts,      \* what clients send: sequences of requests, see Encode
          Disks,        \* sizes of the files, or Absent
          Absent,
          DirEntries,   \* names scandir finds
          IntMax,       \* the largest int
          SendCap,      \* chunks that fit between server and client
          MaxRefused    \* bound: 400s in the write buffer while the client goes on

OnDisk == {"file", "404.html"}
Sizes  == Nat \cup {Absent}

ASSUME HttpExchangeAssumption ==
  /\ Builds \subseteq {"default", "header", "flag"}
  /\ \A script \in Scripts : script # <<>> /\ script \in Seq([line : Seq(Byte), head : Seq(Seq(Byte))])
  /\ Disks \subseteq [OnDisk -> Sizes] /\ Absent \notin Nat /\ OnDisk \cup {"./"} \subseteq File
  /\ DirEntries \in Nat /\ IntMax \in Nat \ {0} /\ SendCap \in Nat \ {0}

VARIABLES
  build,      \* where MSG_SEND_AUTO is defined
  script,     \* the client's requests
  sent,       \* bytes of them the client has sent
  client,     \* whether it has closed its side or reset the connection
  seen,       \* chunks it has read
  disk, changed,   \* the files; whether one was changed meanwhile
  pc, back,   \* where the loop's thread stands; where bufferSendData returns to
  watch, due, \* events asked for; those reported and still to be activated
  taken, parsed,   \* bytes in the read buffer so far, and bytes parsed of them
  request, response,
  served,     \* history: requests processed
  wbuf,       \* unread part of the write buffer
  out,        \* chunks on the wire so far
  offset, goal     \* of sendFile's or sendDir's loop

clientVars == <<sent, client, seen>>
diskVars   == <<disk, changed>>
readVars   == <<taken, parsed, request>>
replyVars  == <<response, served>>
loopVars   == <<offset, goal>>
vars == <<build, script, clientVars, diskVars, pc, back, watch, due, readVars, replyVars,
          wbuf, out, loopVars>>

AutoConn == build # "default"   \* TcpConnection.c sees MSG_SEND_AUTO
AutoSend == build = "flag"      \* HttpRequest.c and HttpResponse.c see it
-----------------------------------------------------------------------------
(* The bytes of a request.                                                 *)
Encode(r) == r.line \o FlattenSeq(r.head) \o <<"CR", "LF">>

Message == FlattenSeq([i \in DOMAIN script |-> Encode(script[i])])
Unread  == SubSeq(Message, parsed + 1, taken)

Ended == {"closed",      \* released
          "stranded",    \* removed from the dispatcher, and not released
          "undefined",   \* in undefined behaviour
          "killed"}      \* with the whole process, by SIGPIPE

PC == {"idle", "scan", "parse", "process", "prepare", "send", "open", "file", "dir",
       "finish", "written"} \cup Ended

TypeOK ==
  /\ build \in Builds /\ script \in Scripts
  /\ sent \in 0 .. Len(Message) /\ client \in {"open", "closed", "reset"}
  /\ seen \in 0 .. Len(out)
  /\ disk \in [OnDisk -> Sizes] /\ changed \in BOOLEAN
  /\ pc \in PC /\ back \in PC
  /\ watch \subseteq {"in", "out"} /\ due \subseteq watch
  /\ taken \in 0 .. sent /\ parsed \in 0 .. taken
  /\ request \in HttpRequest /\ Len(request.reqHeaders) <= HeaderSize
  /\ response \in HttpResponse /\ (Overflows(response) => pc = "undefined")
  /\ served \in Nat
  /\ wbuf \in Seq(Chunk) /\ out \in Seq(Chunk)
  /\ goal \in Int /\ (pc = "file" => goal <= IntMax)
  /\ offset \in Nat /\ (offset > 0 => offset <= goal)

(* tcpConnectionInit *)
Init ==
  /\ build \in Builds /\ script \in Scripts
  /\ sent = 0 /\ client = "open" /\ seen = 0
  /\ disk \in Disks /\ changed = FALSE
  /\ pc = "idle" /\ back = "idle" /\ watch = {"in"} /\ due = {}
  /\ taken = 0 /\ parsed = 0 /\ request = httpRequestReset
  /\ response = httpResponseInit /\ served = 0
  /\ wbuf = <<>> /\ out = <<>> /\ offset = 0 /\ goal = 0
-----------------------------------------------------------------------------
(***************************************************************************)
(* Client and file system.                                                 *)
(***************************************************************************)
Others == UNCHANGED <<build, script, pc, back, watch, due, readVars, replyVars, wbuf, out, loopVars>>

(* The network splits and joins what the client sends as it likes.  What   *)
(* comes before the next read, or while the loop is in a callback, is as if *)
(* it came at once before the next poll(2).                                *)
ClientSends ==
  /\ pc = "idle" /\ client = "open" /\ sent = taken /\ sent < Len(Message)
  /\ Cardinality({i \in DOMAIN wbuf : wbuf[i] = <<"error", 400>>}) <= MaxRefused
  /\ sent' \in sent + 1 .. Len(Message)
  /\ UNCHANGED <<client, seen, diskVars>> /\ Others

(* A close is noticed by the next read, a reset in sending, too.           *)
ClientLeaves ==
  /\ client = "open"
  /\ \/ pc = "idle" /\ client' = "closed"
     \/ pc \in {"idle", "send", "file"} /\ client' = "reset"
  /\ UNCHANGED <<sent, seen, diskVars>> /\ Others

ClientReads ==
  /\ pc \notin Ended /\ seen < Len(out) /\ seen' = seen + 1
  /\ UNCHANGED <<sent, client, diskVars>> /\ Others

(* Somebody removes a file, or makes it shorter, where the answer looks at *)
(* it next.                                                                *)
FileChanges ==
  /\ pc \in {"process", "open", "file"}
  /\ ~changed /\ changed' = TRUE
  /\ \E f \in DOMAIN disk :
       /\ disk[f] # Absent
       /\ \E size \in {Absent} \cup 0 .. disk[f] - 1 : disk' = [disk EXCEPT ![f] = size]
  /\ UNCHANGED clientVars /\ Others
-----------------------------------------------------------------------------
(***************************************************************************)
(* The loop: poll(2) and its scan.                                         *)
(***************************************************************************)
Fixed == UNCHANGED <<build, script, clientVars, diskVars>>

Room == Len(out) - seen < SendCap

Holds(e) == \/ client = "reset"
            \/ e = "in" /\ (taken < sent \/ client = "closed")
            \/ e = "out" /\ Room

Poll ==
  /\ pc = "idle"
  /\ due' = {e \in watch : Holds(e)} /\ due' # {}
  /\ pc' = "scan"
  /\ UNCHANGED <<back, watch, readVars, replyVars, wbuf, out, loopVars>> /\ Fixed

EndScan ==
  /\ pc = "scan" /\ due = {} /\ pc' = "idle"
  /\ UNCHANGED <<back, watch, due, readVars, replyVars, wbuf, out, loopVars>> /\ Fixed

(* Reads all there is; with bytes read, a channel that sends by itself asks *)
(* for POLLOUT, which the MODIFY task passes on at once.                    *)
processRead ==
  /\ pc = "scan" /\ "in" \in due /\ due' = due \ {"in"}
  /\ taken' = sent
  /\ IF sent > taken
     THEN pc' = "parse" /\ watch' = IF AutoConn THEN watch \cup {"out"} ELSE watch
     ELSE pc' = "finish" /\ UNCHANGED watch
  /\ UNCHANGED <<back, parsed, request, replyVars, wbuf, out, loopVars>> /\ Fixed

processWrite ==
  /\ pc = "scan" /\ due = {"out"} /\ due' = {}
  /\ IF wbuf # <<>> THEN pc' = "send" /\ back' = "written"
                    ELSE pc' = "scan" /\ UNCHANGED back
  /\ UNCHANGED <<watch, readVars, replyVars, wbuf, out, loopVars>> /\ Fixed

(* Seeded fault: bytes in the write buffer are forgotten. *)
tcpConnectionDestoryUnsent == pc' = IF Unread = <<>> THEN "closed" ELSE "stranded"

(* DELETE, which is run at once. *)
tcpConnectionDestory ==
  pc' = IF Unread = <<>> /\ wbuf = <<>> THEN "closed" ELSE "stranded"

(* The end of parseHttpRequest, if it came to one, and of processRead. *)
processReadReturns ==
  /\ pc = "finish"
  /\ request' = [request EXCEPT !.curState = IF @ = "ParseReqDone" THEN "ParseReqLine" ELSE @]
  /\ IF AutoConn THEN pc' = "scan" ELSE tcpConnectionDestory
  /\ UNCHANGED <<back, watch, due, taken, parsed, replyVars, wbuf, out, loopVars>> /\ Fixed

(* Seeded fault: the connection is deleted only while bytes are left. *)
EmptiedNot == wbuf # <<>>

(* What processWrite tests after it has sent. *)
Emptied == wbuf = <<>>

processWriteReturns ==
  /\ pc = "written"
  /\ IF Emptied THEN tcpConnectionDestory ELSE pc' = "scan"
  /\ UNCHANGED <<back, watch, due, readVars, replyVars, wbuf, out, loopVars>> /\ Fixed
-----------------------------------------------------------------------------
(***************************************************************************)
(* parseHttpRequest, line by line.                                         *)
(***************************************************************************)
Undefined == pc' = "undefined" /\ UNCHANGED <<parsed, request>>

ParseLine ==
  /\ pc = "parse" /\ request.curState = "ParseReqLine"
  /\ \E b \in {Unread} : \E line \in {Line(b)} :
       /\ ~LineFails(b)
       /\ IF LineUndefined(line) THEN Undefined
          ELSE /\ request' = parseHttpRequestLine(request, line)
               /\ parsed' = taken - Len(AfterLine(b))
               /\ UNCHANGED pc
  /\ UNCHANGED <<back, watch, due, taken, replyVars, wbuf, out, loopVars>> /\ Fixed

ParseHead ==
  /\ pc = "parse" /\ request.curState = "ParseReqHeaders"
  /\ \E b \in {Unread} : \E line \in {Line(b)} :
       /\ ~HeadFails(b)
       /\ IF HeadUndefined(request, line) THEN Undefined
          ELSE /\ request' = parseHttpRequestHead(request, line)
               /\ parsed' = taken - Len(UnreadAfter(b, line))
               /\ pc' = IF IsHeader(line) THEN "parse" ELSE "process"
  /\ UNCHANGED <<back, watch, due, taken, replyVars, wbuf, out, loopVars>> /\ Fixed

(* processRead appends its "400 Bad Request", which nobody sends. *)
ParseFails ==
  /\ pc = "parse"
  /\ \/ request.curState = "ParseReqLine" /\ LineFails(Unread)
     \/ request.curState = "ParseReqHeaders" /\ HeadFails(Unread)
  /\ wbuf' = Append(wbuf, <<"error", 400>>) /\ pc' = "finish"
  /\ UNCHANGED <<back, watch, due, readVars, replyVars, out, loopVars>> /\ Fixed
-----------------------------------------------------------------------------
(***************************************************************************)
(* The answer.                                                             *)
(***************************************************************************)
(* The name processHttpRequest gives to stat. *)
FileNamed(url) == IF url = <<"/">> THEN "./" ELSE IF url = <<"/file">> THEN "file" ELSE "none"

stat(f) == IF f = "./" THEN "directory"
           ELSE IF f \in DOMAIN disk /\ disk[f] # Absent THEN "file" ELSE "fails"

(* What stands in the response of an earlier request stays there: the       *)
(* headers, and, if this one is no GET, all of it.                          *)
Answer(r) ==
  LET f == FileNamed(r.url)
      typed == HttpResponseAddHeader(response, <<"type", 0>>)
  IN  IF r.method # <<"GET">> THEN response
      ELSE CASE stat(f) = "fails" ->
                  [typed EXCEPT !.statusCode = NotFound, !.fileName = "404.html",
                                !.sendDataFunc = "sendFile"]
             [] stat(f) = "directory" ->
                  [typed EXCEPT !.statusCode = OK, !.fileName = f, !.sendDataFunc = "sendDir"]
             [] stat(f) = "file" ->
                  [HttpResponseAddHeader(typed, <<"length", disk[f]>>) EXCEPT
                     !.statusCode = OK, !.fileName = f, !.sendDataFunc = "sendFile"]

processHttpRequest ==
  /\ pc = "process"
  /\ response' = Answer(request) /\ served' = served + 1
  /\ pc' = IF Overflows(response') THEN "undefined" ELSE "prepare"
  /\ UNCHANGED <<back, watch, due, readVars, wbuf, out, loopVars>> /\ Fixed

(* bufferSendData, and where it returns to; with MSG_SEND_AUTO processWrite *)
(* is to send instead.                                                      *)
SendThen(next) == pc' = "send" /\ back' = next
SendUnlessAuto(next) == IF AutoSend THEN pc' = next /\ UNCHANGED back ELSE SendThen(next)

PrepareMsg ==
  /\ pc = "prepare"
  /\ wbuf' = wbuf \o httpResponsePrepareMsg(response)
  /\ SendUnlessAuto(CASE response.sendDataFunc = "NULL" -> "finish"
                      [] response.sendDataFunc = "sendFile" -> "open"
                      [] response.sendDataFunc = "sendDir" -> "dir")
  /\ offset' = 0 /\ goal' = DirEntries
  /\ UNCHANGED <<watch, due, readVars, replyVars, out>> /\ Fixed

(* send passes on what the client has room for, and blocks until it has    *)
(* room for all.                                                           *)
SendChunk ==
  /\ pc = "send" /\ wbuf # <<>> /\ client # "reset" /\ Room
  /\ out' = Append(out, Head(wbuf)) /\ wbuf' = Tail(wbuf)
  /\ UNCHANGED <<pc, back, watch, due, readVars, replyVars, loopVars>> /\ Fixed

bufferSendDataReturns ==
  /\ pc = "send" /\ wbuf = <<>> /\ pc' = back
  /\ UNCHANGED <<back, watch, due, readVars, replyVars, wbuf, out, loopVars>> /\ Fixed

(* lseek's result in an int. *)
AsInt(n) == ((n + IntMax + 1) % (2 * (IntMax + 1))) - (IntMax + 1)

(* Seeded fault: the end is taken for a byte of the file. *)
SizeFoundOneMore(n) == AsInt(n) + 1

SizeFound(n) == AsInt(n)

(* sendFile up to its loop. *)
OpenFile ==
  LET size == disk[response.fileName] IN
    /\ pc = "open"
    /\ offset' = 0
    /\ IF size = Absent
       THEN /\ wbuf' = Append(wbuf, <<"text", 0>>)
            /\ SendUnlessAuto("finish")
            /\ UNCHANGED goal
       ELSE /\ goal' = SizeFound(size) /\ pc' = "file"
            /\ UNCHANGED <<back, wbuf>>
    /\ UNCHANGED <<watch, due, readVars, replyVars, out>> /\ Fixed

(* Bytes of the open file; a file that was removed can still be read. *)
Available == IF disk[response.fileName] = Absent THEN goal ELSE disk[response.fileName]

(* sendfile, which goes past the write buffer.  At the end of the file it   *)
(* returns 0 at once, and is called again and again.                        *)
SendFile ==
  /\ pc = "file" /\ offset < goal /\ offset < Available
  /\ client # "reset" /\ Room
  /\ out' = Append(out, <<"body", offset>>) /\ offset' = offset + 1
  /\ UNCHANGED <<pc, back, watch, due, readVars, replyVars, wbuf, goal>> /\ Fixed

sendFileReturns ==
  /\ pc = "file" /\ offset >= goal /\ pc' = "finish"
  /\ UNCHANGED <<back, watch, due, readVars, replyVars, wbuf, out, loopVars>> /\ Fixed

(* Sending to a client that has reset the connection fails, or, at the      *)
(* latest the second time, raises SIGPIPE, which nobody handles.  At the end *)
(* of a file cut short sendfile returns 0 before it looks at the socket.    *)
SendFails ==
  /\ client = "reset"
  /\ \/ pc = "send" /\ wbuf # <<>> /\ pc' \in {back, "killed"}
     \/ pc = "file" /\ offset < goal /\ offset < Available /\ pc' \in {"finish", "killed"}
  /\ UNCHANGED <<back, watch, due, readVars, replyVars, wbuf, out, loopVars>> /\ Fixed

(* Every name is sent on its own, in every build. *)
SendDir ==
  /\ pc = "dir"
  /\ IF offset < goal
     THEN /\ wbuf' = Append(wbuf, <<"entry", offset>>)
          /\ SendThen("dir") /\ offset' = offset + 1
     ELSE /\ wbuf' = Append(wbuf, <<"text", 0>>)
          /\ SendUnlessAuto("finish") /\ UNCHANGED offset
  /\ UNCHANGED <<watch, due, readVars, replyVars, out, goal>> /\ Fixed
-----------------------------------------------------------------------------
Server == \/ Poll \/ EndScan \/ processRead \/ processReadReturns
          \/ processWrite \/ processWriteReturns
          \/ ParseLine \/ ParseHead \/ ParseFails
          \/ processHttpRequest \/ PrepareMsg
          \/ SendChunk \/ bufferSendDataReturns \/ SendFails
          \/ OpenFile \/ SendFile \/ sendFileReturns \/ SendDir

Next == Server \/ ClientSends \/ ClientLeaves \/ ClientReads \/ FileChanges

Spec == Init /\ [][Next]_vars

(* The scheduler runs the loop's thread; clients may do nothing for ever. *)
FairSpec == Spec /\ WF_vars(Server)
-----------------------------------------------------------------------------
(***************************************************************************)
(* Properties.                                                             *)
(***************************************************************************)
WellFormed(r) ==
  /\ Len(r.line) = 7 /\ {r.line[i] : i \in {1, 3, 5}} \subseteq Word
  /\ r.line = <<r.line[1], "SP", r.line[3], "SP", r.line[5], "CR", "LF">>
  /\ \A h \in Range(r.head) : /\ Len(h) = 6 /\ {h[1], h[4]} \subseteq Word
                              /\ h = <<h[1], "COLON", "SP", h[4], "CR", "LF">>

HeadersOf(r) == [i \in DOMAIN r.head |-> [key |-> <<r.head[i][1]>>, value |-> <<r.head[i][4]>>]]
Headers(k)   == FlattenSeq([i \in 1 .. k |-> HeadersOf(script[i])])

First == script[1]

Refused == \E i \in DOMAIN (out \o wbuf) : (out \o wbuf)[i] = <<"error", 400>>

(* However the bytes arrive, in one piece or many, with or without those of *)
(* the next request: what is processed is the request that was sent, with   *)
(* all its headers, those of earlier requests in front.                     *)
ParsedAsSent ==
  pc = "process" /\ (\A i \in 1 .. served + 1 : WellFormed(script[i])) =>
    LET r == script[served + 1] IN
      /\ request.method = <<r.line[1]>> /\ request.url = <<r.line[3]>>
      /\ request.reqHeaders = Headers(served + 1)

(* The reply to the first request, while no file changes: its body has the  *)
(* bytes an int can count.                                                  *)
Body(size) == [i \in 1 .. (IF AsInt(size) < 0 THEN 0 ELSE AsInt(size)) |-> <<"body", i - 1>>]

Page == IF disk["404.html"] = Absent THEN <<<<"text", 0>>>> ELSE Body(disk["404.html"])

FirstReply ==
  IF First.line[1] # "GET" THEN <<<<"status", Unknown>>, <<"blank", 0>>>>
  ELSE CASE stat(FileNamed(<<First.line[3]>>)) = "fails" ->
              <<<<"status", NotFound>>, <<"type", 0>>, <<"blank", 0>>>> \o Page
         [] stat(FileNamed(<<First.line[3]>>)) = "file" ->
              <<<<"status", OK>>, <<"type", 0>>, <<"length", disk["file"]>>, <<"blank", 0>>>>
                \o Body(disk["file"])
         [] OTHER ->
              <<<<"status", OK>>, <<"type", 0>>, <<"blank", 0>>>>
                \o [i \in 1 .. DirEntries |-> <<"entry", i - 1>>] \o <<<<"text", 0>>>>

(* Status, headers, blank line and body reach the client in this order,    *)
(* each once: head and directory through the write buffer, files past it.  *)
(* With the flag the head waits for POLLOUT, and a file overtakes it, that  *)
(* of the next request, too.                                               *)
BodySent == \E i \in DOMAIN out : out[i][1] = "body"

ReplyInOrder ==
  WellFormed(First) /\ ~changed /\ ~Refused
    /\ (build = "flag" => ~BodySent) =>
    IsPrefix(out, FirstReply) \/ IsPrefix(FirstReply, out)

(* A connection is released only with its answer on the wire: the whole of *)
(* it, or the 400; without one, only if nothing was ever read.             *)
ReleasedWhole ==
  pc = "closed" =>
    \/ <<"error", 400>> \in Range(out)
    \/ served = 0 /\ taken = 0
    \/ served > 0 /\ (WellFormed(First) /\ ~changed /\ client # "reset" =>
                        Range(FirstReply) \subseteq Range(out))

(* The first request, if it is well formed and its reads end where it ends,*)
(* and if its client stays, is never left without a release: bytes stay in  *)
(* a buffer only of requests cut in two, or followed by more.               *)
StrandedOnlyWhen ==
  pc = "stranded" =>
    client = "reset" \/ ~WellFormed(First) \/ taken # Len(Encode(First))

(* The parser leaves defined behaviour only on a request that is not well   *)
(* formed, or on more headers than its array holds: in the default build    *)
(* of one request, in the others of all requests so far.                    *)
UndefinedOnlyWhen ==
  pc = "undefined" =>
    IF AutoConn THEN \/ \E i \in DOMAIN script : ~WellFormed(script[i])
                     \/ Len(Headers(Len(script))) > HeaderSize
                     \/ Overflows(response)
                ELSE ~WellFormed(First) \/ Len(First.head) > HeaderSize

FileCut      == pc = "file" /\ offset < goal /\ offset >= Available
ClientStalls == pc \in {"send", "file"} /\ client # "reset" /\ ~Room

(* Every callback returns, so that the loop can serve its other clients:    *)
(* unless this client stops reading, as send and sendfile block, or the     *)
(* file sendFile is sending was made shorter, and its loop never ends.      *)
HandlerReturns ==
  \/ []<>(pc \in {"idle"} \cup Ended)
  \/ <>[](ClientStalls \/ (FileCut /\ changed))

(* A connection that has been answered comes to its end.  Not in the        *)
(* header's build: there the answer has already been sent when POLLOUT is   *)
(* reported, processWrite finds nothing to send and deletes nothing.  Nor    *)
(* where the client resets the connection, or stops reading for ever.       *)
AnsweredIsEnded ==
  build # "header" =>
    \/ [](served = 0)
    \/ <>(pc \in Ended \/ client = "reset")
    \/ <>[](~Room \/ FileCut)
=============================================================================
