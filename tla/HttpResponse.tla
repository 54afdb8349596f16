---------------------------- MODULE HttpResponse ----------------------------
(***************************************************************************)
(* The answer to a request (HttpResponse.c), as functions of the response. *)
(*                                                                         *)
(* A reply is a sequence of chunks: what it is made of, without the        *)
(* wording.                                                                *)
(***************************************************************************)
EXTENDS Integers, Sequences

CONSTANTS File,           \* names of files and directories
          ResHeaderSize   \* headers the array of headers holds: 28 in the source,
                          \* which allocates 16 times the size of an HttpResponse

(* One answer has at most two. *)
ASSUME HttpResponseAssumption == ResHeaderSize \in Nat /\ ResHeaderSize >= 2

Unknown  == 0
OK       == 200
NotFound == 404

Chunk == {"status", "type", "length", "blank", "body", "entry", "text", "error"} \X Int

(* struct HttpResponse; the file name is empty until a request sets it. *)
HttpResponse == [statusCode   : {Unknown, OK, NotFound},
                 fileName     : File \cup {""},
                 headers      : Seq(Chunk),
                 sendDataFunc : {"NULL", "sendFile", "sendDir"}]

httpResponseInit == [statusCode |-> Unknown, fileName |-> "", headers |-> <<>>,
                     sendDataFunc |-> "NULL"]

HttpResponseAddHeader(response, header) ==
  [response EXCEPT !.headers = Append(@, header)]

(* A header behind the last place is stored past the array. *)
Overflows(response) == Len(response.headers) > ResHeaderSize

(* Seeded fault: the blank line is sent in front of the headers. *)
httpResponsePrepareMsgBlankFirst(response) ==
  <<<<"status", response.statusCode>>, <<"blank", 0>>>> \o response.headers

(* What httpResponsePrepareMsg appends to the write buffer before it sends. *)
httpResponsePrepareMsg(response) ==
  <<<<"status", response.statusCode>>>> \o response.headers \o <<<<"blank", 0>>>>
=============================================================================
