--------------------------- MODULE MCHttpExchange ---------------------------
(* The conversations of the run: every kind of answer, the parser's limits, *)
(* and requests the parser takes for something else.                        *)
EXTENDS HttpExchange

Header == <<"K", "COLON", "SP", "W", "CR", "LF">>
Tight  == <<"K", "COLON", "W", "CR", "LF">>

Request(method, url, head) ==
  [line |-> <<method, "SP", url, "SP", "V", "CR", "LF">>, head |-> head]

Plain(url) == Request("GET", url, <<>>)
Short      == [line |-> <<"GET", "SP", "/file", "CR", "LF">>, head |-> <<>>]
Blank      == [line |-> <<"CR", "LF">>, head |-> <<>>]

MCScripts ==
  {<<Request("GET", "/", <<Header>>)>>,
   <<Request("GET", "/file", <<Header, Header>>)>>,
   <<Plain("/missing")>>,
   <<Request("POST", "/file", <<>>), Plain("/file")>>,
   <<Request("GET", "/file", <<Tight>>)>>,
   <<Short>>,
   <<Blank, Plain("/")>>,
   <<Plain("/file"), Request("POST", "/", <<Header>>)>>,
   <<Plain("/missing"), Plain("/file")>>}

MCDisks == {[f \in {"file", "404.html"} |-> IF f = "file" THEN 2 ELSE 1],
            [f \in {"file", "404.html"} |-> IF f = "file" THEN 3 ELSE Absent]}
=============================================================================
