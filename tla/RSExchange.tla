------------------------------ MODULE RSExchange ------------------------------
(***************************************************************************)
(* A request and its answer: what a peer sends is cut into lines and read  *)
(* by a request thread or the info thread, which answer; the client cuts   *)
(* and reads the answer and takes what follows it.                         *)
(***************************************************************************)
EXTENDS RSParser, RSMessages

CONSTANT Requests      \* what the client may ask, see RequestLines

ASSUME ExchangeAssumption == \A r \in Requests : RequestLines(r) \in Headers

VARIABLES hop,         \* "request", "response" or "over"
          sent,        \* history: header of the request
          request,     \* the server's ServerRequest
          verdict,     \* error that the server has found, or OK
          response,    \* the client's ClientResponse
          data         \* the client's file of what follows the response

talk == <<hop, sent, request, verdict, response, data>>
allVars == <<vars, talk>>

XInit == /\ Init /\ hop = "request" /\ sent = header
         /\ request = NoRequest(-1) /\ verdict = OK
         /\ response = ClientResponse(<<>>) /\ data = <<>>

-----------------------------------------------------------------------------
Parse == Next /\ UNCHANGED talk

\* The header is complete: the request is read, looked up and checked, which
\* may find any error (see InfoServer and RestoreServer), and answered; the
\* client's parser is a new one.
answer == /\ hop = "request" /\ pc = "done" /\ hop' = "response"
          /\ request' = ServerRequest(lines)
          /\ verdict' \in IF request'.error # -1
                          THEN {InvalidRequest(request'.error)}
                          ELSE {OK} \cup Errors
          /\ header' = ResponseLines(verdict')
          /\ body' \in IF verdict' = OK THEN Bodies ELSE {<<>>}
          /\ pos' = 0 /\ helper' = NewHelper /\ lines' = <<>>
          /\ pc' = "read" /\ retval' = 1
          /\ UNCHANGED <<sent, response, data>>

BadTaken(n) == SubSeq(Input, pos + 1, n)           \* without what was parsed
Taken(n) == getRemainingData \o SubSeq(Input, pos + 1, n)

\* 200: what the parser has left and what can be read until the end of the
\* connection, or until the server is killed, is written to a file.  (After a
\* request for blocks nothing follows.)
receive == /\ hop = "response" /\ pc = "done" /\ hop' = "over"
           /\ response' = ClientResponse(lines)
           /\ data' \in IF response'.status = <<"200">>
                        THEN {Taken(n) : n \in pos..Len(Input)} ELSE {<<>>}
           /\ UNCHANGED <<vars, sent, request, verdict>>

XNext == Parse \/ answer \/ receive

XSpec == XInit /\ [][XNext]_allVars

-----------------------------------------------------------------------------
(* However the header came, the server reads what the client asked for: the
   image, without blanks around its name, and each header; and a name of no or
   several words, which no image has, is an error in line 0, never a request
   for another image. *)
RequestUnderstood ==
    hop # "request" =>
       \A r \in Requests : sent = RequestLines(r) =>
          IF Len(split(r.image)) = 1
          THEN request = [error |-> -1, url |-> split(r.image)[1],
                          headers |-> r.headers]
          ELSE request = NoRequest(0)

(* The client goes on if and only if the server has accepted the request, with
   nothing but a beginning of what the server sent after the response; if the
   server has not, the client has an error and a second line to print
   (client/main.cpp:517). *)
AnswerUnderstood ==
    hop = "over" =>
       /\ response.status = <<"200">> <=> verdict = OK
       /\ \E n \in 0..Len(body) : data = SubSeq(body, 1, n)
       /\ verdict # OK =>
             /\ Len(lines) > 1
             /\ getHeader(response.headers, <<"error">>, <<>>) # <<>>
=============================================================================
