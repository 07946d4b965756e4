------------------------------ MODULE RSMessages ------------------------------
(***************************************************************************)
(* Requests and responses (common/rs): the lines that the one side makes   *)
(* of them and what the other side reads in these lines.                   *)
(***************************************************************************)
EXTENDS Integers, Sequences, Helpers

\* the names that are sent, in the order of a std::map
HeaderOrder == << <<"dig">>, <<"error">>, <<"from">>, <<"to">> >>

NoHeaders == << >>
setHeader(headers, name, value) ==
    [n \in DOMAIN headers \cup {name} |->
        IF n = name THEN value ELSE headers[n]]

getHeader(headers, name, default) ==
    IF name \in DOMAIN headers THEN headers[name] ELSE default

\* getLines, without the ends of lines and the empty line
getLines(firstLine, headers) ==
    LET line(n) == n \o <<":", " ">> \o headers[n]
        upTo[k \in 0..Len(HeaderOrder)] ==
           IF k = 0 THEN <<firstLine>>
           ELSE IF HeaderOrder[k] \notin DOMAIN headers THEN upTo[k - 1]
           ELSE Append(upTo[k - 1], line(HeaderOrder[k]))
    IN  upTo[Len(HeaderOrder)]

-----------------------------------------------------------------------------
(* ClientRequest and ServerResponse *)

RequestLine(image) == <<"GET", " ">> \o image \o <<" ", "RS/1.0">>

\* getImageInfo; the name's digest is one character
infoRequest(image) ==
    [image |-> image, headers |-> setHeader(NoHeaders, <<"dig">>, <<"md5">>)]

\* sendRequest, numbers being one character
partRequest(image, from, to) ==
    [image |-> image,
     headers |-> setHeader(setHeader(NoHeaders, <<"from">>, from),
                           <<"to">>, to)]

RequestLines(r) == getLines(RequestLine(r.image), r.headers)

ResponseLine(status, statusText) == <<"RS/1.0", " ", status, " ", statusText>>

OK == <<>>                                 \* no error

\* what the lookups and checks of both servers find: INVALID_DIGEST,
\* INVALID_PARTS, INVALID_FROM, INVALID_TO, or NOT_SET; what follows the first
\* word is one character
Errors == {<<"Image", " ", "not found">>, <<"Image", " ", "found but">>,
           <<"Value", " ", "of 'from' or 'to'">>,
           <<"Value", " ", "of 'from'">>, <<"Value", " ", "of 'to'">>}

\* INVALID_REQUEST: the number of the line is not appended but added to the
\* pointer to the literal, of which so many characters are missing (the run's
\* headers have three lines at most)
InvalidRequest(error) ==
    <<<<"Request", "equest", "quest">>[error + 1], " ", "is invalid">>

ResponseLines(error) ==
    IF error = OK THEN getLines(ResponseLine("200", "OK"), NoHeaders)
    ELSE getLines(ResponseLine("400", "Problem with request"),
                  setHeader(NoHeaders, <<"error">>, error))

-----------------------------------------------------------------------------
(* ServerRequest and ClientResponse *)

\* the loop over the lines after the first: the number of the first one that
\* is not a header, or -1, and the headers before it; of two headers with the
\* same name the last one counts
IsHeader(line) == LET parts == splitByEx(":", line)
                  IN  /\ Len(parts) = 2
                      /\ trimEx(parts[1]) # <<>> /\ trimEx(parts[2]) # <<>>

HeadersIn(lines) ==
    LET bad == {i \in 2..Len(lines) : ~ IsHeader(lines[i])}
        end == CHOOSE e \in 2..(Len(lines) + 1) :
                  /\ bad \cap 2..(e - 1) = {}
                  /\ e <= Len(lines) => e \in bad
        name(i) == trimEx(splitByEx(":", lines[i])[1])
        last(n) == CHOOSE i \in 2..(end - 1) :
                      /\ name(i) = n
                      /\ \A j \in (i + 1)..(end - 1) : name(j) # n
    IN  [error |-> IF end > Len(lines) THEN -1 ELSE end - 1,
         headers |-> [n \in {name(i) : i \in 2..(end - 1)} |->
                         trimEx(splitByEx(":", lines[last(n)])[2])]]

NoRequest(error) == [error |-> error, url |-> <<>>, headers |-> NoHeaders]

ServerRequest(lines) ==
    LET words == split(lines[1]) IN
    IF Len(lines) < 2 THEN NoRequest(2)
    ELSE IF Len(words) # 3 \/ words[1] # <<"GET">> \/ words[3] # <<"RS/1.0">>
    THEN NoRequest(0)
    ELSE [error |-> HeadersIn(lines).error, url |-> words[2],
          headers |-> HeadersIn(lines).headers]

ClientResponse(lines) ==
    LET first == splitByEx(" ", lines[1])
        second == splitByEx(" ", first[2])
        empty == [error |-> 0, status |-> <<>>, headers |-> NoHeaders]
    IN  IF lines = <<>> THEN [empty EXCEPT !.error = 2]
        ELSE IF Len(first) # 2 \/ first[1] # <<"RS/1.0">> THEN empty
        ELSE IF Len(second) # 2 THEN empty
        ELSE [error |-> HeadersIn(lines).error, status |-> second[1],
              headers |-> HeadersIn(lines).headers]
=============================================================================
