----------------------------- MODULE MCRSExchange -----------------------------
(* The client's requests, for images and for blocks, headers of up to three
   short lines, and some that are nearly requests. *)
EXTENDS RSExchange

Names == {<<"a">>, <<" ", "a", " ">>, <<"a", " ", "b">>, <<>>}
SomeRequests == {infoRequest(n) : n \in Names} \cup
                {partRequest(n, <<"0">>, <<"5">>) : n \in Names}

Lines == {<<"x">>, <<"x", "y">>, <<"y", "x", "x">>}
Short == UNION {[1..n -> Lines] : n \in 1..3}

Get == RequestLine(<<"a">>)
HeaderLines == {<<"from">>, <<"from", ":">>, <<":", "5">>,
                <<"from", " ", ":", "0", " ", "5">>, <<"from", ":", ":">>}
NearlyRequests == {<<Get>>, <<<<"GET", " ", "a", " ", "RS/1.1">>, <<"x">>>>}
                  \cup {<<Get, l>> : l \in HeaderLines}
                  \cup {<<Get, <<"from", ":", "0">>, l>> : l \in HeaderLines}

AllHeaders == {RequestLines(r) : r \in SomeRequests} \cup Short
              \cup NearlyRequests
AllBodies == {<<>>, <<"z">>, <<"z", LF>>, <<CR, LF, "z">>}
TwoLines == {<<<<"x", "y">>, <<"x">>>>}
NoBody == {<<>>}
NoRequests == {}
=============================================================================
