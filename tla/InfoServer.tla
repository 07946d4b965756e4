------------------------------ MODULE InfoServer ------------------------------
(***************************************************************************)
(* The info thread (server/info_thread.cpp), which serves one connection   *)
(* after the other, the clients that ask for an image before they restore  *)
(* it (getImageInfo in client/main.cpp), and the list they ask about,      *)
(* which is loaded again under the lock that the info thread reads with.   *)
(***************************************************************************)
EXTENDS ImageCache

CONSTANTS Clients,
          Asks,    \* client -> image
          MaxOpen, \* with so many descriptors there is no room for a request
          None

ASSUME InfoAssumption == /\ Asks \in [Clients -> Names] /\ MaxOpen \in Nat
                         /\ None \notin Clients

VARIABLES ipc,     \* client -> where it is in getImageInfo
          backlog, \* connections not accepted yet; fewer than listen's 10
          tpc,     \* info thread: "off", "accept", "parse", "reply" or "body"
          served,  \* its client
          ok,      \* validRequest
          open     \* descriptors that nobody will close

infoVars == <<ipc, backlog, tpc, served, ok, open>>
vars == <<cacheVars, infoVars>>

Init == /\ CInit
        /\ ipc = [c \in Clients |-> "idle"] /\ backlog = <<>>
        /\ tpc = "off" /\ served = None /\ ok = FALSE /\ open = 0

-----------------------------------------------------------------------------
\* the client

Goes(c, from, to) == ipc[c] \in from /\ ipc' = [ipc EXCEPT ![c] = to]

connect(c) == /\ tpc # "off" /\ Goes(c, {"idle"}, "connected")
              /\ backlog' = Append(backlog, c)
              /\ UNCHANGED <<cacheVars, tpc, served, ok, open>>

\* write and shutdown(SHUT_WR); it is killed, of which the server notices the
\* end of the header that is missing; or its host is gone, which nobody notices
ClientStep(c) == /\ \/ Goes(c, {"connected"}, "asked")
                    \/ Goes(c, {"connected"}, "failed")
                    \/ Goes(c, {"asked"}, "left")
                    \/ Goes(c, {"connected"}, "silent")
                 /\ UNCHANGED <<cacheVars, backlog, tpc, served, ok, open>>

-----------------------------------------------------------------------------
\* the info thread

\* main starts it after the first load
startProc == /\ tpc = "off" /\ lpc = "idle" /\ tpc' = "accept"
             /\ UNCHANGED <<cacheVars, ipc, backlog, served, ok, open>>

accept == /\ tpc = "accept" /\ backlog # <<>> /\ open < MaxOpen
          /\ tpc' = "parse" /\ served' = Head(backlog)
          /\ backlog' = Tail(backlog)
          /\ UNCHANGED <<cacheVars, ipc, ok, open>>

BadUnlocked == TRUE                                    \* no Reader
Unlocked == lpc = "idle"

\* A Reader looks the name up.  (Clients send their digest in a header "dig";
\* the digest that is compared with the image's is in a header "digest".)
\* What mkstemp has opened stays open.
parse == /\ tpc = "parse" /\ ipc[served] \in {"asked", "left"} /\ Unlocked
         /\ tpc' = "reply" /\ ok' = (Asks[served] \in NamesOf(infoList))
         /\ open' = IF ok' THEN open + 1 ELSE open
         /\ UNCHANGED <<cacheVars, ipc, backlog, served>>

BadGone(c) == FALSE                                    \* waits for ever
Gone(c) == ipc[c] = "failed"

\* end of file before the end of the header: the parser closes the socket
hangup == /\ tpc = "parse" /\ Gone(served)
          /\ tpc' = "accept" /\ served' = None
          /\ UNCHANGED <<cacheVars, ipc, backlog, ok, open>>

Tell(c, state) == IF ipc[c] = "left" THEN ipc ELSE [ipc EXCEPT ![c] = state]

BadAfter == IF ok THEN "body" ELSE "parse"             \* no return
After == IF ok THEN "body" ELSE "accept"

\* a refused connection is not closed
reply == /\ tpc = "reply" /\ tpc' = After
         /\ ipc' = Tell(served, IF ok THEN "told" ELSE "refused")
         /\ served' = IF ok THEN served ELSE None
         /\ open' = IF ok THEN open ELSE open + 1
         /\ UNCHANGED <<cacheVars, backlog, ok>>

body == /\ tpc = "body" /\ tpc' = "accept"
        /\ ipc' = Tell(served, "answered") /\ served' = None /\ ok' = FALSE
        /\ UNCHANGED <<cacheVars, backlog, open>>

\* The whole server is killed, also by SIGPIPE when it writes to a client that
\* is gone.  A client that has read the 200 takes what it was sent of the list
\* for an entry; the others fail.
kill == /\ Crash /\ tpc' = "off" /\ served' = None /\ backlog' = <<>>
        /\ ok' = FALSE /\ open' = 0
        /\ ipc' = [c \in Clients |->
                     CASE ipc[c] \in {"connected", "asked"} -> "failed"
                       [] ipc[c] = "told" -> "misled"
                       [] OTHER -> ipc[c]]

-----------------------------------------------------------------------------
Next == \/ (parseConfig \/ LoadStep \/ Outside) /\ UNCHANGED infoVars
        \/ startProc \/ accept \/ parse \/ hangup \/ reply \/ body
        \/ \E c \in Clients : connect(c) \/ ClientStep(c)
        \/ kill

(* The threads run.  Loads are half an hour apart, so that the lock is free
   again and again.  Nothing is assumed about clients, reloads and crashes. *)
Spec == /\ Init /\ [][Next]_vars
        /\ WF_vars(LoadStep /\ UNCHANGED infoVars)
        /\ WF_vars(startProc \/ accept \/ hangup \/ reply \/ body)
        /\ SF_vars(parse)

-----------------------------------------------------------------------------
(* Types; a connection waits in the backlog or is the one that is served, and
   not both, and only the one that is served knows half of an answer. *)
TypeOK ==
    /\ ipc \in [Clients -> {"idle", "connected", "silent", "asked", "left",
                            "told", "answered", "refused", "misled",
                            "failed"}]
    /\ backlog \in Seq(Clients)
    /\ \A j, k \in DOMAIN backlog : backlog[j] = backlog[k] => j = k
    /\ \A k \in DOMAIN backlog : backlog[k] # served
    /\ tpc \in {"off", "accept", "parse", "reply", "body"}
    /\ served \in Clients \cup {None} /\ ok \in BOOLEAN
    /\ (served = None) <=> tpc \in {"off", "accept"}
    /\ \A c \in Clients : ipc[c] = "told" => served = c /\ tpc = "body"
    /\ open \in 0..MaxOpen

(* As long as there are descriptors, no host is gone, and no client that has
   connected keeps the others waiting without an end, every client that asks
   is answered, unless it or the server is killed. *)
EveryoneAnswered ==
    \A c \in Clients :
       (\A d \in Clients : []<>(ipc[d] \notin {"connected", "silent"}))
       => []<>(ipc[c] # "asked" \/ open >= MaxOpen)

(* An image that all the time is named, has a path and a file is never refused,
   whatever is reloaded meanwhile and whatever a crash left of the cache. *)
AvailableIsFound ==
    \A c \in Clients : Asks[c] \notin lacked => ipc[c] # "refused"

-----------------------------------------------------------------------------
\* The steps that TypeOK and AvailableIsFound rely on.

\* who has connected once does not connect again
Queued == /\ \A k \in DOMAIN backlog : ipc[backlog[k]] # "idle"
          /\ served # None => ipc[served] # "idle"

\* there is a descriptor left for what the request will leave open
Room == /\ tpc = "parse" => open < MaxOpen
        /\ tpc = "reply" /\ ~ ok => open < MaxOpen

\* what the info thread has not found was lacking
Refused == tpc = "reply" /\ ~ ok => Asks[served] \in lacked

Serving == Queued /\ Room /\ Refused /\ AvailableIsFound

(* The info thread between two steps, beside a load between two of its own: it
   refuses only what lacked, as the list that it reads under the lock has
   everything else.  This is what makes the invariants above inductive. *)
SInv == CInv /\ Serving
=============================================================================
