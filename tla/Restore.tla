------------------------------- MODULE Restore -------------------------------
(***************************************************************************)
(* The server and its clients (client/main.cpp).  A client asks over TCP   *)
(* for the first run of blocks it misses, and takes every block of its     *)
(* image off the broadcast, whoever asked for it.  Datagrams get lost,     *)
(* late, out of order and twice; server and clients may crash and start    *)
(* again.  Image files do not change here.  A block is one unit of         *)
(* Compare, B = 1, and K of them have a checksum.                          *)
(***************************************************************************)
EXTENDS RestoreServer, Compare

CONSTANTS Clients,
          Wanted,       \* functions: client -> the image it is started for
          Targets,      \* client -> its target file at the start
          Junk,         \* contents of holes, and the byte that ends a file
          NoHandler,
          MaxQueue,     \* bound: no connection while the queue is that long
          MaxFaults     \* bound of the crashes and the writes that stop half-way

ASSUME RestoreAssumption ==
    /\ Wanted \subseteq [Clients -> Images] /\ DOMAIN Targets = Clients
    /\ NoHandler \notin Handlers
    /\ B = 1
    /\ MaxQueue \in Nat /\ MaxFaults \in Nat

VARIABLES wanted,     \* the one of Wanted that the clients were started with
          cpc,        \* client -> "start", "loop" or "done"
          conn,       \* client -> the handler it waits for in sendRequest
          target,     \* client -> its target file
          ready, end, \* client -> the blocks it has; its last block
          inbox,      \* client -> datagrams sent to it and not yet received
          doubtful,   \* history: client -> blocks that were marked without
                      \* being written wholly or compared
          faults

clientVars == <<cpc, conn, target, ready, end, inbox, doubtful>>
serverVars == vars
allVars == <<serverVars, clientVars, faults>>

RInit == /\ Init
         /\ wanted \in Wanted
         /\ cpc = [c \in Clients |-> "start"]
         /\ conn = [c \in Clients |-> NoHandler]
         /\ target = Targets
         /\ ready = [c \in Clients |-> {}]
         /\ end = [c \in Clients |-> -1]
         /\ inbox = [c \in Clients |-> {}]
         /\ doubtful = [c \in Clients |-> {}]
         /\ faults = 0

-----------------------------------------------------------------------------
\* the answer of the info thread: without it the client ends
getImageInfo(c) == info[wanted[c]] # Unlisted

\* the target gets its size, if the disk has room, and the two files are
\* compared
Start(c) ==
    /\ cpc[c] = "start" /\ getImageInfo(c)
    /\ LET image == disk[wanted[c]] IN
       /\ end' = [end EXCEPT ![c] = LastBlock(image)]
       /\ \E file \in Extensions(target[c], Len(image), Junk, Junk) :
          \E stray \in SUBSET Unsummed(image, file) :
          \E lastEqual \in LastEqual(image, file) :
             LET marks == Marks(image, file, stray, lastEqual)
             IN  /\ target' = [target EXCEPT ![c] = file]
                 /\ ready' = [ready EXCEPT ![c] = marks]
                 /\ doubtful' = [doubtful EXCEPT ![c] =
                                   {i \in marks : i \div K \in stray}]
    /\ cpc' = [cpc EXCEPT ![c] = "loop"]
    /\ UNCHANGED <<serverVars, conn, inbox, faults>>

InLoop(c) == cpc[c] = "loop" /\ conn[c] = NoHandler

BadMissing(c) == FirstGap(ready[c], end[c])             \* a bit too few
BadEnd(c) == FirstGap(ready[c], end[c] + 2)             \* a bit too many
Missing(c) == FirstGap(ready[c], end[c] + 1)            \* ready.intv

\* select times out: as the socket's datagrams may be on their way, at any time
Finish(c) == /\ InLoop(c) /\ Missing(c).to = -1         \* R E A D Y
             /\ cpc' = [cpc EXCEPT ![c] = "done"]
             /\ inbox' = [inbox EXCEPT ![c] = {}]
             /\ UNCHANGED <<serverVars, conn, target, ready, end, doubtful,
                            faults>>

sendRequest(c, h) ==
    /\ InLoop(c) /\ Missing(c).to # -1
    /\ Len(requests) < MaxQueue
    /\ check(h, [name |-> wanted[c], from |-> Missing(c).from,
                 to |-> Missing(c).to, digest |-> "absent"])
    /\ conn' = [conn EXCEPT ![c] = h]
    /\ UNCHANGED <<left, cpc, target, ready, end, inbox, doubtful, faults>>

\* the client that waits for handler h, if it is still there, goes on
Released(h) == conn' = [c \in Clients |-> IF conn[c] = h THEN NoHandler
                                          ELSE conn[c]]

Answer(h) == /\ reply(h) /\ Released(h)
             /\ UNCHANGED <<cpc, target, ready, end, inbox, doubtful, faults>>

Disconnect(h) == /\ hangup(h) /\ Released(h)
                 /\ UNCHANGED <<cpc, target, ready, end, inbox, doubtful,
                                faults>>

-----------------------------------------------------------------------------
\* the datagram reaches the clients of R, of those that listen
Broadcast(n, i, R) ==
    /\ Send(n, i)
    /\ R \subseteq {c \in Clients : cpc[c] = "loop"}
    /\ inbox' = [c \in Clients |-> IF c \in R THEN inbox[c] \cup {Datagram}
                                   ELSE inbox[c]]
    /\ UNCHANGED <<cpc, conn, target, ready, end, doubtful, faults>>

BadWritten(file, i, data) ==                            \* block 1 at 0
    [k \in 1..(IF i + 1 > Len(file) THEN i + 1 ELSE Len(file)) |->
        IF k = (IF i = 0 THEN 1 ELSE i) THEN data
        ELSE IF k <= Len(file) THEN file[k] ELSE Junk]

Written(file, i, data) ==
    [k \in 1..(IF i + 1 > Len(file) THEN i + 1 ELSE Len(file)) |->
        IF k = i + 1 THEN data ELSE IF k <= Len(file) THEN file[k] ELSE Junk]

BadUseful(c, d) ==                                      \* any image's
    d.index <= end[c] /\ d.index \notin ready[c]

BadLast(c, d) == /\ d.name = wanted[c]                  \* not the last block
                 /\ d.index < end[c] /\ d.index \notin ready[c]

Useful(c, d) == /\ d.name = wanted[c]                   \* digest of the name
                /\ d.index <= end[c] /\ d.index \notin ready[c]

\* the datagram may be received once more; one that arrives with a wrong sum
\* or whose write fails is as good as lost
Taken(c, d) == \/ inbox' = [inbox EXCEPT ![c] = @ \ {d}]
               \/ inbox' = inbox

BadReceive(c, d) ==                                     \* ready.set at i + 1
    /\ InLoop(c) /\ d \in inbox[c] /\ Taken(c, d)
    /\ IF Useful(c, d)
       THEN /\ target' = [target EXCEPT ![c] = Written(@, d.index, d.data)]
            /\ ready' = [ready EXCEPT ![c] = @ \cup {d.index + 1}]
       ELSE UNCHANGED <<target, ready>>
    /\ UNCHANGED <<serverVars, cpc, conn, end, doubtful, faults>>

Receive(c, d) ==
    /\ InLoop(c) /\ d \in inbox[c] /\ Taken(c, d)
    /\ IF Useful(c, d)
       THEN /\ target' = [target EXCEPT ![c] = Written(@, d.index, d.data)]
            /\ ready' = [ready EXCEPT ![c] = @ \cup {d.index}]
       ELSE UNCHANGED <<target, ready>>
    /\ UNCHANGED <<serverVars, cpc, conn, end, doubtful, faults>>

\* a block of which a part is written
Partly(c, d) == IF /\ d.index < Len(target[c])
                  /\ target[c][d.index + 1] = d.data
                THEN d.data ELSE Junk

\* the write ends before the end of the block, which nobody notices
WriteShort(c, d) ==
    /\ faults < MaxFaults /\ faults' = faults + 1
    /\ InLoop(c) /\ d \in inbox[c] /\ Taken(c, d) /\ Useful(c, d)
    /\ target' = [target EXCEPT ![c] = Written(@, d.index, Partly(c, d))]
    /\ ready' = [ready EXCEPT ![c] = @ \cup {d.index}]
    /\ doubtful' = [doubtful EXCEPT ![c] = @ \cup {d.index}]
    /\ UNCHANGED <<serverVars, cpc, conn, end>>

-----------------------------------------------------------------------------
\* the server loses all but the files; clients see their connections end
CrashServer ==
    /\ faults < MaxFaults /\ faults' = faults + 1
    /\ info' = Listing
    /\ hpc' = [h \in Handlers |-> "free"]
    /\ hreq' = [h \in Handlers |-> NoRequest]
    /\ requests' = <<>> /\ rVector' = <<>> /\ it' = 1
    /\ index' = 0 /\ NoBurst /\ owed' = {}
    /\ conn' = [c \in Clients |-> NoHandler]
    /\ UNCHANGED <<disk, left, cpc, target, ready, end, inbox, doubtful>>

\* the client's file stays as it is; it is started again
CrashClient(c) ==
    /\ faults < MaxFaults /\ faults' = faults + 1
    /\ cpc[c] = "loop"
    /\ cpc' = [cpc EXCEPT ![c] = "start"]
    /\ conn' = [conn EXCEPT ![c] = NoHandler]
    /\ ready' = [ready EXCEPT ![c] = {}] /\ end' = [end EXCEPT ![c] = -1]
    /\ inbox' = [inbox EXCEPT ![c] = {}]
    /\ doubtful' = [doubtful EXCEPT ![c] = {}]
    /\ UNCHANGED <<serverVars, target>>

-----------------------------------------------------------------------------
Ask(c) == \E h \in Handlers : sendRequest(c, h)
AnswerTo(c) == conn[c] # NoHandler /\ Answer(conn[c])
Deliver(c, i) == \E R \in SUBSET Clients :
                    c \in R /\ Broadcast(wanted[c], i, R)
TakeIn(c, i) == \E d \in inbox[c] : d.index = i /\ Receive(c, d)

Queueing(h) == push(h) /\ UNCHANGED <<clientVars, faults>>

\* Broadcast with R empty is a lost datagram
Restoring == \/ /\ \/ Lock \/ Drain \/ Drained \/ Clear
                   \/ NothingKnown \/ Pick \/ SendStops
                /\ UNCHANGED <<clientVars, faults>>
             \/ \E n \in Images, i \in BlockNumbers, R \in SUBSET Clients :
                   Broadcast(n, i, R)

Reload == parseConfig /\ UNCHANGED <<clientVars, faults>>

RNext == \/ \E c \in Clients : \/ Start(c) \/ Finish(c) \/ Ask(c)
                               \/ CrashClient(c)
                               \/ \E d \in inbox[c] : \/ Receive(c, d)
                                                     \/ WriteShort(c, d)
         \/ \E h \in Handlers : Answer(h) \/ Disconnect(h) \/ Queueing(h)
         \/ Restoring
         \/ Reload
         \/ CrashServer

RSpec == RInit /\ [][RNext /\ wanted' = wanted]_<<allVars, wanted>>

\* Threads and clients run, the lock is obtained in the end, and neither the
\* network nor the socket nor the server's connections fail for ever.
FairRSpec ==
    /\ RSpec /\ WF_allVars(Restoring)
    /\ \A h \in Handlers : WF_allVars(Answer(h)) /\ SF_allVars(Queueing(h))
    /\ \A c \in Clients :
          /\ WF_allVars(Start(c)) /\ WF_allVars(Finish(c))
          /\ SF_allVars(Ask(c)) /\ SF_allVars(AnswerTo(c))
          /\ \A i \in BlockNumbers :
                SF_allVars(Deliver(c, i)) /\ SF_allVars(TakeIn(c, i))

-----------------------------------------------------------------------------
ImageOf(c) == disk[wanted[c]]

(* A client is waiting only while it is in its loop, and only for a handler
   that has an answer for it; two clients never wait for the same one. *)
RTypeOK == /\ cpc \in [Clients -> {"start", "loop", "done"}]
           /\ conn \in [Clients -> Handlers \cup {NoHandler}]
           /\ \A c \in Clients : conn[c] # NoHandler =>
                 /\ cpc[c] = "loop" /\ hpc[conn[c]] = "reply"
                 /\ hreq[conn[c]].name = wanted[c]
                 /\ \A b \in Clients \ {c} : conn[b] # conn[c]
           /\ ready \in [Clients -> SUBSET Nat] /\ end \in [Clients -> Int]
           /\ \A c \in Clients : ready[c] \subseteq 0..end[c]
           /\ doubtful \in [Clients -> SUBSET Nat]
           /\ faults \in 0..MaxFaults

HasBlock(c, i) == i < Len(target[c]) /\ target[c][i + 1] = ImageOf(c)[i + 1]

(* What is marked as ready is in the file: a block that came, from whatever
   burst and however late, and a block that was there before the start; but for
   those whose write ended too early, or that the target had no sum for. *)
ReadyIsWritten == \A c \in Clients : \A i \in ready[c] \ doubtful[c] :
                     HasBlock(c, i)

(* A client that reports READY has the image, but for these blocks. *)
DoneHasImage ==
    \A c \in Clients : cpc[c] = "done" =>
       \A i \in 0..(Len(ImageOf(c)) - 1) : i \in doubtful[c] \/ HasBlock(c, i)

(* The server refuses nothing that a client asks for, however often either of
   them was started again, and a client asks for nothing it has. *)
NothingRefused == \A c \in Clients : conn[c] # NoHandler =>
                     /\ hreq[conn[c]].error = "NOT_SET"
                     /\ hreq[conn[c]].from..hreq[conn[c]].to
                           \cap ready[c] = {}

(* Nothing that was right in a file is overwritten: no datagram, neither a
   stale one nor another image's, undoes what an earlier one did. *)
OnlyImproves ==
    [][\A c \in Clients : \A i \in 0..(Len(ImageOf(c)) - 1) :
          /\ cpc[c] = "loop" /\ i < Len(target[c])
          /\ target[c][i + 1] = ImageOf(c)[i + 1]
          => target'[c][i + 1] = target[c][i + 1]]_allVars

\* a datagram carries the block that it names
Genuine(d) == /\ d.name \in Images /\ d.index \in 0..(Len(disk[d.name]) - 1)
              /\ d.data = disk[d.name][d.index + 1]

\* a client knows its image's last block, and has all blocks when it is done;
\* its file has not more parts than the image
ClientFits(c) ==
    /\ cpc[c] = "start" => ready[c] = {}
    /\ cpc[c] # "start" => end[c] = Len(ImageOf(c)) - 1
    /\ cpc[c] = "done" => 0..end[c] \subseteq ready[c]
    /\ Len(target[c]) \div M <= Len(ImageOf(c)) \div M
    /\ \A d \in inbox[c] : Genuine(d)

(* What makes the properties above inductive, with the server's invariant:
   the files and the list stay the same, whatever crashes, each client agrees
   with them, and so does everything that is on its way to it. *)
RInv == /\ IInv /\ disk = Initial /\ info = Listing
        /\ rpc = "send" => source = disk[Sending]
        /\ wanted \in Wanted
        /\ RTypeOK /\ ReadyIsWritten /\ NothingRefused
        /\ \A c \in Clients : ClientFits(c)

(* Every client is restored in the end: a lost datagram is sent again some
   time (fejlesztoi.tex), a request that a crash lost is made again. *)
Restored == \A c \in Clients : <>(cpc[c] = "done")
=============================================================================
