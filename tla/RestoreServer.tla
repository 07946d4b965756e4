---------------------------- MODULE RestoreServer ----------------------------
(***************************************************************************)
(* The server's request threads (requestthread.cpp), one per connection,   *)
(* its restore thread (restorethread.cpp), which broadcasts the blocks     *)
(* that were asked for, and the reload of the configuration.  A section    *)
(* under a lock is one step, RWLock being what makes it one, except for    *)
(* the drain of the queue, which is one step per request.                  *)
(***************************************************************************)
EXTENDS Integers, Sequences, Runs

CONSTANTS Images,
          Handlers,      \* bound: connections served at the same time
          Initial,       \* the image files at the start: Images -> blocks
          Edits,         \* <<image, file>>: what they may be replaced with
          Froms, Tos,    \* values of the headers from and to; -1: no header
          Digests,       \* of the header digest: "absent", "right", "wrong"
          Burst,         \* 1024 in run()
          MaxRequests    \* bound: number of connections

ASSUME ServerAssumption ==
    /\ Images # {}
    /\ DOMAIN Initial = Images
    /\ \A n \in Images : Len(Initial[n]) \in Nat    \* they are sequences
    /\ Froms \subseteq Int /\ Tos \subseteq Int
    /\ Digests \subseteq {"absent", "right", "wrong"}
    /\ Burst \in Nat /\ MaxRequests \in Nat

VARIABLES disk,      \* image -> its file, a sequence of blocks; <<>>: none
          info,      \* infoList: image -> number of its last block, iTmp
          hpc,       \* handler -> "free", "reply" or "push"
          hreq,      \* handler -> the RequestInfo it built, with the error
          requests,  \* the shared queue of RequestInfos
          rVector,   \* the restore thread's vectors, with rMap's name
          index,     \* of the vector it has its turn with
          rpc,       \* "sleep", "drain", "clear", "pick" or "send"
          it,        \* position in requests during the drain
          cur, to,   \* i and to of sendImage
          source,    \* the contents of the file that it has open
          left,      \* connections that are still to come
          owed       \* history: blocks promised with a 200 and not yet sent

handlerVars == <<hpc, hreq>>
queueVars   == <<requests, rVector, it>>
burstVars   == <<index, cur, to, source>>
vars == <<disk, info, handlerVars, queueVars, burstVars, rpc, left, owed>>

Unlisted == -2
Listing == [n \in Images |-> IF disk[n] = <<>> THEN Unlisted
                             ELSE Len(disk[n]) - 1]

NoRequest == [name |-> CHOOSE n \in Images : TRUE, from |-> 0, to |-> -1,
              max |-> -1, digest |-> "absent", error |-> "NOT_SET"]

Init == /\ disk = Initial /\ info = Listing
        /\ hpc = [h \in Handlers |-> "free"]
        /\ hreq = [h \in Handlers |-> NoRequest]
        /\ requests = <<>> /\ rVector = <<>> /\ it = 1
        /\ index = 0 /\ cur = 0 /\ to = -1 /\ source = <<>>
        /\ rpc = "sleep" /\ left = MaxRequests /\ owed = {}

Blocks(r) == {<<r.name, i>> : i \in r.from..r.to}

-----------------------------------------------------------------------------
(* RequestThread::run *)

PartsError(q) == /\ q.from # -1 /\ q.to # -1
                 /\ q.from > q.to \/ q.from < -1 \/ q.to < -1

Checked(q, error) ==
    [name |-> q.name, max |-> info[q.name], error |-> error,
     from |-> IF q.from = -1 THEN 0 ELSE q.from,
     to |-> IF q.to = -1 THEN info[q.name] ELSE q.to,
     digest |-> q.digest]

\* what the checks, in their order, may find.  The digest is compared with the
\* bytes of a Digests that nobody filled: either outcome is possible.
Outcomes(q) ==
    IF info[q.name] = Unlisted THEN {"IMAGE_NOT_FOUND"}
    ELSE (IF q.digest = "absent" THEN {} ELSE {"INVALID_DIGEST"}) \cup
         {IF PartsError(q) THEN "INVALID_PARTS"
          ELSE IF q.to > info[q.name] THEN "INVALID_TO"
          ELSE IF q.from > info[q.name] THEN "INVALID_FROM"
          ELSE "NOT_SET"}

check(h, q) == /\ hpc[h] = "free"
               /\ \E error \in Outcomes(q) :
                     hreq' = [hreq EXCEPT ![h] = Checked(q, error)]
               /\ hpc' = [hpc EXCEPT ![h] = "reply"]
               /\ UNCHANGED <<disk, info, queueVars, burstVars, rpc, owed>>

Connect(h) == /\ left > 0
              /\ \E n \in Images, f \in Froms, t \in Tos, d \in Digests :
                    check(h, [name |-> n, from |-> f, to |-> t, digest |-> d])
              /\ left' = left - 1

\* the thread is gone, its locals with it
End(h) == /\ hpc' = [hpc EXCEPT ![h] = "free"]
          /\ hreq' = [hreq EXCEPT ![h] = NoRequest]

\* the whole response is written: 200, or 400 and the thread ends
reply(h) == /\ hpc[h] = "reply"
            /\ IF hreq[h].error = "NOT_SET"
               THEN /\ hpc' = [hpc EXCEPT ![h] = "push"]
                    /\ owed' = owed \cup Blocks(hreq[h])
                    /\ hreq' = hreq
               ELSE End(h) /\ owed' = owed
            /\ UNCHANGED <<disk, info, queueVars, burstVars, rpc, left>>

\* select fails before that: the thread ends without queueing anything
hangup(h) == /\ hpc[h] = "reply" /\ End(h)
             /\ UNCHANGED <<disk, info, queueVars, burstVars, rpc, left, owed>>

BadPush(h) == /\ hpc[h] = "push"                       \* without the lock
              /\ requests' = Append(requests, hreq[h]) /\ End(h)
              /\ UNCHANGED <<disk, info, rVector, it, burstVars, rpc, left,
                             owed>>

\* under the lock of requests, which the restore thread holds as it drains it
push(h) == /\ hpc[h] = "push" /\ rpc \notin {"drain", "clear"}
           /\ requests' = Append(requests, hreq[h]) /\ End(h)
           /\ UNCHANGED <<disk, info, rVector, it, burstVars, rpc, left, owed>>

-----------------------------------------------------------------------------
(* RestoreThread::run *)

Lock == /\ rpc = "sleep" /\ rpc' = "drain"
        /\ UNCHANGED <<disk, info, handlerVars, queueVars, burstVars, left,
                       owed>>

Known == {rVector[k].name : k \in DOMAIN rVector}

\* a write past the end of a vector is left out, see VectorsFit
Mark(v, r) == IF v.name # r.name THEN v
              ELSE [v EXCEPT !.bits =
                       @ \cup (r.from..r.to \cap 0..(v.size - 1))]

BadWithVector(r) == Append(rVector, [name |-> r.name,  \* also for a known name
                                     size |-> r.max + 1, bits |-> {}])

WithVector(r) == IF r.name \in Known THEN rVector
                 ELSE Append(rVector, [name |-> r.name, size |-> r.max + 1,
                                       bits |-> {}])

Drain == /\ rpc = "drain" /\ it <= Len(requests)
         /\ LET r == requests[it] IN
            rVector' = [k \in DOMAIN WithVector(r) |->
                           Mark(WithVector(r)[k], r)]
         /\ it' = it + 1
         /\ UNCHANGED <<disk, info, handlerVars, requests, burstVars, rpc,
                        left, owed>>

Drained == /\ rpc = "drain" /\ it > Len(requests) /\ rpc' = "clear"
           /\ UNCHANGED <<disk, info, handlerVars, queueVars, burstVars, left,
                          owed>>

Clear == /\ rpc = "clear" /\ rpc' = "pick" /\ requests' = <<>> /\ it' = 1
         /\ UNCHANGED <<disk, info, handlerVars, rVector, burstVars, left,
                        owed>>

NothingKnown == /\ rpc = "pick" /\ rVector = <<>> /\ rpc' = "sleep"
                /\ UNCHANGED <<disk, info, handlerVars, queueVars, burstVars,
                               left, owed>>

NoBurst == rpc' = "sleep" /\ cur' = 0 /\ to' = -1 /\ source' = <<>>

LesserOf(a, b) == IF a < b THEN a ELSE b               \* Helpers::min

BadLastOf(run) == IF run.to = -1 THEN -1               \* without the minimum
                  ELSE run.from + Burst

LastOf(run) == LesserOf(run.to, run.from + Burst)

BadTurn == index                                       \* always the same one
Turn == (index + 1) % Len(rVector)

\* the next vector has its turn; sendImage starts if it has a run of 1s, and
\* opens the file
Pick == /\ rpc = "pick" /\ rVector # <<>>
        /\ LET v == rVector[Turn + 1]
               run == FirstRun(v.bits, v.size)
           IN /\ index' = Turn
              /\ IF LastOf(run) = -1 THEN NoBurst
                 ELSE /\ cur' = run.from /\ to' = LastOf(run) /\ rpc' = "send"
                      /\ source' = disk[v.name]
        /\ UNCHANGED <<disk, info, handlerVars, queueVars, left, owed>>

Sending == rVector[index + 1].name
Datagram == [name |-> Sending, index |-> cur, data |-> source[cur + 1]]

\* read and sendto succeed; the block i = to is the last of the burst
Send(n, i) == /\ rpc = "send" /\ n = Sending /\ i = cur
              /\ i < Len(source)
              /\ rVector' = [rVector EXCEPT ![index + 1].bits = @ \ {i}]
              /\ owed' = owed \ {<<n, i>>}
              /\ IF i = to THEN NoBurst
                 ELSE cur' = cur + 1 /\ UNCHANGED <<to, source, rpc>>
              /\ UNCHANGED <<disk, info, handlerVars, requests, it, index,
                             left>>

\* the file cannot be opened, it ends before the block, or sendto fails (the
\* socket does not block): the bits that are left stay for a later turn
SendStops == /\ rpc = "send" /\ NoBurst
             /\ UNCHANGED <<disk, info, handlerVars, queueVars, index, left,
                            owed>>

-----------------------------------------------------------------------------
\* config_thread: parseConfig measures the files again
parseConfig == /\ info' = Listing
               /\ UNCHANGED <<disk, handlerVars, queueVars, burstVars, rpc,
                              left, owed>>

\* Somebody removes or replaces an image on the server.  The file that is
\* being sent stays readable when its name is removed or given to another one;
\* if it is written over, or not yet open, the new contents are sent.
Edit(n, file) ==
    /\ <<n, file>> \in Edits
    /\ disk' = [disk EXCEPT ![n] = file]
    /\ source' \in IF rpc = "send" /\ n = Sending /\ source = disk[n]
                   THEN {source, file} ELSE {source}
    /\ UNCHANGED <<info, handlerVars, queueVars, index, cur, to, rpc, left,
                   owed>>

BlockNumbers == 0..(Max({0} \cup {Len(Initial[n]) : n \in Images}
                            \cup {Len(e[2]) : e \in Edits}) - 1)

RestoreThread == Lock \/ Drain \/ Drained \/ Clear \/ NothingKnown \/ Pick
                   \/ SendStops
                   \/ \E n \in Images, i \in BlockNumbers : Send(n, i)

Next == \/ \E h \in Handlers : Connect(h) \/ reply(h) \/ push(h) \/ hangup(h)
        \/ RestoreThread
        \/ parseConfig
        \/ \E e \in Edits : Edit(e[1], e[2])

Spec == Init /\ [][Next]_vars

\* Every thread runs; a request thread that waits for the lock gets it in one
\* of the pauses of the restore thread, which sleeps at each turn; and the
\* socket does not refuse the same datagram for ever.
FairSpec == /\ Spec /\ WF_vars(RestoreThread)
            /\ \A h \in Handlers : WF_vars(reply(h)) /\ SF_vars(push(h))
            /\ \A n \in Images, i \in BlockNumbers : SF_vars(Send(n, i))

-----------------------------------------------------------------------------
Request == [name : Images, from : Int, to : Int, max : Int,
            digest : {"absent", "right", "wrong"},
            error : {"NOT_SET", "IMAGE_NOT_FOUND", "INVALID_DIGEST",
                     "INVALID_PARTS", "INVALID_TO", "INVALID_FROM"}]
Vector == [name : Images, size : Int, bits : SUBSET Int]

(* Every variable has the values its code can give it; rMap has one vector
   for a name, and the thread's index is one of them. *)
TypeOK == /\ DOMAIN disk = Images /\ info \in [Images -> Int]
          /\ hpc \in [Handlers -> {"free", "reply", "push"}]
          /\ hreq \in [Handlers -> Request]
          /\ requests \in Seq(Request) /\ rVector \in Seq(Vector)
          /\ \A j, k \in DOMAIN rVector :
                rVector[j].name = rVector[k].name => j = k
          /\ rpc \in {"sleep", "drain", "clear", "pick", "send"}
          /\ index \in Nat /\ it \in Nat \ {0} /\ cur \in Int /\ to \in Int
          /\ index < Len(rVector) \/ (rVector = <<>> /\ index = 0)
          /\ IF rpc = "send" THEN rVector # <<>> ELSE source = <<>>
          /\ left \in 0..MaxRequests /\ owed \subseteq Images \X Int

\* the part of the queue that the drain has not reached
Queued == {requests[k] : k \in {j \in DOMAIN requests :
                                    rpc \in {"drain", "clear"} => it <= j}}
Pushing == {hreq[h] : h \in {g \in Handlers : hpc[g] = "push"}}
Marked == UNION {{<<rVector[k].name, i>> : i \in rVector[k].bits} :
                    k \in DOMAIN rVector}

(* A block that was promised with a 200 and was not sent since is not lost:
   it is in a request on its way to the queue, in the queue, or set in the
   vector of its image, through drains, failed sends and short files. *)
NoLostRequest ==
    \A b \in owed : \/ b \in Marked
                    \/ \E r \in Queued \cup Pushing : b \in Blocks(r)

(* The rest of the burst consists of blocks whose bits are set: what is sent
   was asked for, and no more than Burst + 1 blocks at a time. *)
BurstRequested ==
    rpc = "send" => /\ cur..to \subseteq rVector[index + 1].bits
                    /\ cur <= to /\ to - cur <= Burst

Fits(r) == /\ 0 <= r.from /\ r.to < Len(Initial[r.name])
           /\ r.max = Len(Initial[r.name]) - 1

FilesKeepSize == \A n \in Images :
                    /\ disk[n] = <<>> \/ Len(disk[n]) = Len(Initial[n])
                    /\ info[n] \in {Unlisted, Len(Initial[n]) - 1}

RequestsFit == /\ \A h \in Handlers :
                     /\ hpc[h] = "push" => hreq[h].error = "NOT_SET"
                     /\ hpc[h] # "free" /\ hreq[h].error = "NOT_SET"
                           => Fits(hreq[h])
               /\ \A k \in DOMAIN requests : Fits(requests[k])

VectorsSized == \A k \in DOMAIN rVector :
                   /\ rVector[k].size = Len(Initial[rVector[k].name])
                   /\ rVector[k].bits \subseteq 0..(rVector[k].size - 1)

DrainPosition == /\ rpc \notin {"drain", "clear"} => it = 1
                 /\ rpc = "clear" => it > Len(requests)

(* While files keep their size and no header is negative, what makes the two
   properties above inductive: requests that are accepted and the vectors
   agree with the one size that a file has had. *)
IInv == /\ TypeOK /\ NoLostRequest /\ BurstRequested
        /\ FilesKeepSize /\ RequestsFit /\ VectorsSized /\ DrainPosition

(* When no more requests come, every block that was promised is sent if the
   file keeps it from some time on, each image having its turn and each burst
   starting with the first missing one. *)
OwedIsSent == \A n \in Images, i \in BlockNumbers :
                 <>[](i < Len(disk[n])) =>
                    (<<n, i>> \in owed ~> <<n, i>> \notin owed)

(* The restore thread writes within the vector of the image (fejlesztoi.tex:
   BitVector has a fixed size and does not check the index).  A reload breaks
   it: the size is the one that the first request for the image had. *)
VectorsFit ==
    rpc = "drain" /\ it <= Len(requests) =>
       \A k \in DOMAIN rVector : rVector[k].name = requests[it].name =>
          requests[it].from..requests[it].to \subseteq 0..(rVector[k].size - 1)
=============================================================================
