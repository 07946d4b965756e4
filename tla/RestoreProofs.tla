----------------------------- MODULE RestoreProofs -----------------------------
(***************************************************************************)
(* Proofs about RestoreServer and Restore.                                 *)
(*                                                                         *)
(* RestoreServer, for any images, any number of handlers and connections   *)
(* and any length of a burst, as long as the files keep their size and no  *)
(* header is negative: no promised block is lost, only what was asked for  *)
(* is sent, and the vectors are indexed within their bounds.               *)
(*                                                                         *)
(* Restore, for any number of clients, images, handlers and crashes, files *)
(* of any length and contents and parts of any size: while the image files *)
(* stay as they are, a client that reports READY has its image, whatever   *)
(* the network does.  As in ClientCompareProofs, no image ends with a      *)
(* part, and no target has more parts than its image.  Left out are blocks *)
(* whose write ended too early, and those of a part that a target which    *)
(* could not be extended has no sum for: the client takes them for ready.  *)
(***************************************************************************)
EXTENDS Restore, BlockProofs

\* a file may disappear and come back, with other contents but as long
StableFiles == \A e \in Edits :
                  e[2] = <<>> \/ Len(e[2]) = Len(Initial[e[1]])

PlainHeaders == Froms \cup Tos \subseteq Nat \cup {-1}

Size(n) == Len(Initial[n])

(* NoRequest is a request. *)
LEMMA NoRequestIsRequest == NoRequest \in Request
  BY ServerAssumption DEF NoRequest, Request

(* The listing of files that kept their size. *)
LEMMA ListingSizes ==
  ASSUME \A n \in Images : disk[n] = <<>> \/ Len(disk[n]) = Len(Initial[n])
  PROVE  /\ Listing \in [Images -> Int]
         /\ \A n \in Images : Listing[n] \in {Unlisted, Len(Initial[n]) - 1}
  BY ServerAssumption DEF Listing, Unlisted

(* The invariant holds initially. *)
LEMMA InitIInv == Init => IInv
<1>. SUFFICES ASSUME Init PROVE IInv
  OBVIOUS
<1>1. \A n \in Images : disk[n] = <<>> \/ Len(disk[n]) = Len(Initial[n])
  BY DEF Init
<1>2. TypeOK
  BY <1>1, ListingSizes, NoRequestIsRequest, ServerAssumption
     DEF Init, TypeOK
<1>3. FilesKeepSize
  BY <1>1, ListingSizes DEF Init, FilesKeepSize
<1>. QED  BY <1>2, <1>3 DEF Init, IInv, NoLostRequest, BurstRequested,
             RequestsFit, VectorsSized, DrainPosition

(* What the checks leave of a header: a request is accepted only if all of its
   blocks are within the file. *)
LEMMA CheckedFits ==
  ASSUME FilesKeepSize, TypeOK,
         NEW q \in [name : Images, from : Nat \cup {-1}, to : Nat \cup {-1},
                    digest : {"absent", "right", "wrong"}],
         NEW error \in Outcomes(q)
  PROVE  /\ Checked(q, error) \in Request
         /\ error = "NOT_SET" => Fits(Checked(q, error))
<1>1. Checked(q, error) \in Request
  BY DEF Checked, Request, Outcomes, TypeOK
<1>2. ASSUME error = "NOT_SET" PROVE Fits(Checked(q, error))
  <2>1. /\ info[q.name] = Len(Initial[q.name]) - 1
        /\ q.to <= info[q.name]
    BY <1>2, ServerAssumption
       DEF Outcomes, FilesKeepSize, TypeOK, Unlisted
  <2>. QED  BY <2>1, ServerAssumption DEF Fits, Checked
<1>. QED  BY <1>1, <1>2
-----------------------------------------------------------------------------
(* The request threads *)

(* What a request may hold before it is checked. *)
Headers == [name : Images, from : Nat \cup {-1}, to : Nat \cup {-1},
            digest : {"absent", "right", "wrong"}]

(* A request that is checked leaves the queue and the vectors alone, and
   promises nothing yet. *)
LEMMA CheckStep ==
  ASSUME IInv, NEW h \in Handlers, NEW q \in Headers, check(h, q),
         left' \in 0..MaxRequests
  PROVE  IInv'
<1>1. PICK error \in Outcomes(q) :
         /\ hpc[h] = "free"
         /\ hreq' = [hreq EXCEPT ![h] = Checked(q, error)]
         /\ hpc' = [hpc EXCEPT ![h] = "reply"]
         /\ UNCHANGED <<disk, info, queueVars, burstVars, rpc, owed>>
  BY DEF check
<1>2. /\ Checked(q, error) \in Request
      /\ error = "NOT_SET" => Fits(Checked(q, error))
      /\ Checked(q, error).error = error
  BY CheckedFits DEF IInv, Checked, Headers
<1>. USE <1>1, <1>2 DEF queueVars, burstVars
<1>3. TypeOK'
  BY DEF IInv, TypeOK
<1>4. Queued' = Queued /\ Marked' = Marked /\ Pushing \subseteq Pushing'
  BY DEF Queued, Marked, Pushing, IInv, TypeOK
<1>5. NoLostRequest'
  BY <1>4 DEF IInv, NoLostRequest
<1>6. RequestsFit'
  BY DEF IInv, TypeOK, RequestsFit, Fits
<1>. QED  BY <1>3, <1>5, <1>6
          DEF IInv, BurstRequested, FilesKeepSize, VectorsSized, DrainPosition

(* A connection comes with any header that is not negative. *)
LEMMA ConnectStep ==
  ASSUME IInv, PlainHeaders, NEW h \in Handlers, Connect(h)
  PROVE  IInv'
<1>1. PICK q \in Headers : check(h, q)
  BY ServerAssumption DEF Connect, PlainHeaders, Headers
<1>2. left' \in 0..MaxRequests
  BY ServerAssumption DEF Connect, IInv, TypeOK
<1>. QED  BY <1>1, <1>2, CheckStep

(* The blocks of a request are pairs of an image and a number. *)
LEMMA BlocksType ==
  ASSUME NEW r \in Request
  PROVE  Blocks(r) \subseteq Images \X Int
  BY DEF Blocks, Request

(* The response is written. *)
LEMMA ReplyStep ==
  ASSUME IInv, NEW h \in Handlers, reply(h)
  PROVE  IInv'
<1>. USE DEF reply, End, queueVars, burstVars
<1>1. TypeOK'
  <2>1. hreq[h] \in Request
    BY DEF IInv, TypeOK
  <2>2. owed' \subseteq Images \X Int
    BY <2>1, BlocksType DEF IInv, TypeOK
  <2>3. /\ hpc' \in [Handlers -> {"free", "reply", "push"}]
        /\ hreq' \in [Handlers -> Request]
    BY NoRequestIsRequest DEF IInv, TypeOK
  <2>. QED  BY <2>2, <2>3 DEF IInv, TypeOK
<1>2. Queued' = Queued /\ Marked' = Marked
  BY DEF Queued, Marked
<1>3. CASE hreq[h].error = "NOT_SET"
  <2>1. Pushing' = Pushing \cup {hreq[h]}
    BY <1>3 DEF Pushing, IInv, TypeOK
  <2>2. owed' = owed \cup Blocks(hreq[h])
    BY <1>3
  <2>3. NoLostRequest'
    BY <1>2, <2>1, <2>2 DEF IInv, NoLostRequest
  <2>4. RequestsFit'
    BY <1>3 DEF IInv, TypeOK, RequestsFit, Fits
  <2>. QED  BY <1>1, <2>3, <2>4 DEF IInv, BurstRequested, FilesKeepSize,
               VectorsSized, DrainPosition
<1>4. CASE hreq[h].error # "NOT_SET"
  <2>1. Pushing' = Pushing
    <3>1. \A g \in Handlers : /\ hpc'[g] = "push" <=> hpc[g] = "push"
                              /\ hpc[g] = "push" => hreq'[g] = hreq[g]
      BY <1>4 DEF IInv, TypeOK
    <3>. QED  BY <3>1 DEF Pushing
  <2>2. NoLostRequest'
    BY <1>2, <1>4, <2>1 DEF IInv, NoLostRequest
  <2>3. RequestsFit'
    BY <1>4 DEF IInv, TypeOK, RequestsFit, Fits
  <2>. QED  BY <1>1, <2>2, <2>3 DEF IInv, BurstRequested, FilesKeepSize,
               VectorsSized, DrainPosition
<1>. QED  BY <1>3, <1>4

(* The connection fails before the response. *)
LEMMA HangupStep ==
  ASSUME IInv, NEW h \in Handlers, hangup(h)
  PROVE  IInv'
<1>. USE DEF hangup, End, queueVars, burstVars
<1>1. TypeOK'
  BY NoRequestIsRequest DEF IInv, TypeOK
<1>2. Queued' = Queued /\ Marked' = Marked /\ Pushing' = Pushing
  BY DEF Queued, Marked, Pushing, IInv, TypeOK
<1>3. NoLostRequest'
  BY <1>2 DEF IInv, NoLostRequest
<1>4. RequestsFit'
  BY DEF IInv, TypeOK, RequestsFit, Fits
<1>. QED  BY <1>1, <1>3, <1>4 DEF IInv, BurstRequested, FilesKeepSize,
             VectorsSized, DrainPosition

(* The request goes from its thread to the queue, which nobody drains. *)
LEMMA PushStep ==
  ASSUME IInv, NEW h \in Handlers, push(h)
  PROVE  IInv'
<1>. USE DEF push, End, burstVars
<1>1. TypeOK'
  BY NoRequestIsRequest DEF IInv, TypeOK
<1>2. Marked' = Marked /\ Pushing \subseteq Pushing' \cup {hreq[h]}
  <2>1. \A g \in Handlers \ {h} : hpc'[g] = hpc[g] /\ hreq'[g] = hreq[g]
    BY DEF IInv, TypeOK
  <2>. QED  BY <2>1 DEF Marked, Pushing
<1>3. Queued \cup {hreq[h]} \subseteq Queued'
  <2>1. Queued = {requests[k] : k \in DOMAIN requests}
    BY DEF Queued
  <2>2. Queued' = {requests'[k] : k \in DOMAIN requests'}
    BY DEF Queued
  <2>3. /\ DOMAIN requests = 1..Len(requests)
        /\ DOMAIN requests' = 1..(Len(requests) + 1)
        /\ \A k \in 1..Len(requests) : requests'[k] = requests[k]
        /\ requests'[Len(requests) + 1] = hreq[h]
        /\ Len(requests) \in Nat
    BY DEF IInv, TypeOK
  <2>. QED  BY <2>1, <2>2, <2>3
<1>4. NoLostRequest'
  <2>1. owed' = owed
    OBVIOUS
  <2>2. Queued \cup Pushing \subseteq Queued' \cup Pushing'
    BY <1>2, <1>3
  <2>. QED  BY <1>2, <2>1, <2>2 DEF IInv, NoLostRequest
<1>5. RequestsFit'
  <2>1. hreq[h].error = "NOT_SET" /\ Fits(hreq[h])
    BY DEF IInv, RequestsFit
  <2>2. ASSUME NEW k \in DOMAIN requests' PROVE Fits(requests'[k])
    <3>1. requests'[k] = hreq[h] \/ (/\ k \in DOMAIN requests
                                     /\ requests'[k] = requests[k])
      BY DEF IInv, TypeOK
    <3>. QED  BY <2>1, <3>1 DEF IInv, RequestsFit
  <2>3. ASSUME NEW g \in Handlers
        PROVE  /\ hpc'[g] = "push" => hreq'[g].error = "NOT_SET"
               /\ hpc'[g] # "free" /\ hreq'[g].error = "NOT_SET"
                     => Fits(hreq'[g])
    BY DEF IInv, TypeOK, RequestsFit
  <2>. QED  BY <2>2, <2>3 DEF RequestsFit, Fits
<1>. QED  BY <1>1, <1>4, <1>5 DEF IInv, BurstRequested, FilesKeepSize,
             VectorsSized, DrainPosition
-----------------------------------------------------------------------------
(* The restore thread *)

(* The lock is taken, the drain ends, and there may be nothing to do. *)
LEMMA IdleSteps ==
  ASSUME IInv, Lock \/ Drained \/ NothingKnown
  PROVE  IInv'
<1>. USE DEF Lock, Drained, NothingKnown, handlerVars, queueVars, burstVars
<1>1. TypeOK'
  BY DEF IInv, TypeOK
<1>2. Marked' = Marked /\ Pushing' = Pushing /\ Queued \subseteq Queued'
  BY DEF Marked, Pushing, Queued, IInv, TypeOK, DrainPosition
<1>3. NoLostRequest'
  BY <1>2 DEF IInv, NoLostRequest
<1>. QED  BY <1>1, <1>3 DEF IInv, BurstRequested, FilesKeepSize, Fits,
             RequestsFit, VectorsSized, DrainPosition

(* The queue is emptied when all of it is in the vectors. *)
LEMMA ClearStep ==
  ASSUME IInv, Clear
  PROVE  IInv'
<1>. USE DEF Clear, handlerVars, burstVars
<1>1. TypeOK'
  BY DEF IInv, TypeOK
<1>2. Marked' = Marked /\ Pushing' = Pushing
  BY DEF Marked, Pushing
<1>3. Queued = {}
  BY DEF Queued, IInv, TypeOK, DrainPosition
<1>4. NoLostRequest'
  BY <1>2, <1>3 DEF IInv, NoLostRequest
<1>. QED  BY <1>1, <1>4 DEF IInv, BurstRequested, FilesKeepSize, Fits,
             RequestsFit, VectorsSized, DrainPosition

(* A request that the drain reaches has a vector, of the size of its file. *)
LEMMA WithVectorIs ==
  ASSUME IInv, NEW r \in Request, Fits(r)
  PROVE  /\ WithVector(r) \in Seq(Vector)
         /\ Len(WithVector(r)) >= Len(rVector) /\ WithVector(r) # <<>>
         /\ \A k \in DOMAIN rVector : /\ k \in DOMAIN WithVector(r)
                                     /\ WithVector(r)[k] = rVector[k]
         /\ \A j, k \in DOMAIN WithVector(r) :
               WithVector(r)[j].name = WithVector(r)[k].name => j = k
         /\ \A k \in DOMAIN WithVector(r) :
               LET v == WithVector(r)[k]
               IN  /\ v.size = Size(v.name)
                   /\ v.bits \subseteq 0..(v.size - 1)
         /\ \E k \in DOMAIN WithVector(r) : WithVector(r)[k].name = r.name
<1>. DEFINE new == [name |-> r.name, size |-> r.max + 1, bits |-> {}]
<1>1. new \in Vector /\ new.size = Size(new.name)
  BY ServerAssumption DEF Vector, Request, Fits, Size
<1>2. CASE r.name \in Known
  BY <1>2 DEF WithVector, Known, IInv, TypeOK, VectorsSized, Size
<1>3. CASE r.name \notin Known
  <2>1. WithVector(r) = Append(rVector, new)
    BY <1>3 DEF WithVector
  <2>2. \A k \in DOMAIN rVector : rVector[k].name # r.name
    BY <1>3 DEF Known
  <2>. HIDE DEF new
  <2>3. /\ WithVector(r) \in Seq(Vector)
        /\ DOMAIN WithVector(r) = 1..(Len(rVector) + 1)
        /\ Len(WithVector(r)) = Len(rVector) + 1
        /\ DOMAIN rVector = 1..Len(rVector) /\ Len(rVector) \in Nat
        /\ \A k \in 1..Len(rVector) : WithVector(r)[k] = rVector[k]
        /\ WithVector(r)[Len(rVector) + 1] = new
    BY <1>1, <2>1 DEF IInv, TypeOK
  <2>4. new.name = r.name /\ new.bits = {}
    BY DEF new
  <2>5. \A j, k \in DOMAIN WithVector(r) :
           WithVector(r)[j].name = WithVector(r)[k].name => j = k
    <3>1. \A j, k \in DOMAIN rVector :
             rVector[j].name = rVector[k].name => j = k
      BY DEF IInv, TypeOK
    <3>. QED  BY <2>2, <2>3, <2>4, <3>1
  <2>6. ASSUME NEW k \in DOMAIN WithVector(r)
        PROVE  LET v == WithVector(r)[k]
               IN  /\ v.size = Size(v.name)
                   /\ v.bits \subseteq 0..(v.size - 1)
    <3>1. CASE k = Len(rVector) + 1
      BY <3>1, <1>1, <2>3, <2>4
    <3>2. CASE k \in DOMAIN rVector
      BY <3>2, <2>3 DEF IInv, VectorsSized, Size
    <3>. QED  BY <3>1, <3>2, <2>3
  <2>. HIDE DEF Size
  <2>7. Len(rVector) + 1 \in DOMAIN WithVector(r) /\ WithVector(r) # <<>>
    BY <2>3
  <2>. QED  BY <2>3, <2>4, <2>5, <2>6, <2>7
<1>. QED  BY <1>2, <1>3

(* Mark changes only the bits, and sets all that the request asks for in the
   vector of its image. *)
LEMMA MarkIs ==
  ASSUME NEW r \in Request, Fits(r), NEW v \in Vector,
         v.size = Size(v.name), v.bits \subseteq 0..(v.size - 1)
  PROVE  /\ Mark(v, r) \in Vector
         /\ Mark(v, r).name = v.name /\ Mark(v, r).size = v.size
         /\ Mark(v, r).bits \subseteq 0..(v.size - 1)
         /\ v.bits \subseteq Mark(v, r).bits
         /\ v.name = r.name => r.from..r.to \subseteq Mark(v, r).bits
<1>1. CASE v.name # r.name
  BY <1>1 DEF Mark
<1>2. CASE v.name = r.name
  <2>1. Mark(v, r) = [name |-> v.name, size |-> v.size,
                      bits |-> v.bits \cup
                                 (r.from..r.to \cap 0..(v.size - 1))]
    BY <1>2 DEF Mark, Vector
  <2>2. r.from..r.to \subseteq 0..(v.size - 1)
    BY <1>2, ServerAssumption DEF Fits, Size, Request
  <2>. QED  BY <1>2, <2>1, <2>2 DEF Vector
<1>. QED  BY <1>1, <1>2

(* One request of the queue is marked in the vectors. *)
LEMMA DrainStep ==
  ASSUME IInv, Drain
  PROVE  IInv'
<1>. DEFINE r == requests[it]
            W == WithVector(r)
<1>1. it \in DOMAIN requests /\ r \in Request /\ Fits(r)
  BY DEF Drain, IInv, TypeOK, RequestsFit
<1>2. rVector' = [k \in DOMAIN W |-> Mark(W[k], r)]
  BY DEF Drain
<1>. HIDE DEF r
<1>3. /\ W \in Seq(Vector) /\ Len(W) >= Len(rVector) /\ W # <<>>
      /\ \A k \in DOMAIN rVector : k \in DOMAIN W /\ W[k] = rVector[k]
      /\ \A j, k \in DOMAIN W : W[j].name = W[k].name => j = k
      /\ \A k \in DOMAIN W : /\ W[k].size = Size(W[k].name)
                            /\ W[k].bits \subseteq 0..(W[k].size - 1)
      /\ \E k \in DOMAIN W : W[k].name = r.name
  BY <1>1, WithVectorIs
<1>. HIDE DEF W
<1>4. ASSUME NEW k \in DOMAIN W
      PROVE  /\ Mark(W[k], r) \in Vector
             /\ Mark(W[k], r).name = W[k].name
             /\ Mark(W[k], r).size = W[k].size
             /\ Mark(W[k], r).bits \subseteq 0..(W[k].size - 1)
             /\ W[k].bits \subseteq Mark(W[k], r).bits
             /\ W[k].name = r.name =>
                   r.from..r.to \subseteq Mark(W[k], r).bits
  <2>1. W[k] \in Vector
    BY <1>3
  <2>. QED  BY <2>1, <1>1, <1>3, MarkIs
<1>5. /\ rVector' \in Seq(Vector) /\ DOMAIN rVector' = DOMAIN W
      /\ Len(rVector') = Len(W)
  BY <1>2, <1>3, <1>4
<1>6. \A k \in DOMAIN W : rVector'[k] = Mark(W[k], r)
  BY <1>2
<1>7. TypeOK'
  <2>1. \A j, k \in DOMAIN rVector' :
           rVector'[j].name = rVector'[k].name => j = k
    BY <1>3, <1>4, <1>5, <1>6
  <2>2. index < Len(rVector') /\ rVector' # <<>>
    BY <1>3, <1>5 DEF IInv, TypeOK
  <2>. QED  BY <1>5, <2>1, <2>2
            DEF IInv, TypeOK, Drain, handlerVars, burstVars
<1>8. VectorsSized'
  <2>. SUFFICES ASSUME NEW k \in DOMAIN rVector'
                PROVE  /\ rVector'[k].size = Size(rVector'[k].name)
                       /\ rVector'[k].bits \subseteq 0..(rVector'[k].size - 1)
    BY DEF VectorsSized, Size
  <2>1. k \in DOMAIN W /\ rVector'[k] = Mark(W[k], r)
    BY <1>5, <1>6, Zenon
  <2>2. W[k].size = Size(W[k].name)
    BY <1>3, <2>1, Zenon
  <2>. QED  BY <1>4, <2>1, <2>2, Zenon
<1>9. Marked \cup Blocks(r) \subseteq Marked'
  <2>1. Marked' = UNION {{<<rVector'[k].name, i>> : i \in rVector'[k].bits} :
                            k \in DOMAIN rVector'}
    BY DEF Marked
  <2>2. ASSUME NEW k \in DOMAIN rVector, NEW i \in rVector[k].bits
        PROVE  <<rVector[k].name, i>> \in Marked'
    BY <1>3, <1>4, <1>5, <1>6, <2>1, <2>2
  <2>3. Blocks(r) \subseteq Marked'
    <3>1. PICK k \in DOMAIN W : W[k].name = r.name
      BY <1>3
    <3>. QED  BY <1>4, <1>5, <1>6, <2>1, <3>1 DEF Blocks
  <2>. QED  BY <2>2, <2>3 DEF Marked
<1>10. Queued \subseteq Queued' \cup {r} /\ Pushing' = Pushing
  BY DEF Queued, Pushing, Drain, handlerVars, IInv, TypeOK, r
<1>11. NoLostRequest'
  <2>1. owed' = owed
    BY DEF Drain
  <2>. QED  BY <1>9, <1>10, <2>1 DEF IInv, NoLostRequest
<1>. QED  BY <1>7, <1>8, <1>11
          DEF IInv, Drain, handlerVars, burstVars, BurstRequested, Fits,
              FilesKeepSize, RequestsFit, DrainPosition

(* The next vector has its turn: a burst starts within its first run of 1s. *)
LEMMA PickStep ==
  ASSUME IInv, Pick
  PROVE  IInv'
<1>. DEFINE v == rVector[Turn + 1]
            run == FirstRun(v.bits, v.size)
<1>1. Turn \in Nat /\ Turn < Len(rVector)
  <2>1. index + 1 \in Nat /\ Len(rVector) \in Nat \ {0}
    BY DEF Pick, IInv, TypeOK
  <2>2. \A j \in Nat, m \in Nat \ {0} : j % m \in 0..(m - 1)
    OBVIOUS
  <2>3. Turn \in 0..(Len(rVector) - 1)
    BY <2>1, <2>2 DEF Turn
  <2>. QED  BY <2>1, <2>3
<1>2. Turn + 1 \in DOMAIN rVector
  BY <1>1 DEF IInv, TypeOK
<1>3. v.size \in Nat /\ v.bits \subseteq 0..(v.size - 1)
  <2>1. v \in Vector /\ v.size = Len(Initial[v.name])
        /\ v.bits \subseteq 0..(v.size - 1)
    BY <1>2 DEF IInv, TypeOK, VectorsSized
  <2>. QED  BY <2>1, ServerAssumption DEF Vector
<1>4. index' = Turn /\ IF LastOf(run) = -1 THEN NoBurst
        ELSE cur' = run.from /\ to' = LastOf(run) /\ rpc' = "send"
  BY DEF Pick
<1>. HIDE DEF v
<1>5. /\ run.from \in Nat
      /\ v.bits = {} => run.to = -1
      /\ v.bits # {} => /\ run.to \in Nat /\ run.from <= run.to
                        /\ run.from..run.to \subseteq v.bits
  BY <1>3, FirstRunIsFirst
<1>. HIDE DEF run
<1>6. \/ v.bits = {} /\ LastOf(run) = -1
      \/ /\ LastOf(run) \in Nat /\ run.from <= LastOf(run)
         /\ run.from..LastOf(run) \subseteq v.bits
         /\ LastOf(run) - run.from <= Burst
  BY <1>5, ServerAssumption DEF LastOf, LesserOf
<1>7. UNCHANGED <<disk, info, handlerVars, queueVars, left, owed>>
      /\ rpc = "pick" /\ rVector # <<>>
  BY DEF Pick
<1>8. TypeOK'
  <2>1. index' \in Nat /\ index' < Len(rVector)
    BY <1>1, <1>4
  <2>2. /\ cur' \in Int /\ to' \in Int /\ rpc' \in {"sleep", "send"}
        /\ rpc' # "send" => source' = <<>>
    BY <1>4, <1>5, <1>6 DEF NoBurst
  <2>3. UNCHANGED <<disk, info, hpc, hreq, requests, rVector, it, left, owed>>
    BY <1>7 DEF handlerVars, queueVars
  <2>. QED  BY <1>7, <2>1, <2>2, <2>3 DEF IInv, TypeOK
<1>9. BurstRequested'
  <2>. SUFFICES ASSUME rpc' = "send"
                PROVE  /\ cur'..to' \subseteq rVector'[index' + 1].bits
                       /\ cur' <= to' /\ to' - cur' <= Burst
    BY DEF BurstRequested
  <2>1. LastOf(run) # -1 /\ cur' = run.from /\ to' = LastOf(run)
    BY <1>4 DEF NoBurst
  <2>2. rVector'[index' + 1] = v
    BY <1>4, <1>7 DEF queueVars, v
  <2>. QED  BY <1>6, <2>1, <2>2
<1>10. Marked' = Marked /\ Pushing' = Pushing /\ Queued' = Queued
  <2>1. rpc' \notin {"drain", "clear"}
    BY <1>4 DEF NoBurst
  <2>. QED  BY <1>7, <2>1
            DEF Marked, Pushing, Queued, handlerVars, queueVars
<1>11. NoLostRequest'
  BY <1>7, <1>10 DEF IInv, NoLostRequest
<1>12. DrainPosition'
  BY <1>4, <1>7 DEF IInv, DrainPosition, NoBurst, queueVars
<1>. QED  BY <1>7, <1>8, <1>9, <1>11, <1>12
          DEF IInv, FilesKeepSize, Fits, RequestsFit, VectorsSized,
              handlerVars, queueVars

(* A block is sent, and it alone is no longer promised nor marked. *)
LEMMA SendStep ==
  ASSUME IInv, NEW n \in Images, NEW i \in BlockNumbers, Send(n, i)
  PROVE  IInv'
<1>. DEFINE p == index + 1
<1>1. /\ p \in DOMAIN rVector /\ n = rVector[p].name /\ i = cur
      /\ rVector[p] \in Vector /\ cur \in Int /\ to \in Int
      /\ rVector[p].bits \subseteq Int
  <2>1. p \in DOMAIN rVector
    BY DEF Send, IInv, TypeOK
  <2>2. rVector[p] \in Vector
    BY <2>1 DEF IInv, TypeOK
  <2>. QED  BY <2>1, <2>2 DEF Send, Sending, IInv, TypeOK, Vector
<1>2. /\ cur..to \subseteq rVector[p].bits /\ cur <= to
      /\ to - cur <= Burst
  BY DEF Send, IInv, BurstRequested
<1>3. /\ rVector' = [rVector EXCEPT ![p].bits = @ \ {i}]
      /\ owed' = owed \ {<<n, i>>}
      /\ IF i = to THEN NoBurst
         ELSE cur' = cur + 1 /\ UNCHANGED <<to, source, rpc>>
      /\ UNCHANGED <<disk, info, handlerVars, requests, it, index, left>>
      /\ rpc = "send"
  BY DEF Send
<1>4. /\ rVector' \in Seq(Vector) /\ Len(rVector') = Len(rVector)
      /\ DOMAIN rVector' = DOMAIN rVector
      /\ \A k \in DOMAIN rVector \ {p} : rVector'[k] = rVector[k]
      /\ rVector'[p].name = n /\ rVector'[p].size = rVector[p].size
      /\ rVector'[p].bits = rVector[p].bits \ {i}
  BY <1>1, <1>3 DEF IInv, TypeOK, Vector
<1>. HIDE DEF p
<1>5. TypeOK'
  <2>1. \A j, k \in DOMAIN rVector' :
           rVector'[j].name = rVector'[k].name => j = k
    BY <1>1, <1>4 DEF IInv, TypeOK
  <2>2. rVector' # <<>>
    BY <1>1, <1>4
  <2>3. /\ cur' \in Int /\ to' \in Int /\ rpc' \in {"send", "sleep"}
        /\ rpc' # "send" => source' = <<>>
    BY <1>1, <1>3 DEF NoBurst
  <2>. QED  BY <1>3, <1>4, <2>1, <2>2, <2>3 DEF IInv, TypeOK, handlerVars
<1>6. BurstRequested'
  <2>. SUFFICES ASSUME rpc' = "send"
                PROVE  /\ cur'..to' \subseteq rVector'[p].bits
                       /\ cur' <= to' /\ to' - cur' <= Burst
    BY <1>3 DEF BurstRequested, p
  <2>1. i # to /\ cur' = cur + 1 /\ to' = to
    BY <1>3 DEF NoBurst
  <2>. QED  BY <1>1, <1>2, <1>4, <2>1, ServerAssumption
<1>7. Marked \ {<<n, i>>} \subseteq Marked'
  <2>1. Marked' = UNION {{<<rVector'[k].name, j>> : j \in rVector'[k].bits} :
                            k \in DOMAIN rVector'}
    BY DEF Marked
  <2>2. ASSUME NEW k \in DOMAIN rVector, NEW j \in rVector[k].bits,
               <<rVector[k].name, j>> # <<n, i>>
        PROVE  <<rVector[k].name, j>> \in Marked'
    <3>1. rVector'[k].name = rVector[k].name /\ j \in rVector'[k].bits
      BY <1>1, <1>4, <2>2
    <3>. QED  BY <1>4, <2>1, <3>1
  <2>. QED  BY <2>2 DEF Marked
<1>8. Pushing' = Pushing /\ Queued' = Queued
  BY <1>3 DEF Pushing, Queued, NoBurst, handlerVars
<1>9. NoLostRequest'
  BY <1>3, <1>7, <1>8 DEF IInv, NoLostRequest
<1>10. VectorsSized'
  <2>. SUFFICES ASSUME NEW k \in DOMAIN rVector
                PROVE  /\ rVector'[k].size = Len(Initial[rVector'[k].name])
                       /\ rVector'[k].bits \subseteq 0..(rVector'[k].size - 1)
    BY <1>4 DEF VectorsSized
  <2>. QED  BY <1>1, <1>4 DEF IInv, VectorsSized
<1>11. DrainPosition'
  BY <1>3 DEF IInv, DrainPosition, NoBurst
<1>. QED  BY <1>3, <1>5, <1>6, <1>9, <1>10, <1>11
          DEF IInv, FilesKeepSize, Fits, RequestsFit, handlerVars

(* The burst is given up. *)
LEMMA SendStopsStep ==
  ASSUME IInv, SendStops
  PROVE  IInv'
<1>. USE DEF SendStops, NoBurst, handlerVars, queueVars
<1>1. TypeOK'
  BY DEF IInv, TypeOK
<1>2. Marked' = Marked /\ Pushing' = Pushing /\ Queued' = Queued
  BY DEF Marked, Pushing, Queued
<1>3. NoLostRequest'
  BY <1>2 DEF IInv, NoLostRequest
<1>. QED  BY <1>1, <1>3 DEF IInv, BurstRequested, FilesKeepSize, Fits,
             RequestsFit, VectorsSized, DrainPosition
-----------------------------------------------------------------------------
(* Files and their listing *)

(* A reload finds every file as long as it was. *)
LEMMA ReloadStep ==
  ASSUME IInv, parseConfig
  PROVE  IInv'
<1>. USE DEF parseConfig, handlerVars, queueVars, burstVars
<1>1. /\ Listing \in [Images -> Int]
      /\ \A n \in Images : Listing[n] \in {Unlisted, Len(Initial[n]) - 1}
  BY ListingSizes DEF IInv, FilesKeepSize
<1>2. TypeOK' /\ FilesKeepSize'
  BY <1>1 DEF IInv, TypeOK, FilesKeepSize
<1>3. NoLostRequest'
  BY DEF IInv, NoLostRequest, Marked, Pushing, Queued
<1>. QED  BY <1>2, <1>3 DEF IInv, BurstRequested, Fits, RequestsFit,
             VectorsSized, DrainPosition

(* A file is replaced by one of its size, or disappears. *)
LEMMA EditStep ==
  ASSUME IInv, StableFiles, NEW e \in Edits, Edit(e[1], e[2])
  PROVE  IInv'
<1>. USE DEF Edit, handlerVars, queueVars, burstVars
<1>1. DOMAIN disk' = Images
  BY DEF IInv, TypeOK
<1>2. ASSUME NEW n \in Images
      PROVE  disk'[n] = <<>> \/ Len(disk'[n]) = Len(Initial[n])
  <2>1. CASE n = e[1]
    BY <2>1 DEF IInv, TypeOK, StableFiles
  <2>2. CASE n # e[1]
    BY <2>2 DEF IInv, TypeOK, FilesKeepSize
  <2>. QED  BY <2>1, <2>2
<1>3. TypeOK' /\ FilesKeepSize'
  <2>1. rpc # "send" => source = <<>> /\ source' = <<>>
    BY DEF IInv, TypeOK
  <2>. QED  BY <1>1, <1>2, <2>1 DEF IInv, TypeOK, FilesKeepSize
<1>4. NoLostRequest'
  BY DEF IInv, NoLostRequest, Marked, Pushing, Queued
<1>. QED  BY <1>3, <1>4 DEF IInv, BurstRequested, Fits, RequestsFit,
             VectorsSized, DrainPosition

-----------------------------------------------------------------------------
(* While the server does nothing nothing changes. *)
LEMMA StandStep ==
  ASSUME IInv, UNCHANGED vars
  PROVE  IInv'
<1>. USE DEF vars, handlerVars, queueVars, burstVars
<1>1. TypeOK'
  BY DEF IInv, TypeOK
<1>2. NoLostRequest'
  BY DEF IInv, NoLostRequest, Marked, Pushing, Queued
<1>3. RequestsFit' /\ VectorsSized' /\ FilesKeepSize'
  BY DEF IInv, RequestsFit, Fits, VectorsSized, FilesKeepSize
<1>. QED  BY <1>1, <1>2, <1>3 DEF IInv, BurstRequested, DrainPosition

(* Every step keeps the invariant. *)
LEMMA NextIInv ==
  ASSUME StableFiles, PlainHeaders, IInv, [Next]_vars
  PROVE  IInv'
<1>1. CASE \E h \in Handlers : Connect(h) \/ reply(h) \/ push(h) \/ hangup(h)
  BY <1>1, ConnectStep, ReplyStep, PushStep, HangupStep
<1>2. CASE RestoreThread
  BY <1>2, IdleSteps, DrainStep, ClearStep, PickStep, SendStep, SendStopsStep
     DEF RestoreThread
<1>3. CASE parseConfig
  BY <1>3, ReloadStep
<1>4. CASE \E e \in Edits : Edit(e[1], e[2])
  BY <1>4, EditStep
<1>5. CASE UNCHANGED vars
  BY <1>5, StandStep
<1>. QED  BY <1>1, <1>2, <1>3, <1>4, <1>5 DEF Next

(* Requests and vectors agree with the files in every reachable state. *)
THEOREM ServerInvariant ==
  ASSUME StableFiles, PlainHeaders
  PROVE  Spec => []IInv
<1>1. Init => IInv
  BY InitIInv
<1>2. IInv /\ [Next]_vars => IInv'
  BY NextIInv
<1>. QED  BY <1>1, <1>2, PTL DEF Spec

(* No image gets two vectors, and the restore thread's index points at one of
   those there are, however the vectors come and go. *)
THEOREM ServerTyped ==
  ASSUME StableFiles, PlainHeaders
  PROVE  Spec => []TypeOK
<1>1. IInv => TypeOK
  BY DEF IInv
<1>. QED  BY <1>1, ServerInvariant, PTL

(* Every block that the server promised with a 200 is sent or still on its way
   to being sent, whatever the interleaving of connections, drain, bursts,
   failed sends, files that vanish, and reloads. *)
THEOREM PromisesKept ==
  ASSUME StableFiles, PlainHeaders
  PROVE  Spec => []NoLostRequest
<1>1. IInv => NoLostRequest
  BY DEF IInv
<1>. QED  BY <1>1, ServerInvariant, PTL

(* The server broadcasts only blocks that were asked for and not sent since,
   at most Burst + 1 of them in a turn. *)
THEOREM OnlyRequestedIsSent ==
  ASSUME StableFiles, PlainHeaders
  PROVE  Spec => []BurstRequested
<1>1. IInv => BurstRequested
  BY DEF IInv
<1>. QED  BY <1>1, ServerInvariant, PTL

(* The vectors are indexed within their bounds as long as files keep their
   size: what RestoreServerReload.cfg shows needs a change of size. *)
THEOREM SameSizeFits ==
  ASSUME StableFiles, PlainHeaders
  PROVE  Spec => []VectorsFit
<1>1. ASSUME IInv PROVE VectorsFit
  <2>. SUFFICES ASSUME rpc = "drain", it <= Len(requests),
                       NEW k \in DOMAIN rVector,
                       rVector[k].name = requests[it].name
                PROVE  requests[it].from..requests[it].to
                          \subseteq 0..(rVector[k].size - 1)
    BY DEF VectorsFit
  <2>1. it \in DOMAIN requests /\ requests[it] \in Request
    BY <1>1 DEF IInv, TypeOK
  <2>2. Fits(requests[it])
    BY <1>1, <2>1 DEF IInv, RequestsFit
  <2>3. rVector[k].size = Len(Initial[requests[it].name])
    BY <1>1 DEF IInv, VectorsSized
  <2>. QED  BY <2>1, <2>2, <2>3, ServerAssumption DEF Fits, Request
<1>. QED  BY <1>1, ServerInvariant, PTL

-----------------------------------------------------------------------------
(* Restore: server, network and clients *)

\* what files consist of
FilesOver(U) == /\ Initial \in [Images -> Seq(U)]
                /\ Targets \in [Clients -> Seq(U)]
                /\ Junk \in U

\* for the others MarksAreBlocks fails
PartialImages == \A n \in Images : Initial[n] # <<>> => Len(Initial[n]) % M # 0

TargetsFit == \A w \in Wanted, c \in Clients :
                 Len(Targets[c]) \div M <= Len(Initial[w[c]]) \div M

Datagrams(U) == [name : Images, index : Nat, data : U]

Inv(U) == /\ RInv
          /\ target \in [Clients -> Seq(U)]
          /\ inbox \in [Clients -> SUBSET Datagrams(U)]

(* A client's image is one of the server's files. *)
LEMMA ImageOfIs ==
  ASSUME NEW U, FilesOver(U), Inv(U), NEW c \in Clients
  PROVE  /\ wanted[c] \in Images /\ ImageOf(c) = Initial[wanted[c]]
         /\ ImageOf(c) \in Seq(U) /\ Len(ImageOf(c)) \in Nat
  BY RestoreAssumption DEF Inv, RInv, FilesOver, ImageOf

(* Initially there is nothing to disagree about. *)
LEMMA InitInv ==
  ASSUME NEW U, FilesOver(U), TargetsFit
  PROVE  RInit => Inv(U)
<1>. SUFFICES ASSUME RInit PROVE Inv(U)
  OBVIOUS
<1>1. /\ IInv /\ disk = Initial /\ info = Listing /\ wanted \in Wanted
      /\ rpc # "send"
  BY InitIInv DEF RInit, Init
<1>2. RTypeOK
  BY RestoreAssumption DEF RInit, RTypeOK
<1>3. ReadyIsWritten /\ NothingRefused
  BY DEF RInit, ReadyIsWritten, NothingRefused
<1>4. ASSUME NEW c \in Clients PROVE ClientFits(c)
  BY <1>1 DEF RInit, ClientFits, TargetsFit, ImageOf
<1>5. target \in [Clients -> Seq(U)] /\ inbox \in [Clients -> SUBSET Datagrams(U)]
  BY DEF RInit, FilesOver
<1>. QED  BY <1>1, <1>2, <1>3, <1>4, <1>5 DEF Inv, RInv
-----------------------------------------------------------------------------
(* What the server does, and the network *)

(* A step of the server keeps the invariant if it changes neither the files
   nor a request that a client waits for, and broadcasts what is on the disk. *)
LEMMA ServerMoves ==
  ASSUME NEW U, Inv(U), IInv', UNCHANGED <<disk, info>>,
         UNCHANGED <<wanted, cpc, target, ready, end, doubtful>>,
         rpc' = "send" => source' = disk'[Sending'],
         faults' \in 0..MaxFaults,
         conn' \in [Clients -> Handlers \cup {NoHandler}],
         \A c \in Clients : conn'[c] # NoHandler =>
            /\ conn'[c] = conn[c]
            /\ hpc'[conn[c]] = hpc[conn[c]]
            /\ hreq'[conn[c]] = hreq[conn[c]],
         inbox' \in [Clients -> SUBSET Datagrams(U)],
         \A c \in Clients : \A d \in inbox'[c] : Genuine(d)
  PROVE  Inv(U)'
<1>1. RTypeOK'
  <2>1. RTypeOK
    BY DEF Inv, RInv
  <2>2. \A c \in Clients : conn'[c] # NoHandler =>
           /\ cpc'[c] = "loop" /\ hpc'[conn'[c]] = "reply"
           /\ hreq'[conn'[c]].name = wanted'[c]
           /\ \A b \in Clients \ {c} : conn'[b] # conn'[c]
    <3>. SUFFICES ASSUME NEW c \in Clients, conn'[c] # NoHandler
                  PROVE  /\ cpc'[c] = "loop" /\ hpc'[conn'[c]] = "reply"
                         /\ hreq'[conn'[c]].name = wanted'[c]
                         /\ \A b \in Clients \ {c} : conn'[b] # conn'[c]
      OBVIOUS
    <3>1. /\ conn'[c] = conn[c] /\ hpc'[conn[c]] = hpc[conn[c]]
          /\ hreq'[conn[c]] = hreq[conn[c]]
      OBVIOUS
    <3>2. /\ cpc[c] = "loop" /\ hpc[conn[c]] = "reply"
          /\ hreq[conn[c]].name = wanted[c]
          /\ \A b \in Clients \ {c} : conn[b] # conn[c]
      BY <2>1, <3>1 DEF RTypeOK
    <3>3. ASSUME NEW b \in Clients \ {c} PROVE conn'[b] # conn'[c]
      BY <3>1, <3>2
    <3>. QED  BY <3>1, <3>2, <3>3
  <2>. QED  BY <2>1, <2>2 DEF RTypeOK
<1>2. NothingRefused'
  BY DEF Inv, RInv, NothingRefused
<1>3. ReadyIsWritten'
  BY DEF Inv, RInv, ReadyIsWritten, HasBlock, ImageOf
<1>4. ASSUME NEW c \in Clients PROVE ClientFits(c)'
  BY DEF Inv, RInv, ClientFits, ImageOf, Genuine
<1>5. (disk = Initial /\ info = Listing /\ wanted \in Wanted)'
  BY DEF Inv, RInv, Listing
<1>. QED  BY <1>1, <1>2, <1>3, <1>4, <1>5 DEF Inv, RInv

(* The whole answer comes, or the connection ends: the client goes on. *)
LEMMA AnswerStep ==
  ASSUME NEW U, Inv(U), UNCHANGED wanted, NEW h \in Handlers,
         Answer(h) \/ Disconnect(h)
  PROVE  Inv(U)'
<1>1. IInv'
  BY ReplyStep, HangupStep DEF Answer, Disconnect, Inv, RInv
<1>2. /\ UNCHANGED <<disk, info, cpc, target, ready, end, doubtful, inbox, faults>>
      /\ Released(h)
      /\ \A g \in Handlers \ {h} : hpc'[g] = hpc[g] /\ hreq'[g] = hreq[g]
  BY DEF Answer, Disconnect, reply, hangup, End, Inv, RInv, IInv, TypeOK
<1>3. UNCHANGED <<rpc, source, rVector, index>>
  BY DEF Answer, Disconnect, reply, hangup, queueVars, burstVars
<1>4. rpc' = "send" => source' = disk'[Sending']
  BY <1>2, <1>3 DEF Sending, Inv, RInv
<1>5. /\ conn' \in [Clients -> Handlers \cup {NoHandler}]
      /\ \A c \in Clients : conn'[c] # NoHandler =>
            conn'[c] = conn[c] /\ conn[c] \in Handlers \ {h}
  BY <1>2 DEF Released, Inv, RInv, RTypeOK
<1>6. faults' \in 0..MaxFaults /\ inbox' \in [Clients -> SUBSET Datagrams(U)]
      /\ \A c \in Clients : \A d \in inbox'[c] : Genuine(d)
  BY <1>2 DEF Inv, RInv, RTypeOK, ClientFits
<1>. QED  BY <1>1, <1>2, <1>5, <1>6, <1>4, ServerMoves

(* No client waits for a thread that queues its request. *)
LEMMA QueueingStep ==
  ASSUME NEW U, Inv(U), UNCHANGED wanted, NEW h \in Handlers, Queueing(h)
  PROVE  Inv(U)'
<1>1. IInv'
  BY PushStep DEF Queueing, Inv, RInv
<1>2. /\ UNCHANGED <<disk, info, clientVars, faults>> /\ hpc[h] = "push"
      /\ \A g \in Handlers \ {h} : hpc'[g] = hpc[g] /\ hreq'[g] = hreq[g]
  BY DEF Queueing, push, End, Inv, RInv, IInv, TypeOK
<1>3. rpc' = "send" => source' = disk'[Sending']
  BY <1>2 DEF Queueing, push, burstVars, Sending, Inv, RInv
<1>4. \A c \in Clients : conn[c] # NoHandler => conn[c] \in Handlers \ {h}
  BY <1>2 DEF Inv, RInv, RTypeOK
<1>5. /\ conn' \in [Clients -> Handlers \cup {NoHandler}]
      /\ faults' \in 0..MaxFaults
      /\ inbox' \in [Clients -> SUBSET Datagrams(U)]
      /\ \A c \in Clients : \A d \in inbox'[c] : Genuine(d)
  BY <1>2 DEF Inv, RInv, RTypeOK, ClientFits, clientVars
<1>. QED  BY <1>1, <1>2, <1>4, <1>5, <1>3, ServerMoves DEF clientVars

(* Everything else that the server does without a client. *)
LEMMA RestoringStep ==
  ASSUME NEW U, Inv(U), UNCHANGED <<wanted, clientVars, faults>>,
         \/ Lock \/ Drain \/ Drained \/ Clear
         \/ NothingKnown \/ Pick \/ SendStops \/ parseConfig
  PROVE  Inv(U)'
<1>1. IInv'
  BY IdleSteps, DrainStep, ClearStep, PickStep, SendStopsStep, ReloadStep
     DEF Inv, RInv
<1>2. UNCHANGED <<disk, info, hpc, hreq>>
  BY DEF Lock, Drain, Drained, Clear, NothingKnown, Pick, SendStops,
         parseConfig, handlerVars, Inv, RInv
<1>3. rpc' = "send" => source' = disk'[Sending']
  <2>1. CASE Pick
    BY <1>2, <2>1 DEF Pick, NoBurst, Sending, Turn, queueVars
  <2>2. CASE parseConfig
    BY <1>2, <2>2 DEF parseConfig, queueVars, burstVars, Sending, Inv, RInv
  <2>3. CASE Lock \/ Drain \/ Drained \/ Clear \/ NothingKnown \/ SendStops
    BY <2>3 DEF Lock, Drain, Drained, Clear, NothingKnown, SendStops, NoBurst
  <2>. QED  BY <2>1, <2>2, <2>3
<1>4. /\ conn' \in [Clients -> Handlers \cup {NoHandler}]
      /\ faults' \in 0..MaxFaults
      /\ inbox' \in [Clients -> SUBSET Datagrams(U)]
      /\ \A c \in Clients : \A d \in inbox'[c] : Genuine(d)
  BY DEF Inv, RInv, RTypeOK, ClientFits, clientVars
<1>. QED  BY <1>1, <1>2, <1>4, <1>3, ServerMoves DEF clientVars

(* A datagram carries the block that the file has. *)
LEMMA BroadcastStep ==
  ASSUME NEW U, FilesOver(U), Inv(U), UNCHANGED wanted,
         NEW n \in Images, NEW i \in BlockNumbers, NEW R \in SUBSET Clients,
         Broadcast(n, i, R)
  PROVE  Inv(U)'
<1>1. IInv'
  BY SendStep DEF Broadcast, Inv, RInv
<1>2. /\ UNCHANGED <<disk, info, hpc, hreq>>
      /\ UNCHANGED <<cpc, conn, target, ready, end, doubtful, faults>>
      /\ inbox' = [c \in Clients |-> IF c \in R THEN inbox[c] \cup {Datagram}
                                     ELSE inbox[c]]
  BY DEF Broadcast, Send, handlerVars
<1>3. Datagram \in Datagrams(U) /\ Genuine(Datagram)
  <2>1. /\ n = Sending /\ source = disk[n]
        /\ cur < Len(disk[n]) /\ disk[n] \in Seq(U)
    BY DEF Broadcast, Send, Inv, RInv, FilesOver
  <2>2. cur \in Nat
    <3>1. /\ cur \in rVector[index + 1].bits /\ index + 1 \in DOMAIN rVector
      BY DEF Broadcast, Send, Inv, RInv, IInv, TypeOK, BurstRequested
    <3>2. /\ rVector[index + 1].bits \subseteq 0..(rVector[index + 1].size - 1)
          /\ rVector[index + 1].size \in Int
      <4>1. rVector[index + 1] \in Vector
        BY <3>1 DEF Inv, RInv, IInv, TypeOK
      <4>. QED  BY <3>1, <4>1 DEF Inv, RInv, IInv, VectorsSized, Vector
    <3>. QED  BY <3>1, <3>2
  <2>3. cur + 1 \in 1..Len(disk[n])
    BY <2>1, <2>2
  <2>. QED  BY <2>1, <2>2, <2>3 DEF Datagram, Datagrams, Genuine
<1>4. /\ inbox' \in [Clients -> SUBSET Datagrams(U)]
      /\ \A c \in Clients : \A d \in inbox'[c] : Genuine(d)
  BY <1>2, <1>3 DEF Inv, RInv, ClientFits
<1>5. /\ conn' \in [Clients -> Handlers \cup {NoHandler}]
      /\ faults' \in 0..MaxFaults
  BY <1>2 DEF Inv, RInv, RTypeOK
<1>6. rpc' = "send" => source' = disk'[Sending']
  <2>. SUFFICES ASSUME rpc' = "send" PROVE source' = disk'[Sending']
    OBVIOUS
  <2>1. /\ rpc = "send" /\ source' = source /\ index' = index
        /\ rVector' = [rVector EXCEPT ![index + 1].bits = @ \ {i}]
    BY DEF Broadcast, Send, NoBurst
  <2>2. /\ index + 1 \in DOMAIN rVector /\ rVector[index + 1] \in Vector
    BY <2>1 DEF Inv, RInv, IInv, TypeOK
  <2>3. rVector'[index + 1].name = rVector[index + 1].name
    BY <2>1, <2>2 DEF Vector
  <2>4. Sending' = Sending
    BY <2>1, <2>3 DEF Sending
  <2>. QED  BY <1>2, <2>1, <2>4 DEF Inv, RInv
<1>. QED  BY <1>1, <1>2, <1>4, <1>5, <1>6, ServerMoves

(* After a crash the server is as it was at its start, but for the files, and
   nobody waits for it. *)
LEMMA CrashServerStep ==
  ASSUME NEW U, Inv(U), UNCHANGED wanted, CrashServer
  PROVE  Inv(U)'
<1>1. disk' = disk /\ info' = info /\ left' = left
  BY DEF CrashServer, Inv, RInv
<1>2. IInv'
  <2>1. TypeOK'
    BY <1>1, NoRequestIsRequest DEF CrashServer, NoBurst, Inv, RInv, IInv, TypeOK
  <2>2. FilesKeepSize'
    BY <1>1 DEF Inv, RInv, IInv, FilesKeepSize
  <2>. QED  BY <2>1, <2>2 DEF CrashServer, NoBurst, IInv, NoLostRequest, BurstRequested,
               RequestsFit, VectorsSized, DrainPosition
<1>3. /\ conn' \in [Clients -> Handlers \cup {NoHandler}]
      /\ \A c \in Clients : conn'[c] = NoHandler
      /\ faults' \in 0..MaxFaults
      /\ inbox' \in [Clients -> SUBSET Datagrams(U)]
      /\ \A c \in Clients : \A d \in inbox'[c] : Genuine(d)
  BY RestoreAssumption DEF CrashServer, Inv, RInv, RTypeOK, ClientFits
<1>4. UNCHANGED <<cpc, target, ready, end, doubtful>> /\ rpc' = "sleep"
  BY DEF CrashServer, NoBurst
<1>. QED  BY <1>1, <1>2, <1>3, <1>4, ServerMoves
-----------------------------------------------------------------------------
(* What a client does *)

\* the clients' variables, one client's, and what other clients see of its step
Typed(U) == /\ cpc \in [Clients -> {"start", "loop", "done"}]
            /\ conn \in [Clients -> Handlers \cup {NoHandler}]
            /\ target \in [Clients -> Seq(U)]
            /\ doubtful \in [Clients -> SUBSET Nat]
            /\ ready \in [Clients -> SUBSET Nat] /\ end \in [Clients -> Int]
            /\ inbox \in [Clients -> SUBSET Datagrams(U)]
            /\ faults \in 0..MaxFaults

Waits(c) == conn[c] # NoHandler =>
               /\ cpc[c] = "loop" /\ hpc[conn[c]] = "reply"
               /\ hreq[conn[c]].name = wanted[c]
               /\ hreq[conn[c]].error = "NOT_SET"
               /\ hreq[conn[c]].from..hreq[conn[c]].to \cap ready[c] = {}

Has(c) == /\ ready[c] \subseteq 0..end[c]
          /\ \A i \in ready[c] \ doubtful[c] : HasBlock(c, i)

Apart(b, c) == conn[c] # NoHandler => conn[b] # conn[c]

SameFor(b) ==
    /\ cpc'[b] = cpc[b] /\ conn'[b] = conn[b] /\ target'[b] = target[b]
    /\ ready'[b] = ready[b] /\ end'[b] = end[b] /\ inbox'[b] = inbox[b]
    /\ doubtful'[b] = doubtful[b]
    /\ conn[b] # NoHandler => /\ hpc'[conn[b]] = hpc[conn[b]]
                              /\ hreq'[conn[b]] = hreq[conn[b]]

(* The invariant, client by client. *)
LEMMA ClientParts ==
  ASSUME NEW U, Inv(U)
  PROVE  /\ IInv /\ wanted \in Wanted /\ Typed(U)
         /\ \A c \in Clients : /\ Waits(c) /\ Has(c) /\ ClientFits(c)
                               /\ \A b \in Clients \ {c} : Apart(b, c)
                               /\ cpc[c] # "loop" => conn[c] = NoHandler
  BY DEF Inv, RInv, RTypeOK, ReadyIsWritten, NothingRefused,
         Typed, Waits, Has, Apart

(* A step of a client keeps the invariant if nobody else sees it and it leaves
   what the client has in order. *)
LEMMA ClientMoves ==
  ASSUME NEW U, Inv(U), IInv', UNCHANGED <<disk, info, wanted>>,
         rpc' = "send" => source' = disk'[Sending'],
         NEW c \in Clients, Typed(U)',
         \A b \in Clients \ {c} : SameFor(b) /\ Apart(b, c)',
         Waits(c)', Has(c)', ClientFits(c)'
  PROVE  Inv(U)'
<1>1. ASSUME NEW b \in Clients, b # c
      PROVE  Waits(b)' /\ Has(b)' /\ ClientFits(b)'
  <2>1. SameFor(b) /\ Waits(b) /\ Has(b) /\ ClientFits(b)
    BY <1>1, ClientParts
  <2>2. ImageOf(b)' = ImageOf(b)
    BY DEF ImageOf
  <2>3. Waits(b)'
    BY <2>1 DEF SameFor, Waits
  <2>4. Has(b)'
    BY <2>1, <2>2 DEF SameFor, Has, HasBlock
  <2>5. \A d \in inbox[b] : Genuine(d)'
    BY <2>1 DEF ClientFits, Genuine
  <2>6. ClientFits(b)'
    BY <2>1, <2>2, <2>5 DEF SameFor, ClientFits
  <2>. QED  BY <2>3, <2>4, <2>6
<1>2. ASSUME NEW a \in Clients, NEW b \in Clients, a # b PROVE Apart(a, b)'
  <2>1. Apart(a, b) /\ Apart(b, a)
    BY <1>2, ClientParts
  <2>2. CASE b = c
    BY <1>2, <2>2
  <2>3. CASE a = c
    <3>1. Apart(b, c)'
      BY <1>2, <2>3
    <3>. QED  BY <2>3, <3>1 DEF Apart
  <2>4. CASE a # c /\ b # c
    <3>1. conn'[a] = conn[a] /\ conn'[b] = conn[b]
      BY <2>4 DEF SameFor
    <3>. QED  BY <2>1, <3>1 DEF Apart
  <2>. QED  BY <2>2, <2>3, <2>4
<1>3. \A b \in Clients : Waits(b)' /\ Has(b)' /\ ClientFits(b)'
  BY <1>1
<1>4. RTypeOK'
  BY <1>2, <1>3 DEF RTypeOK, Typed, Waits, Has, Apart
<1>5. NothingRefused' /\ ReadyIsWritten'
  BY <1>3 DEF NothingRefused, ReadyIsWritten, Waits, Has
<1>6. (disk = Initial /\ info = Listing /\ wanted \in Wanted)'
  BY DEF Inv, RInv, Listing
<1>. QED  BY <1>3, <1>4, <1>5, <1>6 DEF Inv, RInv, Typed

(* In what a client does alone the server stands still. *)
LEMMA ServerStands ==
  ASSUME NEW U, Inv(U), UNCHANGED serverVars
  PROVE  /\ IInv' /\ UNCHANGED <<disk, info, hpc, hreq>>
         /\ rpc' = "send" => source' = disk'[Sending']
<1>1. UNCHANGED vars /\ IInv
  BY DEF serverVars, Inv, RInv
<1>2. UNCHANGED <<rpc, source, disk, rVector, index>>
  BY <1>1 DEF vars, queueVars, burstVars
<1>3. rpc' = "send" => source' = disk'[Sending']
  BY <1>2 DEF Sending, Inv, RInv
<1>. QED  BY <1>1, <1>3, StandStep DEF vars, handlerVars

\* what a client takes its file, and the marks of it, for
StartsWith(c, file, stray, lastEqual) ==
    LET S == Marks(ImageOf(c), file, stray, lastEqual)
    IN  /\ target' = [target EXCEPT ![c] = file]
        /\ ready' = [ready EXCEPT ![c] = S]
        /\ doubtful' = [doubtful EXCEPT ![c] = {i \in S : i \div K \in stray}]

(* The client is started, for the first time or again. *)
LEMMA StartStep ==
  ASSUME NEW U, FilesOver(U), PartialImages, Inv(U), UNCHANGED wanted,
         NEW c \in Clients, Start(c)
  PROVE  Inv(U)'
<1>. DEFINE image == ImageOf(c)
<1>1. PICK file \in Extensions(target[c], Len(image), Junk, Junk) :
         \E stray \in SUBSET Unsummed(image, file) :
         \E lastEqual \in LastEqual(image, file) :
            StartsWith(c, file, stray, lastEqual)
  BY DEF Start, StartsWith, ImageOf
<1>2. PICK stray \in SUBSET Unsummed(image, file) :
         \E lastEqual \in LastEqual(image, file) :
            StartsWith(c, file, stray, lastEqual)
  BY <1>1
<1>3. PICK lastEqual \in LastEqual(image, file) :
         StartsWith(c, file, stray, lastEqual)
  BY <1>2
<1>4. /\ cpc[c] = "start" /\ info[wanted[c]] # Unlisted
      /\ UNCHANGED <<serverVars, conn, inbox, faults>>
      /\ cpc' = [cpc EXCEPT ![c] = "loop"]
      /\ target' = [target EXCEPT ![c] = file]
      /\ end' = [end EXCEPT ![c] = LastBlock(image)]
  BY <1>3 DEF Start, StartsWith, getImageInfo, ImageOf
<1>5. /\ image \in Seq(U) /\ Len(image) \in Nat /\ M \in Nat \ {0}
      /\ image = ImageOf(c)
  BY ImageOfIs, PartSize
<1>. HIDE DEF image
<1>6. file \in Seq(U) /\ Len(file) \div M <= Len(image) \div M
  <2>1. Len(target[c]) \div M <= Len(image) \div M
    BY <1>5 DEF Inv, RInv, ClientFits
  <2>2. target[c] \in Seq(U) /\ Junk \in U
    BY ClientParts DEF FilesOver, Typed
  <2>. QED  BY <1>5, <2>1, <2>2, ExtensionsEnd
<1>7. EndsWithin(image, file)
  <2>1. wanted[c] \in Images /\ image = Initial[wanted[c]]
    BY <1>5, ImageOfIs
  <2>2. image # <<>>
    BY <1>4, <2>1 DEF Inv, RInv, Listing
  <2>. QED  BY <1>6, <2>1, <2>2 DEF PartialImages, EndsWithin
<1>8. LastBlock(image) = Len(image) - 1
  <2>1. Len(image) \div 1 = Len(image)
    BY <1>5
  <2>. QED  BY <1>5, <2>1, RestoreAssumption DEF LastBlock
<1>. DEFINE S == Marks(image, file, stray, lastEqual)
            D == {i \in S : i \div K \in stray}
<1>9. ASSUME NEW i \in S
      PROVE  /\ i \in Nat /\ i < Len(image)
             /\ i \notin D => i < Len(file) /\ file[i + 1] = image[i + 1]
  <2>1. /\ i \in Nat /\ (i + 1) * B <= Len(image)
        /\ i \div K \notin stray =>
              \A u \in (i * B + 1)..((i + 1) * B) :
                 u <= Len(file) /\ file[u] = image[u]
    BY <1>5, <1>6, <1>7, MarksAreKept
  <2>2. i + 1 \in (i * B + 1)..((i + 1) * B) /\ (i + 1) * B = i + 1
    BY <2>1, RestoreAssumption
  <2>3. Len(file) \in Nat
    BY <1>6
  <2>. QED  BY <1>5, <2>1, <2>2, <2>3
<1>10. /\ ready' = [ready EXCEPT ![c] = S]
       /\ doubtful' = [doubtful EXCEPT ![c] = D]
  BY <1>3, <1>5 DEF StartsWith
<1>11. D \subseteq S
  OBVIOUS
<1>. HIDE DEF S, D
<1>12. S \in SUBSET Nat /\ S \subseteq 0..(Len(image) - 1) /\ D \in SUBSET Nat
  BY <1>5, <1>9, <1>11
<1>13. /\ IInv' /\ UNCHANGED <<disk, info, hpc, hreq>>
       /\ rpc' = "send" => source' = disk'[Sending']
  BY <1>4, ServerStands
<1>14. /\ cpc'[c] = "loop" /\ target'[c] = file /\ ready'[c] = S
       /\ doubtful'[c] = D
       /\ end'[c] = Len(image) - 1 /\ conn'[c] = NoHandler
  BY <1>4, <1>8, <1>10, ClientParts DEF Typed
<1>15. Typed(U)'
  <2>1. Len(image) - 1 \in Int
    BY <1>5
  <2>. QED  BY <1>4, <1>6, <1>8, <1>10, <1>12, <2>1, ClientParts DEF Typed
<1>16. ASSUME NEW b \in Clients, b # c PROVE SameFor(b) /\ Apart(b, c)'
  BY <1>4, <1>10, <1>13, <1>14, <1>16, ClientParts DEF SameFor, Apart, Typed
<1>17. ImageOf(c)' = image
  BY <1>5, <1>13 DEF ImageOf
<1>18. Waits(c)' /\ Has(c)'
  BY <1>9, <1>12, <1>14, <1>17 DEF Waits, Has, HasBlock
<1>19. ClientFits(c)'
  <2>1. \A d \in inbox[c] : Genuine(d)'
    BY <1>13, ClientParts DEF ClientFits, Genuine
  <2>2. Len(image) \div M \in Nat
    BY <1>5, Division
  <2>. QED  BY <1>4, <1>6, <1>14, <1>17, <2>1, <2>2 DEF ClientFits
<1>. QED  BY <1>13, <1>15, <1>16, <1>18, <1>19, ClientMoves

(* The client reports READY when it misses no block. *)
LEMMA FinishStep ==
  ASSUME NEW U, FilesOver(U), Inv(U), UNCHANGED wanted,
         NEW c \in Clients, Finish(c)
  PROVE  Inv(U)'
<1>1. /\ cpc[c] = "loop" /\ conn[c] = NoHandler /\ Missing(c).to = -1
      /\ cpc' = [cpc EXCEPT ![c] = "done"]
      /\ inbox' = [inbox EXCEPT ![c] = {}]
      /\ UNCHANGED <<serverVars, conn, target, ready, end, doubtful, faults>>
  BY DEF Finish, InLoop
<1>2. /\ IInv' /\ UNCHANGED <<disk, info, hpc, hreq>>
      /\ rpc' = "send" => source' = disk'[Sending']
  BY <1>1, ServerStands
<1>3. end[c] = Len(ImageOf(c)) - 1 /\ end[c] + 1 \in Nat
  BY <1>1, ImageOfIs DEF Inv, RInv, ClientFits
<1>4. 0..end[c] \subseteq ready[c]
  <2>1. end[c] + 1 - 1 = end[c]
    BY <1>3
  <2>. QED  BY <1>1, <1>3, <2>1, FirstGapIsFirst DEF Missing
<1>5. cpc'[c] = "done" /\ inbox'[c] = {} /\ Typed(U)'
  BY <1>1, ClientParts DEF Typed
<1>6. ASSUME NEW b \in Clients, b # c PROVE SameFor(b) /\ Apart(b, c)'
  BY <1>1, <1>2, <1>6, ClientParts DEF SameFor, Apart, Typed
<1>7. ImageOf(c)' = ImageOf(c)
  BY <1>2 DEF ImageOf
<1>8. Waits(c)' /\ Has(c)'
  BY <1>1, <1>7, ClientParts DEF Waits, Has, HasBlock
<1>9. ClientFits(c)'
  <2>1. Len(target[c]) \div M <= Len(ImageOf(c)) \div M
    BY ClientParts DEF ClientFits
  <2>. QED  BY <1>1, <1>3, <1>4, <1>5, <1>7, <2>1 DEF ClientFits
<1>. QED  BY <1>2, <1>5, <1>6, <1>8, <1>9, ClientMoves

(* The client is stopped; its file stays. *)
LEMMA CrashClientStep ==
  ASSUME NEW U, Inv(U), UNCHANGED wanted, NEW c \in Clients, CrashClient(c)
  PROVE  Inv(U)'
<1>1. /\ cpc' = [cpc EXCEPT ![c] = "start"]
      /\ conn' = [conn EXCEPT ![c] = NoHandler]
      /\ ready' = [ready EXCEPT ![c] = {}] /\ end' = [end EXCEPT ![c] = -1]
      /\ inbox' = [inbox EXCEPT ![c] = {}]
      /\ doubtful' = [doubtful EXCEPT ![c] = {}]
      /\ UNCHANGED <<serverVars, target>>
  BY DEF CrashClient
<1>2. /\ IInv' /\ UNCHANGED <<disk, info, hpc, hreq>>
      /\ rpc' = "send" => source' = disk'[Sending']
  BY <1>1, ServerStands
<1>3. /\ cpc'[c] = "start" /\ conn'[c] = NoHandler /\ ready'[c] = {}
      /\ end'[c] = -1 /\ inbox'[c] = {} /\ Typed(U)'
  <2>1. faults' \in 0..MaxFaults
    BY ClientParts, RestoreAssumption DEF CrashClient, Typed
  <2>. QED  BY <1>1, <2>1, ClientParts DEF Typed
<1>4. ASSUME NEW b \in Clients, b # c PROVE SameFor(b) /\ Apart(b, c)'
  BY <1>1, <1>2, <1>3, <1>4, ClientParts DEF SameFor, Apart, Typed
<1>5. Waits(c)' /\ Has(c)'
  BY <1>3 DEF Waits, Has
<1>6. ClientFits(c)'
  BY <1>1, <1>2, <1>3, ClientParts DEF ClientFits, ImageOf
<1>. QED  BY <1>2, <1>3, <1>4, <1>5, <1>6, ClientMoves

(* A request is for blocks that the client misses and the server has. *)
LEMMA AskStep ==
  ASSUME NEW U, FilesOver(U), Inv(U), UNCHANGED wanted,
         NEW c \in Clients, NEW h \in Handlers, sendRequest(c, h)
  PROVE  Inv(U)'
<1>. DEFINE gap == Missing(c)
            q == [name |-> wanted[c], from |-> gap.from, to |-> gap.to,
                  digest |-> "absent"]
<1>1. /\ cpc[c] = "loop" /\ conn[c] = NoHandler /\ gap.to # -1
      /\ check(h, q) /\ conn' = [conn EXCEPT ![c] = h]
      /\ UNCHANGED <<left, cpc, target, ready, end, inbox, doubtful, faults>>
  BY DEF sendRequest, InLoop
<1>2. end[c] = Len(ImageOf(c)) - 1 /\ end[c] + 1 \in Nat
  BY <1>1, ImageOfIs DEF Inv, RInv, ClientFits
<1>3. /\ gap.from \in Nat /\ gap.to \in Nat /\ gap.from <= gap.to
      /\ gap.to <= end[c] /\ gap.from..gap.to \cap ready[c] = {}
  BY <1>1, <1>2, FirstGapIsFirst DEF Missing
<1>4. /\ wanted[c] \in Images /\ ImageOf(c) = Initial[wanted[c]]
      /\ ImageOf(c) \in Seq(U)
  BY ImageOfIs
<1>. HIDE DEF gap
<1>5. q \in Headers
  BY <1>3, <1>4 DEF Headers
<1>6. IInv'
  BY <1>1, <1>5, CheckStep DEF Inv, RInv, IInv, TypeOK
<1>7. info[wanted[c]] = end[c] /\ end[c] # Unlisted
  BY <1>2, <1>3, <1>4 DEF Inv, RInv, Listing, Unlisted
<1>8. /\ q.name = wanted[c] /\ q.from = gap.from /\ q.to = gap.to
      /\ q.digest = "absent"
  OBVIOUS
<1>. HIDE DEF q
<1>9. Outcomes(q) = {"NOT_SET"}
  <2>1. ~PartsError(q)
    BY <1>3, <1>8 DEF PartsError
  <2>2. ~(q.to > info[q.name]) /\ ~(q.from > info[q.name])
    BY <1>2, <1>3, <1>7, <1>8
  <2>. QED  BY <1>7, <1>8, <2>1, <2>2 DEF Outcomes
<1>10. /\ hpc[h] = "free" /\ hpc' = [hpc EXCEPT ![h] = "reply"]
       /\ hreq' = [hreq EXCEPT ![h] = Checked(q, "NOT_SET")]
       /\ UNCHANGED <<disk, info, rpc, source, rVector, index>>
  BY <1>1, <1>9 DEF check, queueVars, burstVars
<1>11. /\ hpc'[h] = "reply" /\ hreq'[h].name = wanted[c]
       /\ hreq'[h].error = "NOT_SET"
       /\ hreq'[h].from = gap.from /\ hreq'[h].to = gap.to
       /\ \A g \in Handlers \ {h} : hpc'[g] = hpc[g] /\ hreq'[g] = hreq[g]
  <2>1. /\ hreq'[h] = Checked(q, "NOT_SET") /\ hpc'[h] = "reply"
        /\ \A g \in Handlers \ {h} : hpc'[g] = hpc[g] /\ hreq'[g] = hreq[g]
    BY <1>10 DEF Inv, RInv, IInv, TypeOK
  <2>. QED  BY <1>3, <1>8, <2>1 DEF Checked
<1>12. conn'[c] = h /\ Typed(U)'
  BY <1>1, ClientParts DEF Typed
<1>13. ASSUME NEW b \in Clients, b # c PROVE SameFor(b) /\ Apart(b, c)'
  <2>1. conn'[b] = conn[b] /\ conn[b] \in Handlers \cup {NoHandler}
    BY <1>1, <1>13, ClientParts DEF Typed
  <2>2. conn[b] # NoHandler => conn[b] \in Handlers \ {h}
    BY <1>10, <2>1, ClientParts DEF Waits
  <2>3. conn[b] # h
    BY <2>2, RestoreAssumption
  <2>. QED  BY <1>1, <1>11, <1>12, <2>1, <2>2, <2>3 DEF SameFor, Apart
<1>14. ImageOf(c)' = ImageOf(c)
  BY <1>10 DEF ImageOf
<1>15. Waits(c)' /\ Has(c)'
  <2>1. Has(c)'
    BY <1>1, <1>14, ClientParts DEF Has, HasBlock
  <2>2. Waits(c)'
    BY <1>1, <1>3, <1>11, <1>12 DEF Waits
  <2>. QED  BY <2>1, <2>2
<1>16. ClientFits(c)'
  <2>1. \A d \in inbox[c] : Genuine(d)'
    BY <1>10, ClientParts DEF ClientFits, Genuine
  <2>. QED  BY <1>1, <1>14, <2>1, ClientParts DEF ClientFits
<1>17. rpc' = "send" => source' = disk'[Sending']
  BY <1>10 DEF Sending, Inv, RInv
<1>. QED  BY <1>6, <1>10, <1>12, <1>13, <1>15, <1>16, <1>17, ClientMoves

\* a file after a block was written at offset i: as before but for it
IsWrite(new, file, i, data) ==
    /\ new[i + 1] = data
    /\ Len(new) >= Len(file) /\ Len(new) > i
    /\ Len(new) > Len(file) => Len(new) = i + 1
    /\ \A k \in 1..Len(file) : k # i + 1 => new[k] = file[k]

(* What Written does to a file. *)
LEMMA WrittenIs ==
  ASSUME NEW U, NEW file \in Seq(U), NEW i \in Nat, NEW data \in U, Junk \in U
  PROVE  /\ Written(file, i, data) \in Seq(U)
         /\ IsWrite(Written(file, i, data), file, i, data)
<1>. DEFINE new == Written(file, i, data)
<1>. DEFINE n == IF i + 1 > Len(file) THEN i + 1 ELSE Len(file)
            e(k) == IF k = i + 1 THEN data
                    ELSE IF k <= Len(file) THEN file[k] ELSE Junk
<1>1. new = [k \in 1..n |-> e(k)]
  BY DEF Written
<1>2. /\ n \in Nat /\ i + 1 \in 1..n /\ n > i
      /\ Len(file) \in Nat /\ Len(file) <= n
      /\ n > Len(file) => n = i + 1
  OBVIOUS
<1>3. \A k \in 1..n : e(k) \in U
  BY <1>2
<1>4. e(i + 1) = data /\ \A k \in 1..Len(file) : k # i + 1 => e(k) = file[k]
  OBVIOUS
<1>. HIDE DEF n, e, new
<1>5. new \in Seq(U) /\ Len(new) = n
  BY <1>1, <1>2, <1>3
<1>6. \A k \in 1..n : new[k] = e(k)
  BY <1>1
<1>7. IsWrite(new, file, i, data)
  BY <1>2, <1>4, <1>5, <1>6 DEF IsWrite
<1>. QED  BY <1>5, <1>7 DEF new

(* A datagram that is of use is written, as it is or only a part of it: what
   was right in the file stays in it. *)
LEMMA ReceiveKeeps ==
  ASSUME NEW U, FilesOver(U), Inv(U), NEW c \in Clients, NEW d \in inbox[c],
         Useful(c, d), NEW x \in {d.data, Partly(c, d)}
  PROVE  LET file == Written(target[c], d.index, x)
             image == ImageOf(c)
         IN  /\ file \in Seq(U) /\ d.index \in Nat /\ d.index < Len(file)
             /\ d.index < Len(image)
             /\ x = d.data => file[d.index + 1] = image[d.index + 1]
             /\ Len(file) >= Len(target[c])
             /\ Len(file) > Len(target[c]) => Len(file) <= Len(image)
             /\ \A k \in 1..Len(target[c]) :
                   target[c][k] = image[k] => file[k] = image[k]
<1>1. /\ d \in Datagrams(U) /\ Genuine(d) /\ target[c] \in Seq(U)
  BY ClientParts DEF Typed, ClientFits
<1>2. /\ d.index \in Nat /\ d.data \in U /\ Junk \in U
      /\ d.index < Len(ImageOf(c)) /\ d.data = ImageOf(c)[d.index + 1]
  BY <1>1, ImageOfIs DEF Datagrams, Genuine, Useful, ImageOf, FilesOver
<1>3. x \in U
  BY <1>2 DEF Partly
<1>4. ASSUME d.index + 1 \in 1..Len(target[c]),
             target[c][d.index + 1] = ImageOf(c)[d.index + 1]
      PROVE  x = d.data
  BY <1>1, <1>2, <1>4 DEF Partly
<1>. DEFINE file == Written(target[c], d.index, x)
<1>5. file \in Seq(U) /\ IsWrite(file, target[c], d.index, x)
  BY <1>1, <1>2, <1>3, WrittenIs
<1>6. Len(target[c]) \in Nat /\ Len(ImageOf(c)) \in Nat
  BY <1>1, ImageOfIs
<1>. HIDE DEF file
<1>7. \A k \in 1..Len(target[c]) :
         target[c][k] = ImageOf(c)[k] => file[k] = ImageOf(c)[k]
  BY <1>2, <1>4, <1>5 DEF IsWrite
<1>8. /\ d.index < Len(file) /\ Len(file) >= Len(target[c])
      /\ Len(file) > Len(target[c]) => Len(file) <= Len(ImageOf(c))
      /\ x = d.data => file[d.index + 1] = ImageOf(c)[d.index + 1]
  BY <1>2, <1>5, <1>6 DEF IsWrite
<1>. QED  BY <1>2, <1>5, <1>7, <1>8 DEF file

(* What is common to all that a client does with a datagram. *)
LEMMA TakenIs ==
  ASSUME NEW U, Inv(U), NEW c \in Clients, NEW d \in inbox[c],
         InLoop(c), Taken(c, d),
         UNCHANGED <<serverVars, wanted, cpc, conn, end>>
  PROVE  /\ IInv' /\ UNCHANGED <<disk, info, hpc, hreq>>
         /\ rpc' = "send" => source' = disk'[Sending']
         /\ inbox' \in [Clients -> SUBSET Datagrams(U)]
         /\ \A b \in Clients : b # c => inbox'[b] = inbox[b]
         /\ \A e \in inbox'[c] : Genuine(e)'
         /\ ImageOf(c)' = ImageOf(c)
         /\ conn[c] = NoHandler /\ cpc[c] = "loop"
         /\ end[c] = Len(ImageOf(c)) - 1
<1>1. /\ IInv' /\ UNCHANGED <<disk, info, hpc, hreq>>
      /\ rpc' = "send" => source' = disk'[Sending']
  BY ServerStands
<1>2. /\ inbox' \in [Clients -> SUBSET Datagrams(U)]
      /\ inbox'[c] \subseteq inbox[c]
      /\ \A b \in Clients : b # c => inbox'[b] = inbox[b]
  <2>1. inbox \in [Clients -> SUBSET Datagrams(U)]
    BY DEF Inv
  <2>2. inbox' = [inbox EXCEPT ![c] = @ \ {d}] \/ inbox' = inbox
    BY Zenon DEF Taken
  <2>. QED  BY <2>1, <2>2
<1>3. ImageOf(c)' = ImageOf(c)
  BY <1>1 DEF ImageOf
<1>4. \A e \in inbox'[c] : Genuine(e)'
  BY <1>1, <1>2, ClientParts DEF ClientFits, Genuine
<1>5. /\ conn[c] = NoHandler /\ cpc[c] = "loop"
      /\ end[c] = Len(ImageOf(c)) - 1
  BY ClientParts DEF InLoop, ClientFits
<1>. QED  BY <1>1, <1>2, <1>3, <1>4, <1>5

(* A useful datagram is written, or a part of it, and its block is marked; it
   is in doubt if only a part was written. *)
LEMMA WriteStep ==
  ASSUME NEW U, FilesOver(U), Inv(U), NEW c \in Clients, NEW d \in inbox[c],
         InLoop(c), Taken(c, d), Useful(c, d),
         UNCHANGED <<serverVars, wanted, cpc, conn, end>>,
         faults' \in 0..MaxFaults,
         NEW x \in {d.data, Partly(c, d)}, NEW D \in SUBSET {d.index},
         x = d.data \/ d.index \in D,
         target' = [target EXCEPT ![c] = Written(target[c], d.index, x)],
         ready' = [ready EXCEPT ![c] = ready[c] \cup {d.index}],
         doubtful' = [doubtful EXCEPT ![c] = doubtful[c] \cup D]
  PROVE  Inv(U)'
<1>. DEFINE file == Written(target[c], d.index, x)
<1>1. /\ IInv' /\ UNCHANGED <<disk, info, hpc, hreq>>
      /\ rpc' = "send" => source' = disk'[Sending']
      /\ inbox' \in [Clients -> SUBSET Datagrams(U)]
      /\ \A b \in Clients : b # c => inbox'[b] = inbox[b]
      /\ \A e \in inbox'[c] : Genuine(e)'
      /\ ImageOf(c)' = ImageOf(c)
      /\ conn[c] = NoHandler /\ cpc[c] = "loop"
      /\ end[c] = Len(ImageOf(c)) - 1
  BY TakenIs
<1>2. /\ file \in Seq(U) /\ d.index \in Nat /\ d.index < Len(file)
      /\ d.index < Len(ImageOf(c))
      /\ x = d.data => file[d.index + 1] = ImageOf(c)[d.index + 1]
      /\ Len(file) >= Len(target[c])
      /\ Len(file) > Len(target[c]) => Len(file) <= Len(ImageOf(c))
      /\ \A k \in 1..Len(target[c]) :
            target[c][k] = ImageOf(c)[k] => file[k] = ImageOf(c)[k]
  BY ReceiveKeeps
<1>. HIDE DEF file
<1>3. target' = [target EXCEPT ![c] = file]
  BY DEF file
<1>4. /\ target'[c] = file /\ ready'[c] = ready[c] \cup {d.index}
      /\ doubtful'[c] = doubtful[c] \cup D /\ Typed(U)'
  BY <1>1, <1>2, <1>3, ClientParts DEF Typed
<1>5. ASSUME NEW b \in Clients, b # c PROVE SameFor(b) /\ Apart(b, c)'
  BY <1>1, <1>3, <1>5, ClientParts DEF SameFor, Apart, Typed
<1>6. Waits(c)'
  BY <1>1 DEF Waits
<1>7. Has(c)'
  <2>1. /\ target[c] \in Seq(U) /\ ready[c] \subseteq Nat /\ Has(c)
        /\ Len(ImageOf(c)) \in Nat
    BY ClientParts, ImageOfIs DEF Typed
  <2>2. ready[c] \cup {d.index} \subseteq 0..end[c]
    BY <1>1, <1>2, <2>1 DEF Has
  <2>3. ASSUME NEW i \in ready[c] \ doubtful[c]
        PROVE  i < Len(file) /\ file[i + 1] = ImageOf(c)[i + 1]
    <3>1. /\ i \in Nat /\ i < Len(target[c])
          /\ target[c][i + 1] = ImageOf(c)[i + 1]
      BY <2>1 DEF Has, HasBlock
    <3>2. i + 1 \in 1..Len(target[c])
      BY <2>1, <3>1
    <3>. QED  BY <1>2, <2>1, <3>1, <3>2
  <2>4. ASSUME NEW i \in ready'[c] \ doubtful'[c]
        PROVE  i < Len(file) /\ file[i + 1] = ImageOf(c)[i + 1]
    <3>1. i \in ready[c] \ doubtful[c] \/ (i = d.index /\ i \notin D)
      BY <1>4, <2>4
    <3>. QED  BY <1>2, <2>3, <3>1
  <2>. QED  BY <1>1, <1>4, <2>2, <2>4 DEF Has, HasBlock
<1>8. ClientFits(c)'
  <2>1. Len(file) \div M <= Len(ImageOf(c)) \div M
    <3>1. /\ Len(target[c]) \div M <= Len(ImageOf(c)) \div M
          /\ target[c] \in Seq(U) /\ ImageOf(c) \in Seq(U)
      BY ClientParts, ImageOfIs DEF ClientFits, Typed
    <3>2. CASE Len(file) = Len(target[c])
      BY <3>1, <3>2
    <3>3. CASE Len(file) # Len(target[c])
      <4>1. Len(file) <= Len(ImageOf(c))
        BY <1>2, <3>1, <3>3
      <4>. QED  BY <1>2, <3>1, <4>1, SmallerQuotient
    <3>. QED  BY <3>2, <3>3
  <2>. QED  BY <1>1, <1>4, <2>1 DEF ClientFits
<1>. QED  BY <1>1, <1>4, <1>5, <1>6, <1>7, <1>8, ClientMoves

(* A datagram that is of no use is taken off the socket, nothing else. *)
LEMMA UselessStep ==
  ASSUME NEW U, Inv(U), UNCHANGED wanted,
         NEW c \in Clients, NEW d \in inbox[c], Receive(c, d), ~Useful(c, d)
  PROVE  Inv(U)'
<1>1. /\ InLoop(c) /\ Taken(c, d) /\ UNCHANGED <<target, ready, doubtful>>
      /\ UNCHANGED <<serverVars, cpc, conn, end, faults>>
  BY DEF Receive
<1>2. /\ IInv' /\ UNCHANGED <<disk, info, hpc, hreq>>
      /\ rpc' = "send" => source' = disk'[Sending']
      /\ inbox' \in [Clients -> SUBSET Datagrams(U)]
      /\ \A b \in Clients : b # c => inbox'[b] = inbox[b]
      /\ \A e \in inbox'[c] : Genuine(e)'
      /\ ImageOf(c)' = ImageOf(c)
      /\ conn[c] = NoHandler /\ cpc[c] = "loop"
      /\ end[c] = Len(ImageOf(c)) - 1
  BY <1>1, TakenIs
<1>3. Typed(U)'
  BY <1>1, <1>2, ClientParts DEF Typed
<1>4. ASSUME NEW b \in Clients, b # c PROVE SameFor(b) /\ Apart(b, c)'
  BY <1>1, <1>2, <1>4 DEF SameFor, Apart
<1>5. Waits(c)' /\ Has(c)'
  BY <1>1, <1>2, ClientParts DEF Waits, Has, HasBlock
<1>6. ClientFits(c)'
  BY <1>1, <1>2, ClientParts DEF ClientFits
<1>. QED  BY <1>2, <1>3, <1>4, <1>5, <1>6, ClientMoves

(* A datagram is received, and its write may end too early. *)
LEMMA ReceiveStep ==
  ASSUME NEW U, FilesOver(U), Inv(U), UNCHANGED wanted,
         NEW c \in Clients, NEW d \in inbox[c],
         Receive(c, d) \/ WriteShort(c, d)
  PROVE  Inv(U)'
<1>1. CASE Receive(c, d) /\ ~Useful(c, d)
  BY <1>1, UselessStep
<1>2. CASE Receive(c, d) /\ Useful(c, d)
  <2>1. /\ InLoop(c) /\ Taken(c, d)
        /\ UNCHANGED <<serverVars, cpc, conn, end, faults, doubtful>>
        /\ target' = [target EXCEPT ![c] =
                          Written(target[c], d.index, d.data)]
        /\ ready' = [ready EXCEPT ![c] = ready[c] \cup {d.index}]
    BY <1>2 DEF Receive
  <2>2. doubtful' = [doubtful EXCEPT ![c] = doubtful[c] \cup {}]
    BY <2>1, ClientParts DEF Typed
  <2>3. faults' \in 0..MaxFaults
    BY <2>1, ClientParts DEF Typed
  <2>4. d.data \in {d.data, Partly(c, d)} /\ {} \in SUBSET {d.index}
    OBVIOUS
  <2>. QED  BY <1>2, <2>1, <2>2, <2>3, <2>4, WriteStep
<1>3. CASE WriteShort(c, d)
  <2>1. /\ InLoop(c) /\ Taken(c, d) /\ Useful(c, d)
        /\ UNCHANGED <<serverVars, cpc, conn, end>>
        /\ target' = [target EXCEPT ![c] =
                          Written(target[c], d.index, Partly(c, d))]
        /\ ready' = [ready EXCEPT ![c] = ready[c] \cup {d.index}]
        /\ doubtful' = [doubtful EXCEPT ![c] = doubtful[c] \cup {d.index}]
    BY <1>3 DEF WriteShort
  <2>2. faults' \in 0..MaxFaults
    BY <1>3, ClientParts, RestoreAssumption DEF WriteShort, Typed
  <2>. QED  BY <2>1, <2>2, WriteStep
<1>. QED  BY <1>1, <1>2, <1>3
-----------------------------------------------------------------------------
RVars == <<allVars, wanted>>

(* Every step keeps the invariant. *)
LEMMA NextInv ==
  ASSUME NEW U, FilesOver(U), PartialImages, Inv(U),
         [RNext /\ wanted' = wanted]_RVars
  PROVE  Inv(U)'
<1>1. CASE UNCHANGED RVars
  <2>1. UNCHANGED <<serverVars, clientVars, faults, wanted>>
    BY <1>1 DEF RVars, allVars
  <2>2. /\ IInv' /\ UNCHANGED <<disk, info, hpc, hreq>>
        /\ rpc' = "send" => source' = disk'[Sending']
    BY <2>1, ServerStands
  <2>3. faults' \in 0..MaxFaults
        /\ conn' \in [Clients -> Handlers \cup {NoHandler}]
        /\ inbox' \in [Clients -> SUBSET Datagrams(U)]
        /\ \A c \in Clients : \A d \in inbox'[c] : Genuine(d)
    BY <2>1, ClientParts DEF clientVars, Typed, ClientFits
  <2>. QED  BY <2>1, <2>2, <2>3, ServerMoves DEF clientVars
<1>2. ASSUME NEW c \in Clients, wanted' = wanted,
             \/ Start(c) \/ Finish(c) \/ Ask(c) \/ CrashClient(c)
             \/ \E d \in inbox[c] : Receive(c, d) \/ WriteShort(c, d)
      PROVE  Inv(U)'
  BY <1>2, StartStep, FinishStep, AskStep, CrashClientStep, ReceiveStep
     DEF Ask
<1>3. ASSUME NEW h \in Handlers, wanted' = wanted,
             Answer(h) \/ Disconnect(h) \/ Queueing(h)
      PROVE  Inv(U)'
  BY <1>3, AnswerStep, QueueingStep
<1>4. ASSUME wanted' = wanted, Restoring \/ Reload PROVE Inv(U)'
  <2>1. CASE \E n \in Images, i \in BlockNumbers, R \in SUBSET Clients :
                Broadcast(n, i, R)
    BY <1>4, <2>1, BroadcastStep
  <2>2. CASE /\ UNCHANGED <<clientVars, faults>>
             /\ \/ Lock \/ Drain \/ Drained \/ Clear
                \/ NothingKnown \/ Pick \/ SendStops \/ parseConfig
    BY <1>4, <2>2, RestoringStep
  <2>. QED  BY <1>4, <2>1, <2>2 DEF Restoring, Reload
<1>5. CASE wanted' = wanted /\ CrashServer
  BY <1>5, CrashServerStep
<1>. QED  BY <1>1, <1>2, <1>3, <1>4, <1>5 DEF RNext

(* Server, network and clients agree in every reachable state. *)
THEOREM RestoreInvariant ==
  ASSUME NEW U, FilesOver(U), PartialImages, TargetsFit
  PROVE  RSpec => []Inv(U)
<1>1. RInit => Inv(U)
  BY InitInv
<1>2. Inv(U) /\ [RNext /\ wanted' = wanted]_RVars => Inv(U)'
  BY NextInv
<1>. QED  BY <1>1, <1>2, PTL DEF RSpec, RVars

(* So the files and the list are what they were, and each client agrees with
   them: the part of the invariant that names no set of contents. *)
THEOREM WholeInvariant ==
  ASSUME NEW U, FilesOver(U), PartialImages, TargetsFit
  PROVE  RSpec => []RInv
<1>1. Inv(U) => RInv
  BY DEF Inv
<1>. QED  BY <1>1, RestoreInvariant, PTL

(* A client waits only for a request thread that has an answer for it and for
   nobody else. *)
THEOREM ClientsWaitRightly ==
  ASSUME NEW U, FilesOver(U), PartialImages, TargetsFit
  PROVE  RSpec => []RTypeOK
<1>1. Inv(U) => RTypeOK
  BY DEF Inv, RInv
<1>. QED  BY <1>1, RestoreInvariant, PTL

(* What is marked as ready is in the client's file, whatever was lost, late,
   doubled or sent for others, and whoever crashed; but for the blocks whose
   write ended too early and those that were marked without a sum. *)
THEOREM MarkedIsWritten ==
  ASSUME NEW U, FilesOver(U), PartialImages, TargetsFit
  PROVE  RSpec => []ReadyIsWritten
<1>1. Inv(U) => ReadyIsWritten
  BY DEF Inv, RInv
<1>. QED  BY <1>1, RestoreInvariant, PTL

(* A client that reports READY has each block of the image, but for these. *)
THEOREM ReadyHasImage ==
  ASSUME NEW U, FilesOver(U), PartialImages, TargetsFit
  PROVE  RSpec => []DoneHasImage
<1>1. ASSUME Inv(U) PROVE DoneHasImage
  <2>. SUFFICES ASSUME NEW c \in Clients, cpc[c] = "done",
                       NEW i \in 0..(Len(ImageOf(c)) - 1)
                PROVE  i \in doubtful[c] \/ HasBlock(c, i)
    BY DEF DoneHasImage
  <2>1. i \in ready[c]
    BY <1>1, ClientParts DEF ClientFits
  <2>. QED  BY <1>1, <2>1, ClientParts DEF Has
<1>. QED  BY <1>1, RestoreInvariant, PTL

(* The server accepts whatever a client asks for, and no client asks for what
   it has. *)
THEOREM AskedIsAccepted ==
  ASSUME NEW U, FilesOver(U), PartialImages, TargetsFit
  PROVE  RSpec => []NothingRefused
<1>1. Inv(U) => NothingRefused
  BY DEF Inv, RInv
<1>. QED  BY <1>1, RestoreInvariant, PTL

(* The server's own promises hold with clients and crashes, too. *)
THEOREM ServerKeepsPromises ==
  ASSUME NEW U, FilesOver(U), PartialImages, TargetsFit
  PROVE  RSpec => [](NoLostRequest /\ BurstRequested)
<1>1. Inv(U) => NoLostRequest /\ BurstRequested
  BY DEF Inv, RInv, IInv
<1>. QED  BY <1>1, RestoreInvariant, PTL

(* No step undoes what is right in a client's file while the client runs. *)
LEMMA StepImproves ==
  ASSUME NEW U, FilesOver(U), Inv(U), [RNext /\ wanted' = wanted]_RVars,
         NEW c \in Clients, NEW i \in 0..(Len(ImageOf(c)) - 1),
         cpc[c] = "loop", i < Len(target[c]),
         target[c][i + 1] = ImageOf(c)[i + 1]
  PROVE  target'[c][i + 1] = target[c][i + 1]
<1>1. CASE target'[c] = target[c]
  BY <1>1
<1>2. ASSUME NEW d \in inbox[c], Useful(c, d),
             Receive(c, d) \/ WriteShort(c, d)
      PROVE  target'[c][i + 1] = target[c][i + 1]
  <2>1. PICK x \in {d.data, Partly(c, d)} :
           target' = [target EXCEPT ![c] = Written(target[c], d.index, x)]
    BY <1>2 DEF Receive, WriteShort
  <2>. DEFINE file == Written(target[c], d.index, x)
  <2>2. target' = [target EXCEPT ![c] = file]
    BY <2>1
  <2>3. \A k \in 1..Len(target[c]) :
           target[c][k] = ImageOf(c)[k] => file[k] = ImageOf(c)[k]
    BY <1>2, ReceiveKeeps
  <2>. HIDE DEF file
  <2>4. target'[c] = file /\ target[c] \in Seq(U)
    BY <2>2, ClientParts DEF Typed
  <2>5. i + 1 \in 1..Len(target[c])
    BY <2>4
  <2>. QED  BY <2>3, <2>4, <2>5
<1>3. ASSUME NEW b \in Clients,
             \/ Start(b) \/ Finish(b) \/ Ask(b) \/ CrashClient(b)
             \/ \E d \in inbox[b] : Receive(b, d) \/ WriteShort(b, d)
      PROVE  \/ target'[c] = target[c]
             \/ \E d \in inbox[c] : /\ Useful(c, d)
                                    /\ Receive(c, d) \/ WriteShort(c, d)
  <2>1. \A x : b # c => [target EXCEPT ![b] = x][c] = target[c]
    BY ClientParts DEF Typed
  <2>2. CASE Start(b)
    <3>1. b # c
      BY <2>2 DEF Start
    <3>. QED  BY <2>1, <2>2, <3>1 DEF Start
  <2>3. CASE Finish(b) \/ Ask(b) \/ CrashClient(b)
    BY <2>3 DEF Finish, Ask, sendRequest, CrashClient
  <2>4. CASE \E d \in inbox[b] : Receive(b, d) \/ WriteShort(b, d)
    BY <2>1, <2>4 DEF Receive, WriteShort
  <2>. QED  BY <1>3, <2>2, <2>3, <2>4
<1>4. CASE UNCHANGED RVars
  BY <1>1, <1>4 DEF RVars, allVars, clientVars
<1>5. CASE \E h \in Handlers : Answer(h) \/ Disconnect(h) \/ Queueing(h)
  BY <1>1, <1>5 DEF Answer, Disconnect, Queueing, clientVars
<1>6. CASE Restoring \/ Reload \/ CrashServer
  BY <1>1, <1>6 DEF Restoring, Broadcast, Reload, CrashServer, clientVars
<1>. QED  BY <1>1, <1>2, <1>3, <1>4, <1>5, <1>6 DEF RNext

(* So no datagram, stale or meant for others, harms a file. *)
THEOREM FilesOnlyImprove ==
  ASSUME NEW U, FilesOver(U), PartialImages, TargetsFit
  PROVE  RSpec => OnlyImproves
<1>. DEFINE Improves == \A c \in Clients : \A i \in 0..(Len(ImageOf(c)) - 1) :
               /\ cpc[c] = "loop" /\ i < Len(target[c])
               /\ target[c][i + 1] = ImageOf(c)[i + 1]
               => target'[c][i + 1] = target[c][i + 1]
<1>1. Inv(U) /\ [RNext /\ wanted' = wanted]_RVars => [Improves]_allVars
  BY StepImproves
<1>. QED  BY <1>1, RestoreInvariant, PTL DEF RSpec, RVars, OnlyImproves
=============================================================================
