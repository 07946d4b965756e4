------------------------------ MODULE ImageCache ------------------------------
(***************************************************************************)
(* The list of images (server/config.cpp): at the start and every half an  *)
(* hour parseConfig reads the configuration file and the cache file,       *)
(* measures every image, computes the checksums of those that changed, and *)
(* writes the cache file again, all under the lock of the configuration.   *)
(* Files are changed and the server is killed at any time.                 *)
(***************************************************************************)
EXTENDS Integers, Sequences

Conf == INSTANCE ConfigFile

CONSTANTS Names,
          Edits,      \* <<image, file>>: what is done to the image files; a
                      \* file is a sequence of parts, the last one short
          NoFile,
          Disk,       \* image -> the file it is in at first
          Configs,    \* configuration files; one that cannot be read is like
          Text,       \* one that is invalid; file -> its lines
          Config,     \* the one at first
          Zeros,      \* the digest of 16 zeros
          MaxStray,  \* bound of the numbers that are read from nowhere
          MaxFaults, \* bound of the crashes and the writes that fail half-way
          MaxOutside \* bound of the changes to the files and configuration

ASSUME CacheAssumption ==
    /\ Config \in Configs
    /\ MaxStray \in Nat /\ MaxFaults \in Nat /\ MaxOutside \in Nat

VARIABLES disk,      \* image -> its file
          config,    \* the configuration file
          cache,     \* the file imageinfo, see Written
          parser,    \* the one whose options are used
          infoList,
          lpc,       \* off, idle, measure, checksum, publish or write
          lst, list, \* as in loadConfig
          pos,       \* i in loadConfig
          edited,    \* history: a file was changed since the load began
          raced,     \* history: images changed between size and checksums
          torn,      \* history: images at whose number of checksums a cache
                     \* file ended
          lacked,    \* history: images that were not available at some time
          faults, outside

locals == <<lst, list, pos>>
past == <<raced, torn, lacked, faults, outside>>
cacheVars == <<disk, config, cache, parser, infoList, lpc, locals, edited,
               past>>

data(c) == Conf!parse(Text[c]).data
images(c) == Conf!distinctWords(Conf!getValue(data(c), <<"names">>))

Usable == {c \in Configs : /\ Conf!parse(Text[c]).valid
                          /\ Conf!validateConfig(data(c))}
Listed == UNION {{<<c, images(c)[k]>> : k \in DOMAIN images(c)} : c \in Usable}
WithPath ==
    UNION {{<<c, n>> : n \in {m \in DOMAIN data(c) :
              Conf!getValueDefault(data(c), m, <<"none">>) # <<"none">>}}
             : c \in Usable}

\* a configuration file that is invalid changes nothing
Available(n) == /\ disk[n] # NoFile
                /\ config \in Usable => <<config, n>> \in Listed \cap WithPath
Lacking == {n \in Names : ~ Available(n)}

\* lastModified is left out: copies of an ImageInfo do not have it, so what
\* is compared with the file's time is not defined
Entry(n, size, sums) == [name |-> n, size |-> size, sums |-> sums]

\* list, of which the first `whole' entries and `sums' checksums of the next
\* one are in the file; -1: not their number, -2: nor its size, -3: nor the
\* whole name, -4: nothing, not even the number of entries
Written(l, whole, sums) == [list |-> l, whole |-> whole, sums |-> sums]
Complete(l) == Written(l, Len(l), 0)
Emptied == Written(<<>>, 0, -4)
NoCache == Written(<<>>, -1, 0)

\* the image whose checksums cannot be counted when the file is read
Torn(c) == IF c.sums = -1 /\ c.whole < Len(c.list)
           THEN {c.list[c.whole + 1].name} ELSE {}

CInit == /\ disk = Disk /\ config = Config
         /\ cache = NoCache /\ parser = config /\ infoList = <<>>
         /\ lpc = "off" /\ lst = <<>> /\ list = <<>> /\ pos = 1
         /\ edited = FALSE /\ raced = {} /\ torn = {}
         /\ lacked = Lacking /\ faults = 0 /\ outside = 0

-----------------------------------------------------------------------------
BadFilled(e, n) == [e EXCEPT !.sums = SubSeq(@, 1, n)]   \* reading stops

\* reading goes on after the end of the file: the last digest that was read is
\* taken for the checksums that are missing
Filled(e, n) == [e EXCEPT !.sums = [k \in DOMAIN @ |->
                    IF k <= n THEN @[k] ELSE IF n = 0 THEN Zeros ELSE @[n]]]

\* and the numbers that are missing are arbitrary: so many digests of zeros, a
\* size that no file has (one that is right is like -1).  Of a name that is cut
\* off the beginning is read.
Cut(e, n) ==
    CASE n >= 0  -> {Filled(e, n)}
      [] n = -1  -> {[e EXCEPT !.sums = [j \in 1..m |-> Zeros]]
                       : m \in 0..MaxStray}
      [] n = -2  -> {Entry(e.name, -1, <<>>)}
      [] OTHER   -> {Entry(SubSeq(e.name, 1, j), -1, <<>>) : j \in 0..Len(e.name)}

\* n more entries, when nothing can be read any more: the name stays
Stray(name, n) == [k \in 1..n |-> Entry(name, -1, <<>>)]

\* what may be read of a file
ReadBack(c) ==
    IF c.sums = -4 THEN {Stray(<<>>, n) : n \in 0..MaxStray}
    ELSE IF c.whole = Len(c.list) THEN {c.list}
    ELSE {SubSeq(c.list, 1, c.whole) \o <<e>>
            \o Stray(e.name, Len(c.list) - c.whole - 1)
            : e \in Cut(c.list[c.whole + 1], c.sums)}

NamesOf(l) == {l[k].name : k \in DOMAIN l}

BadWithNames(l) == l                                   \* only cached names

\* the loop that adds the names that l does not have
WithNames(l) ==
    LET names == images(config)
        added[i \in 0..Len(names)] ==
           IF i = 0 THEN l
           ELSE IF names[i] \in NamesOf(added[i - 1]) THEN added[i - 1]
           ELSE Append(added[i - 1], Entry(names[i], 0, <<>>))
    IN  added[Len(names)]

\* The configuration file is valid (if it is not, nothing changes: the server
\* does not start, or goes on with what it has), and the cache file is read.
parseConfig == /\ lpc \in {"off", "idle"} /\ config \in Usable
               /\ lpc' = "measure"
               /\ \E l \in IF cache = NoCache THEN {infoList}
                         ELSE ReadBack(cache) : lst' = WithNames(l)
               /\ parser' = config /\ list' = <<>> /\ pos' = 1
               /\ edited' = FALSE
               /\ UNCHANGED <<disk, config, cache, infoList, past>>

BadSame(e, f) == e.size # 0                            \* cached: not changed
Same(e, f) == e.size = Len(f)

\* open, lseek, fstat; the checksums may be computed even if the size is the
\* same, as the times that are compared may have any value
measure ==
    /\ lpc = "measure" /\ pos <= Len(lst)
    /\ LET e == lst[pos] IN
       IF <<parser, e.name>> \notin WithPath \/ disk[e.name] = NoFile
       THEN pos' = pos + 1 /\ UNCHANGED <<list, lpc>>
       ELSE /\ list' = Append(list, [e EXCEPT !.size = Len(disk[e.name])])
            /\ \/ Same(e, disk[e.name]) /\ pos' = pos + 1 /\ lpc' = lpc
               \/ pos' = pos /\ lpc' = "checksum"
    /\ UNCHANGED <<disk, config, cache, parser, infoList, lst, edited, past>>

calculateChecksum ==
    /\ lpc = "checksum" /\ lpc' = "measure" /\ pos' = pos + 1
    /\ list' = [list EXCEPT ![Len(list)].sums = disk[lst[pos].name]]
    /\ UNCHANGED <<disk, config, cache, parser, infoList, lst, edited, past>>

\* infoList = list: ImageInfoList's operator= clears and copies one by one
publish == /\ lpc = "measure" /\ pos > Len(lst) /\ lpc' = "publish"
           /\ infoList' = <<>>
           /\ UNCHANGED <<disk, config, cache, parser, locals, edited, past>>

copy == /\ lpc = "publish"
        /\ IF infoList = list THEN lpc' = "write" /\ infoList' = infoList
           ELSE /\ lpc' = lpc
                /\ infoList' = Append(infoList, list[Len(infoList) + 1])
        /\ UNCHANGED <<disk, config, cache, parser, locals, edited, past>>

Forget == lst' = <<>> /\ list' = <<>> /\ pos' = 1

\* what a write that fails, or a crash, may leave: the file is cut to nothing
\* when it is opened, and written in place, a buffer at a time
Cuts(l) == {Emptied} \cup UNION {{Written(l, w, k) : k \in -3..(Len(l[w + 1].sums) - 1)}
                                : w \in 0..(Len(l) - 1)}

LeavesPart == /\ faults < MaxFaults /\ faults' = faults + 1
              /\ cache' \in Cuts(infoList) /\ torn' = torn \cup Torn(cache')

\* the cache file cannot be opened, or it is written: all of it, or, as nobody
\* looks whether the writes succeed, what the disk has room for
save == /\ lpc = "write" /\ lpc' = "idle" /\ Forget
        /\ \/ cache' \in {Complete(infoList), cache} /\ UNCHANGED <<torn, faults>>
           \/ LeavesPart
        /\ UNCHANGED <<disk, config, parser, infoList, edited, raced, lacked,
                       outside>>

-----------------------------------------------------------------------------
\* An image is written over, created or removed.  A file that is removed while
\* it is open stays readable, which is the same as removing it later.
Edit(n, f) ==
    LET open == lpc = "checksum" /\ lst[pos].name = n
    IN  /\ outside < MaxOutside /\ outside' = outside + 1
        /\ <<n, f>> \in Edits /\ disk[n] # f /\ (open => f # NoFile)
        /\ disk' = [disk EXCEPT ![n] = f] /\ edited' = TRUE
        /\ raced' = IF open THEN raced \cup {n} ELSE raced
        /\ UNCHANGED <<config, cache, parser, infoList, lpc, locals, torn,
                       faults>>
        /\ lacked' = lacked \cup Lacking'

Reconfigure == /\ outside < MaxOutside /\ outside' = outside + 1
               /\ config' \in Configs \ {config}
               /\ UNCHANGED <<disk, cache, parser, infoList, lpc, locals,
                              edited, raced, torn, faults>>
               /\ lacked' = lacked \cup Lacking'

\* The server is killed; also by the numbers that it reads after the end of a
\* cache file, for which there is not enough memory.
Crash == /\ lpc # "off" /\ lpc' = "off" /\ infoList' = <<>> /\ Forget
         /\ \/ /\ faults < MaxFaults /\ faults' = faults + 1
               /\ UNCHANGED <<cache, torn>>
            \/ lpc = "write" /\ LeavesPart
         /\ UNCHANGED <<disk, config, parser, edited, raced, lacked, outside>>

LoadStep == measure \/ calculateChecksum \/ publish \/ copy \/ save

Outside == Reconfigure \/ \E e \in Edits : Edit(e[1], e[2])

-----------------------------------------------------------------------------
First(n) == CHOOSE k \in DOMAIN infoList :
               /\ infoList[k].name = n
               /\ \A j \in 1..(k - 1) : infoList[j].name # n

\* an image whose checksums may not be those of its size
Damaged == raced \cup torn

(* An image has as many checksums as its size says, whatever was read from a
   cache file that is older, or of which a crash or a full disk left a part:
   the only image that may lack some is the one at whose number of checksums
   the file ended.  (The client relies on the number: it compares one by one.)
   Images that were written over while they were measured are excepted. *)
SumsFit == \A l \in {infoList, cache.list} : \A k \in DOMAIN l :
              l[k].name \notin Damaged => Len(l[k].sums) = l[k].size

(* After a load during which no file was changed every image that is named,
   has a path and can be opened is listed, what requests find first has the
   size of the file, and nothing is listed that has no file. *)
ListIsCurrent ==
    lpc = "idle" /\ ~ edited =>
       /\ \A n \in Names :
             <<parser, n>> \in Listed \cap WithPath /\ disk[n] # NoFile
             => /\ n \in NamesOf(infoList)
                /\ infoList[First(n)].size = Len(disk[n])
       /\ \A n \in NamesOf(infoList) : disk[n] # NoFile

-----------------------------------------------------------------------------
\* What a load keeps, between its steps too.

\* an image that the load that is done or going on has to list: its file was
\* there all the time
Wanted(n) == /\ <<parser, n>> \in Listed \cap WithPath /\ disk[n] # NoFile
             /\ n \notin lacked \/ ~ edited

Fit(e) == e.name \in Damaged \/ Len(e.sums) = e.size

AllFit(l) == \A k \in DOMAIN l : Fit(l[k])

\* so it is if the file did not change since it was measured
Measured(e) == disk[e.name] # NoFile /\ e.size = Len(disk[e.name])

\* what is lacking was noted, and the configuration that is used was read when
\* nothing else lacked
Noted == /\ Lacking \subseteq lacked
         /\ lpc # "off" =>
               \A n \in Names \ lacked : <<parser, n>> \in Listed \cap WithPath

\* what is wanted is in the new list, or still to be looked at
Found(n) ==
    CASE lpc = "off" -> TRUE
      [] lpc \in {"measure", "checksum"} ->
            n \in NamesOf(list) \cup {lst[k].name : k \in pos..Len(lst)}
      [] lpc = "publish" -> n \in NamesOf(list)
      [] OTHER -> n \in NamesOf(infoList)

\* in "checksum" the last entry is the image that is open
Checking == list # <<>> /\ pos <= Len(lst)
            /\ LET n == lst[pos].name IN
               /\ list[Len(list)].name = n /\ n \in Names
               /\ disk[n] # NoFile
               /\ n \in raced \/ list[Len(list)].size = Len(disk[n])

Loading ==
    /\ \A n \in Names : Wanted(n) => Found(n)
    /\ lpc = "checksum" => Checking
    /\ lpc = "publish" => /\ Len(infoList) <= Len(list)
                          /\ infoList = SubSeq(list, 1, Len(infoList))
    /\ lpc = "write" => infoList = list
    /\ ~ edited => \A l \in {list} \cup (IF lpc = "idle" THEN {infoList} ELSE {}) :
                     \A k \in DOMAIN l : Measured(l[k])

\* checksums, with what is read from a cache file that was cut off
Summed ==
    /\ AllFit(infoList) /\ AllFit(cache.list) /\ Torn(cache) \subseteq torn
    /\ \A k \in DOMAIN lst : lst[k].size = -1 \/ Fit(lst[k])
    /\ \A k \in DOMAIN list : Fit(list[k])
                             \/ (lpc = "checksum" /\ k = Len(list))

(* A load never loses an image that is there: it is in the new list or still to
   be looked at, the list that is copied is a beginning of it, and each entry
   that is taken over or measured has the checksums for its size. *)
CInv == Noted /\ Loading /\ Summed
=============================================================================
