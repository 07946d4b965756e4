# A TLA+ model of yars

yars restores disk images over a network: a server broadcasts blocks of its
images as UDP datagrams, and clients write the blocks they miss to a device or
a file. A client asks over TCP for the first run of blocks it lacks; whatever
one client asks for, all clients of the same image receive.

This directory holds TLA+ modules of the server, the client and the pieces
they are built from, TLC configurations that check them on small instances,
and proofs that TLAPS checks. `PROJECT.json` lists the components, the runs,
one mutant per checked property (a plausible bug that breaks it), the source
lines behind each definition, the hazards of the code, the findings, and the
theorems. Paths below are relative to `src/src/` of the repository; `tex` is
`src/doc/fejlesztoi/fejlesztoi.tex`, the developer's manual.

Run a model with `tlc -workers 2 -config <run>.cfg <module>`, check a proof
with `tlapm <module>`.

## 1. Inventory

### The processes

**Server.** `server/main.cpp` loads the configuration and starts four threads.

| part | code | state | operations |
| --- | --- | --- | --- |
| configuration thread | `server/config.cpp`, `config_thread.cpp` | `configuration.data`: the parsed file and `infoList`; the file `imageinfo` | every 1800 s: parse, read the cache file, measure and sum the images, publish the list, write the cache file |
| info thread | `server/info_thread.cpp` | one connection | accept, read a header, look an image up, answer 200 and the list entry, or 400 |
| server thread, request threads | `server/server_thread.cpp`, `requestthread.cpp` | one `RequestInfo` each | accept; check the request, answer, append it to the shared queue |
| restore thread | `server/restorethread.cpp` | a bit vector per image, whose turn it is | drain the queue into the vectors; for the next image broadcast the start of the first requested run |

They share `configuration` and `requests`, each with an `RWLock::Lock`.

**Client** (`client/main.cpp`). It gets the list entry of its image from the
info thread, compares the target with the image's checksums, then alternates
between receiving datagrams and, when none comes, asking for the first run of
missing blocks. It ends when no block is missing.

**Pieces in common.** The readers-writers lock (`common/rwlock.cpp`, five
semaphores and two counters), the semaphore (`common/types/semaphore.cpp`, a
mutex, a condition variable and two numbers), bit vectors
(`common/types/bitvect.cpp`, `bitvectex.cpp`), checksums of the 1 MiB parts of
a file (`common/checksums.cpp`), the header parser (`common/rs/rsparser.cpp`),
requests and responses (`common/rs/`), the configuration file parser
(`common/confparser.cpp`), and MD5 (from coreutils).

### How they interact

```
 client --TCP, image--------> info thread --Reader--> configuration <--Writer-- config thread
 client --TCP, from/to------> request thread --Reader--> configuration
                              request thread --Writer--> requests <--Writer-- restore thread
 restore thread --UDP broadcast--> every client
```

### What is hard, and what makes each part correct

* *Lock and semaphores.* A thread takes up to four of five semaphores, and
  counters decide who closes and opens the gates. Correct: a Writer is alone,
  no unit is lost, nobody is stuck. The semaphore itself signals before it
  adds the unit: no wakeup may be lost.
* *Queue and restore thread.* A 200 is a promise made before the request is
  queued; sends fail halfway, files vanish. Correct: what was promised stays
  known until it is sent and is sent in the end; nothing else is sent.
* *Client and datagrams.* Datagrams get lost, arrive late, twice, in another
  order, are of other images or were asked for by others; writes fail or take a
  part only; either side is killed and started again. Correct: a block that is marked is in the file, a
  client that says READY has the image, right blocks are never undone, and the
  client gets there.
* *Comparison.* The target grows before it is compared, or cannot; parts that
  are not whole. Correct: what is marked as present is present.
* *List of images.* Reloads, files that change meanwhile, a cache file of
  which a crash or a full disk has left a part. Correct: entries fit the files and available images are found.
* *Info thread.* One connection at a time. Correct: everyone is answered.
* *Parser and messages.* Headers come in parts, and what one side writes the
  other takes apart with other functions. Correct: lines come out whole, the
  server reads what the client asked for, and the client takes a refusal for a
  refusal and the data behind a response for data.
* *Configuration files.* They are edited by hand and read again while the server
  runs. Correct: an invalid one changes nothing.

## 2. Modules

| module | models | state and actions |
| --- | --- | --- |
| `ReadersWriters` | what a readers-writers lock promises | sets of readers and writers |
| `RWLock` | `common/rwlock.cpp` | `sem[1..5]`, `cnt[1..2]`, a program counter per thread; every P, V, PP and VV is a step |
| `AtomicSemaphore` | what RWLock takes a semaphore for | a value; taking and giving are one step |
| `Semaphore` | `common/types/semaphore.cpp` | `_count`, `_waiters`, threads blocked, woken or expired; a section under the mutex is a step |
| `BitSet`, `Runs` | what a bit vector is: a set of numbers, its first run and its first gap | |
| `BitVect` | `bitvect.cpp`, `bitvectex.cpp` | the packed bytes; `set`, `unset` and the searches |
| `RestoreServer` | request threads, restore thread, reload | `requests`, `rVector`, the `RequestInfo` of each handler, the burst under way with the contents of the file it has open (`source`); `owed` is a history variable: blocks promised and not sent since |
| `Compare` | parts, sums and marks as operators | |
| `ClientCompare` | `main()` of the client up to its loop | the target, measured, extended or not, compared; history: `failed` |
| `Restore` | the whole: `RestoreServer` with clients, a network, crashes and writes that fail | adds, per client, where it is, the target, `ready`, and the datagrams on their way; history: `doubtful`, blocks that were marked without being written wholly or compared |
| `Helpers` | `common/helpers.cpp` | texts, and what they are cut into, as operators |
| `RSParser` | `common/rs/rsparser.cpp` | the buffer and the positions of `Helper`, the lines |
| `RSMessages` | the other classes of `common/rs/` | the lines of requests and responses, and what is read in them, as operators |
| `RSExchange` | `RSParser` and `RSMessages` with a client and a server | adds the request that the server has read, its verdict, the response that the client has read and the data it takes |
| `ConfigFile` | `common/confparser.cpp` and `validateConfig` of both programs | lines, options, and what is valid, as operators |
| `ImageCache` | `server/config.cpp`, `imageinfo.cpp`, `checksuminfo.cpp` | the configuration file, the image files, the cache file, `infoList`, and `loadConfig` step by step; histories: `edited`, `raced`, `torn`, `lacked` |
| `InfoServer` | `ImageCache` with the info thread and clients that ask | the connection that is served, those that wait, where each client is |

`MC...` modules hold the values of the constants for TLC, `...Proofs` modules
the theorems.

`Restore` extends `RestoreServer`: `sendRequest` is `check` together with the
client's waiting, `Answer` is `reply` together with its going on, and
`Broadcast` is `Send` with a choice of who receives. `RestoreServer` takes
`FirstRun` of `Runs` for `intv1` and `Restore` takes `FirstGap` for `intv`;
`BitVect` shows that the code on bytes computes them. `Restore` extends
`Compare`, too, for its start; there a unit is a block (`B = 1`).
`ImageCache` reads the texts of its configuration files with `ConfigFile`. `RSExchange` runs the parser twice, for the request and for
the response; the verdict in between may be any that `RestoreServer` and
`InfoServer` come to. A section of `RestoreServer` or of `ImageCache` that
holds a lock is one step, or is guarded by what excludes it, because `RWLock`
implements `ReadersWriters`; `P` and `V` of `RWLock` are one step because
`Semaphore` implements `AtomicSemaphore`.

### How the code is abstracted

* A block is a value; a file a sequence of blocks. A datagram is its image, its
  index and a block. The image's name stands for its MD5 sum. A datagram that
  fails the checksum, or that the client cannot write, is one that was lost; a
  write that takes a part of the block is `WriteShort`.
* A target that cannot be extended stays as it is, or gets the byte at its old
  end if only the offset is refused (`Extensions`). What the client then reads
  past the target's checksums may be equal to anything (`Unsummed`). The blocks
  that it marks by that are in doubt (`doubtful`), as are those that were
  written in part; everything else is right. TLC has such targets in
  `ClientCompare`; in `Restore`, where the runs have images of one part, this is
  shown by the proofs.
* An image file that is removed or replaced while a burst has it open stays
  readable as it was; one that is written over changes under it. `Edit` of
  `RestoreServer` allows both.
* The cache file is cut to nothing when it is opened, and then written in place
  by a stream that nobody looks at. A crash, or a disk that is full, leaves any
  beginning of it (`Cuts`, `LeavesPart`): nothing at all, or a file that ends in
  a name, the size, the number of checksums or the checksums of any entry. What
  is read of it is `ReadBack`: missing checksums are the last one that was read
  (`Filled`); missing numbers are whatever was in memory (`Cut`, `Stray`).
* A request that is malformed ends like a connection that breaks (`hangup`):
  nothing is queued either way. An empty image file is one that cannot be read.
* A text is a sequence of characters, where a word that nobody looks into, such
  as `GET`, the name of an option or a digest, is one character. Numbers in
  headers are one character, ports and addresses are digits.
* The line number that should follow "Request is invalid" is added to the
  pointer to that literal (`requestthread.cpp:160`), which takes as many
  characters from its front; `InvalidRequest` has these texts.
* A configuration file that cannot be opened is one that is invalid. Which path
  an image has is not modelled, only whether it has one.
* In `Restore` an image consists of whole blocks, a unit of `Compare` each (`K`
  of them have a checksum); the length of the last one is in `ClientCompare`,
  where a unit is a part of a block. A target
  that is longer than the image is not made shorter, as in the code.
* `select` of the client may time out at any moment: its timeout is 6 s at
  first and 0 later (Linux counts the structure down and the code does not set
  it again), and datagrams may always be on their way.
* In `Semaphore` what is between lock and unlock of the mutex is one step, as
  is the wait, which gives the mutex up.
* Readers and writers are returned by value; that no copy is destroyed, which
  would unlock, relies on copy elision, as the code does.
* `lastModified` is not in `ImageCache`: copies of an `ImageInfo` do not have
  it (`imageinfo.cpp:26-43`), so that the comparison at `config.cpp:169` is
  undefined if the sizes are equal. The model allows both outcomes.
* `infoList = list` is a clear and a copy of one entry at a time
  (`imageinfo.cpp:103-110`), and so it is in the model: this is what the lock
  hides from the info thread.
* Undefined behaviour is a choice where it matters: the digest that is compared
  with an unfilled one (`Outcomes`), what is read after the end of a cache file
  (`ReadBack`) or of the target's checksums (`Unsummed`). Writes beyond an array are not modelled but excluded
  (`VectorsFit`, `MarksAreBlocks`) or shown to happen, see *Findings*.

## 3. Runs

| run | what it asks | bounds |
| --- | --- | --- |
| `RWLock` | A Writer is alone; every unit is held by one thread or group (`IInv`); overlapping writers are served together; whoever has passed `s1` is let in; the abstract lock is implemented | three threads, which is the least number with a reader, a writer and one that comes in between; they lock for ever |
| `Semaphore` | `_waiters` is exact; no wakeup is lost; the atomic semaphore is implemented with its fairness | four threads, two of which may use timeouts; one unit, as each semaphore of the lock |
| `BitVect` | The bytes are a set; `intv1` and `intv` find the first run and gap | all vectors of 1, 7, 8 and 10 bits: less than a byte, a byte, and a byte and a bit of the next |
| `RestoreServer` | Nothing promised is lost (`NoLostRequest`); only what was asked for is sent, in bounded bursts; everything promised is sent if its file stays (`OwedIsSent`) | two images of three and one block, two handlers, two connections, bursts of two blocks, so that one takes two turns; the larger file comes and goes, sends fail, reloads at any time |
| `RestoreServerReload` | the same with a file that grows | *violation*, see Findings |
| `ClientCompare` | What is marked is equal to the image; what is equal in whole and last parts is marked | parts of two blocks of two units; images up to three parts that end within one; targets shorter, equal and longer, whose extension may fail |
| `ClientCompareWhole` | marks are within the vector | *violation*: an image of whole parts |
| `RestoreShared` | Two clients off one broadcast: marked is written, READY is restored, no client is refused | the same image or two others on the same port; two handlers, a queue of one; handlers are symmetric, and so is swapping the clients together with the two other images (the filler `NoRequest` names the first image, which the swap keeps; the run has invariants only) |
| `RestoreLive` | The client reports READY in the end, and no right block is overwritten; the invariant of the proofs, `RInv`, of which `ReadyIsWritten` is a part | one client, an image of two blocks, two faults in any order: crashes of the server or the client, writes that take a part of a block |
| `RSExchange` | Lines come out whole, and what follows the header is kept; the server reads the image and headers the client sent, or an error (`RequestUnderstood`); the client goes on only after a 200, with a beginning of the data (`AnswerUnderstood`); the invariant of the proofs, `Cutting` | the two requests of the client for names of no, one and two words and of one with blanks around it, headers of one to three short lines, and requests with a defect in any line; data that look like ends of lines; reads that end where the parser can bear it (`EndsWell`) |
| `RSParserCut` | the same with reads that end anywhere | *violation* |
| `InfoServer` | Entries have as many sums as their size says, but for images at whose number of sums a cache file ended (`SumsFit`); a load without edits leaves a current list; who can be answered is; an image that is always there is never refused; the invariant of the proofs, `SInv` | two images, one of whose names begins like the other's, two clients; one fault (a crash, or a write that fails), which leaves any beginning of the cache file; one change: an image grows or vanishes, another is named, or the configuration becomes invalid. Numbers that are read from nowhere are 0 or no file's size |

`MCInfoServer` also has assumptions, which TLC evaluates first, about the
operators of `ConfigFile`: the examples under `conf/` are valid, options are
read as `confparser.hh:46-57` writes them wherever something separates name and
value, the names after a repeated one are dropped, and exactly which numbers the
client takes for parts of an address.

The runs have between 1,400 (`BitVect`) and 1.03 million states (`InfoServer`).

`CHECK_DEADLOCK FALSE` is in the configurations of terminating parts
(`ClientCompare`, `RSExchange`) and of `InfoServer`, where killed clients do
not come back and an invalid configuration file keeps the server from starting.

Bounds in guards: `Handlers` and `MaxRequests` (connections at a time and in
all), `MaxQueue` (no new connection while the queue is that long),
`MaxFaults` (crashes and writes that fail), `MaxStray` (numbers that are read
from nowhere), `MaxCount` (units of a semaphore), `Size` (buffer of the parser,
4096 in the code), `Burst` (1024), `MaxOutside` (changes from outside),
`MaxOpen` (descriptors that stay open). The connections of `RestoreServer` are
finite because a client that keeps asking for the beginning keeps the end of an
image from being sent, which the manual accepts (tex:563-568).

### Fairness

* `RWLock`: a thread inside the lock code or a critical section goes on (weak).
  Weak only: the semaphore queues nobody. No thread has to ask for the lock.
* `Semaphore`: a woken thread returns from `pthread_cond_wait` (weak).
* `RestoreServer`: the restore thread runs and request threads answer (weak);
  a request thread gets the lock some time, if it is free again and again
  (strong), as the restore thread pauses with `usleep` at each turn; the socket
  does not refuse the same block for ever (strong).
* `Restore`: also, datagrams of each block get through again and again if they
  are sent again and again, and connections do not always break (strong). This
  is what the manual assumes of the network; without it nothing is restored.
* `InfoServer`: the threads run (weak); the lookup gets the lock some time
  (strong), as loads are 1800 s apart. Nothing is assumed about clients: the
  property has the premise that none stays connected without a word.

## 4. Proofs

For every value of the constants, not only the small ones. Each module of
proofs states its premises as definitions (`FilesOver`, ...), which are the
hypotheses of its theorems; `FilesOver(U)` says no more than that files are
sequences of units of some set `U`.

**`RWLockProofs`** (any finite set of threads). `Accounting`: `IInv` is
inductive. Mutual exclusion alone is not, as it says nothing about semaphores:
`IInv` adds that each unit is held by exactly one thread, or by the readers or
the writers together (`Gate`), and that the counters are exact
(`CounterExact`). The proof has one lemma per operation of the lock. From it
follow `Typed`, `Exclusive`, `WritersTogether`, and `Implements`, that each step
is a step of `ReadersWriters` or none. `NeverStuck`: as long as any thread is
inside the lock or holds it, one of them is `Able` to take its next step. `Able`
is what `ENABLED Step(t)` comes to, spelled out because the provers do not have
`ENABLED`; the run finds no deadlock and, beyond that, that whoever has passed
`s1` is let in. Premise: `ZeroCounters`, see section 5.

**`SemaphoreProofs`** (any number of threads, units and timeouts).
`WaitersCounted` (`_waiters` is exact) and, with it, `NoWakeupIsLost`. `SemaphoreAtomic`: the safety part of the refinement.

**`BlockProofs`** has the lemmas about `Runs` and `Compare` that the other
modules rest on. `FirstRunIsFirst`, `FirstGapIsFirst`: what the two searches
are to return is a maximal run, the first one, and -1 only if there is none.
`MarksAreKept`, `MarksAreAll`: what `Marks` marks is the same in both files, and
what is the same in parts that both files have is marked, if the image does not
end with a part and the target has not more parts than it (`EndsWithin`);
`ExtendedEnds` and `ExtensionsEnd`: both have as many once the target is
extended, and it never has more if that fails.

**`BitVectProofs`** (vectors of any size). `Typed`: bits beyond the end stay
clear, so that the array is a set of numbers below the size and nothing else.
`BytesAreASet`: the bytes implement `BitSet`. `Intv1Searches` and
`IntvExSearches`: the walks over bytes and bits return `FirstRun` and
`FirstGap`. The walks are recursive functions; that each has a value and ends at
the right bit is proved by a least counterexample (`LeastNumber`), since
induction with an operator as predicate is out of the provers' reach.

**`ClientCompareProofs`** (blocks, parts and files of any size). `Extending`,
`MarkedBlocksAreKept`, `KeptBlocksAreMarked`. The invariant adds to the types
that the target has not more parts than the image, and that the marks are those
of these two files and of sums that are not there. `MarkedIsKept` holds also if
the target could not be extended, but for the parts that have no sum then.
Premise: `EndWithin`, the image does not end
with a part and the target has not more parts than it. Without the first
`MarksAreBlocks` is false, see `ClientCompareWhole`; for a target with more
parts the client reads past the checksums of the image (section 5), so that any
marks may result.

**`RestoreProofs`, the server** (any images, handlers, bursts and connections).
`ServerInvariant`, and from it `ServerTyped`, `PromisesKept`,
`OnlyRequestedIsSent` and `SameSizeFits`. `NoLostRequest` alone is not inductive: a block is marked only
if it is within the vector, which needs that requests and vectors agree with
the files (`RequestsFit`, `VectorsSized`), which needs that these keep their
size. Premises: `StableFiles` (a file vanishes or has its old size; with
another size the theorem is false, see `RestoreServerReload`) and
`PlainHeaders` (no header is negative, see section 5).

**`RestoreProofs`, the whole** (any clients, images, handlers, crashes, writes that
fail or take a part, parts of any number of blocks). `RestoreInvariant`, and from it what matters most of this
program: `MarkedIsWritten`, `ReadyHasImage` (a client that says READY has every
block of the image that is not in doubt), `FilesOnlyImprove`, `AskedIsAccepted`, `ClientsWaitRightly`, and that
the server's promises hold in the composition, too (`ServerKeepsPromises`).
`ReadyIsWritten` is not inductive: a datagram in an inbox must carry the block
it names (`Genuine`), a client must know the image's last block (`ClientFits`),
the file and the listed size must be those it was compared with, and a burst
must have that file open, which is `RInv`. The steps of the server are those of
`ServerInvariant`; there is one lemma more for each step of the clients, for a
write of a part and for a crash. A datagram that is
received twice, late or by a client of another image is not a case of its own:
what it carries is right whenever it comes, which is the point. Premises:
`PartialImages` and `TargetsFit`, as in `ClientCompareProofs`. There are none
about headers, as those come from the clients, nor about edits, as image files
do not change in `Restore`.

**`InfoServerProofs`** (any images, files, configurations, clients, edits,
reloads and crashes). `NeverRefused`, `ListsAreCurrent`, `SumsAlwaysFit`,
`ConnectionsTyped`, all from `InfoInvariant`. That an available image is listed
is not inductive: during a load it is in the new list or among the names still
to be looked at (`Found`), which needs that what lacked at any time was noted
(`Noted`), also with regard to the configuration file that the load has read;
and what is read of the cache file must be known whatever part of it was left:
entries of a list whose checksums fit, then at most one that is cut, and then
entries that only repeat its name and have no size (`Summed`). `SumsAlwaysFit`
is for cache files of any length, of which any beginning may be left. It excepts
two kinds of images: those that were written over while they were measured
(`raced`), and those at whose number of checksums a file ended (`torn`); for
both the code violates it (section 5). Premise `ImagesNamed`: the images that
configurations name are those whose files the model follows, and so are those
whose names are beginnings of these, if a configuration has a path for them: of a
name that was cut the beginning is read.

**`RSExchangeProofs`** (headers with lines of any length, any data, a buffer of
any size, any reads that end where `EndsWell` allows). The parser first:
`ParserRelies`, that `Cutting` holds of `RSParser` for a header of any number of
lines. `LineByLine` and `NothingLeftBehind` are not inductive: what is cut off
next depends on what the buffer holds, on where the search for the end of a line
stopped, and on `posEOL`, which `removeLine` reads even if no end was found.
`Cutting` says of each what it must be; without `EndsWell` it is false, and so is
`LineByLine` (run `RSParserCut`). There is one lemma for each step (`ReadStep`,
`TakeLineStep`, `FinishStep`, `FailStep`). Under them are what the loop of
`updateLength` returns (`FindsWithin`, from its recursive function by a least
counterexample), and where the lines lie in what is sent (`LinesLie`).

Then the exchange: `ExchangeRelies`, `OffsetsInBuffer`, `HeaderCutIntoLines`,
`RestIsKept` hold of the request and of the response; `ServerUnderstands` and
`ClientUnderstands` say that what the one side writes the other reads. The
invariant `XInv` adds to `Cutting` that the header on its way is the request, or
the response to what the server has read in it. The rest are lemmas about texts:
`LinesMade` (what `getLines` writes), `HeadersRead` (what is read in it),
`SplitAround` (the words of a request line are its first, those of the image's
name, and its last), `RequestRead`, `AnswerRead`. Premises, `PlainExchange`:

* no line of a header is empty or has an end of line or a 0 within (`Plain`),
  as the lines of a peer that keeps to the protocol;
* reads end where `EndsWell` says (`~ CutAnywhere`), see `RSParserCut`;
* a header has at most three lines, as those of the client: `InvalidRequest` has
  the texts for these line numbers. `ParserRelies` is without this premise;
* the client sends some header, and the values of its headers are words (digests
  and numbers, `PlainRequest`). The name of the image is any text.

TLC checked each invariant first: `IInv` (runs `RWLock`, `RestoreServer`),
`RInv` (`RestoreLive`), `SInv` (`InfoServer`), `Cutting` (`RSExchange`).

Only model-checked:

* everything about liveness, and the refinement of `Semaphore` with its
  fairness: the provers have neither `ENABLED` nor fairness;
* the operators of `ConfigFile`, by the assumptions of `MCInfoServer`:
  `InfoServerProofs` holds whatever they read in a file.

Every invariant and every safety property that a passing run checks is stated by
a theorem.

## 5. Findings

Three runs show that the code does what its documentation excludes
(`PROJECT.json` has the quotations):

1. `RestoreServerReload`: a vector keeps the size its image had at the first
   request; after a reload of a larger image bits are set past its end
   (`restorethread.cpp:189,196`).
2. `ClientCompareWhole`: for an image of whole MiBs the client marks 1024 blocks
   past the end of its vector (`client/main.cpp:216`).
3. `RSParserCut`: a read that ends within a line garbles the header
   (`rsparser.cpp:76`). Headers are short and usually come in one read.

Seen while modelling, without a run of their own:

* Of the text of a refusal only the first word reaches the client, as `trimEx`
  cuts the value of a header at the next blank (`helpers.cpp:82`, against
  tex:537-546), and the number of the bad line is never part of it
  (`requestthread.cpp:160`, `info_thread.cpp:210`).
* A write of the client that takes only a part of a block is taken for a whole
  one (`client/main.cpp:259,272`), so that READY may be reported of a file with a
  damaged block. `RestoreLive` and the theorems have such blocks in `doubtful`.
* Nobody looks whether the target could be extended (`client/main.cpp:194-195`).
  On a device that is too small the client prints both numbers of parts, reads
  past the target's checksums (207-208) and may mark what is not there.
* The client looks up the checksum of the target's last part among those of the
  image (`client/main.cpp:216`): past their end, if the target has more parts.
  `LastEqual` allows both outcomes of that comparison; the runs and proofs about
  the comparison take targets that have no more parts than the image.
* Blanks around the name of an image are dropped on the way: the client asks for
  ` a ` and gets `a`, as `split` reads the request line (`helpers.cpp:30-41`).
* The client sends its digest in a header `dig`, the servers look for `digest`
  (`client/main.cpp:335`, `info_thread.cpp:173`).
* An image that is no longer in `names` stays listed while it has a path and an
  entry in the cache file: `found` is computed and not used
  (`config.cpp:144-147`, against felhasznaloi.tex:107).
* Names after one that is repeated are dropped without a word
  (`config.cpp:101-102`; the result is ignored at 123).
* The manual requires every option (felhasznaloi.tex:89); the server checks
  two of them (`config.cpp:239-290`). Several equal signs are one separator and
  there are no escapes (against `confparser.hh:54-56`). A blank after a port
  makes the file invalid.
* The client accepts 256..299 and, but for the last, empty parts in an address
  (`client/main.cpp:562-577`; `AddressesAreAccepted`).
* If a write takes only a part of a list entry, the beginning is sent again and
  not the rest (`info_thread.cpp:276`).
* `c1` and `c2` of the lock are never initialised (`rwlock.cpp:37`): with other
  values than 0 a Writer is not alone (rwlock.hh:38). The server's locks are
  made early on fresh memory. `RWLock` has `InitCounts`, the run and the proofs
  take 0.
* Writers have no priority over readers that wait (`rwlock.cpp:45`), against
  rwlock.hh:38 and tex:114: both queue at `s1`.
* A timed wait takes the unit though it reports a timeout
  (`semaphore.cpp:95-101`, against semaphore.hh:64-75). Nobody uses one.
* `BitVector::intv` looks for 1s (`bitvect.cpp:54`, against tex:215-217); only
  the version of `BitVectorEx` is used.
* The digest of a request is compared with an unfilled one
  (`requestthread.cpp:103-108`, against tex:541); the client sends none.
* A negative `from` or `to` is accepted if the other one is missing
  (`requestthread.cpp:119`, against tex:542-543), and the restore thread then
  sets bits before its array.
* A burst has up to 1025 blocks (`restorethread.cpp:207`; `to` is included), and
  pauses come after all but each 60th datagram; tex:574 says at most 1000, and a
  pause after each 60th. `BurstRequested` has the code's bound.
* Block numbers have 32 bits: 2 TiB, not the 4 TiB of tex:47.
* An image that is written over with the same size may keep its old sums
  (`config.cpp:169`, against tex:491-493), as `lastModified` is undefined.
* The cache file is written in place and nobody looks whether that succeeds
  (`config.cpp:176-180`). If a crash or a full disk leaves a file that ends
  between the size and the number of checksums of an entry, the next load may
  find the image unchanged and list it with whatever number of checksums it read
  (against tex:491-493); with none at all the client's `checksums.size() - 1`
  wraps around (`client/main.cpp:207`). `SumsFit` is violated by this, and by
  nothing else of that kind, which is why it excepts `torn`; without the
  exception TLC finds the violation in the run `InfoServer`. A file that ends
  within the checksums gives the right number of them, the missing ones copies
  of the last one; the client then asks for parts that it has, or marks one that
  is equal to that one.
* The info thread leaves a descriptor open at every request
  (`info_thread.cpp:193,249`), and the client takes a list entry that was cut by
  the server's end for a whole one (`client/main.cpp:408`).
* A write to a client that is gone kills the server: nobody handles SIGPIPE.

## 6. Not modelled

* Command lines, sockets that cannot be made or bound, the end of the processes
  (`g_running` is never cleared), MD5, which is taken from coreutils, and
  digests in hexadecimal, which nobody reads. Of the start of the server only the order
  is modelled: the first load, then the threads.
* Files that change while they are restored, in `Restore`: nothing in the code
  relates a block to a version of the image; clients get a mixture and say
  READY. `RestoreServer` has such files, for the server's part.
* Memory outside arrays, sizes of integers, more than ten connections that wait,
  a client whose host disappears while it is sent a list entry that does not fit
  the buffers of the connection (it keeps the info thread as a silent one does).
* That descriptors run out: `accept` stops at `MaxOpen`, and `EveryoneAnswered`
  is about the time before.

## 7. Plan

The order was: lock and semaphore, on which all atomicity rests; bit vectors;
the server; the comparison; the composition; parser; list of images and info
thread; messages and configuration files. All of them have modules now. What is
left:

1. Model: the 32-bit sizes and block numbers; several images with several
   loads in a row; a composition of `ImageCache` with the request threads,
   instead of the reload in one step.
2. Prove: for the premise that headers have three lines, `InvalidRequest` would
   have to have a text for each line number, also those beyond the literal; and
   that `Restore` without faults implements `RestoreServer`, which needs bounds
   of connections (`MaxRequests`) and sets of headers (`Froms`, `Tos`) that
   follow from those of `Restore`.
