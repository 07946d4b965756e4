------------------------------- MODULE Compare -------------------------------
(***************************************************************************)
(* Checksums of an image and of a client's target file (checksums.cpp) and *)
(* what the client concludes from them (client/main.cpp).  A file is a     *)
(* sequence of units; equal digests stand for equal contents.              *)
(***************************************************************************)
EXTENDS Integers, Sequences

CONSTANTS B,   \* units in a block that is sent: 1024 bytes
          K    \* blocks in a part that has a checksum: 1024 of them, 1 MiB

ASSUME CompareAssumption == B \in Nat \ {0} /\ K \in Nat \ {0}

M == B * K

LastBlock(file) == (Len(file) + B - 1) \div B - 1       \* end

\* what calculateChecksum reads at offset i * M
Part(file, i) ==
    LET end == (i + 1) * M
    IN  SubSeq(file, i * M + 1, IF end < Len(file) THEN end ELSE Len(file))

\* it reads on until a part is short: one more, empty, part if the size is a
\* multiple of M
PartCount(file) == Len(file) \div M + 1

LastBlockSize(file) == IF Len(file) % M = 0 THEN M ELSE Len(file) % M

BadExtended(target, size, hole, r) == target            \* not extended

\* a byte is written at the image's last offset if the numbers of parts
\* differ; what lies before it and after the target's old end is a hole
Extended(target, size, hole, r) ==
    IF Len(target) \div M = size \div M THEN target
    ELSE [u \in 1..(IF size > Len(target) THEN size ELSE Len(target)) |->
             IF u = size THEN r
             ELSE IF u <= Len(target) THEN target[u] ELSE hole]

\* what it may become: neither of the calls is looked at, so nothing is written
\* if the disk has no room, and the byte is written at the old end if the
\* offset is refused
Extensions(target, size, hole, r) ==
    {Extended(target, size, hole, r)} \cup
    IF size = 0 \/ Len(target) \div M = size \div M THEN {}
    ELSE {target, Append(target, r)}

\* parts of the image for which a target that was not extended has no sum
Unsummed(image, target) == PartCount(target)..(PartCount(image) - 2)

WholeParts(image, target) ==
    {i \in 0..(PartCount(image) - 2) : Part(target, i) = Part(image, i)}

\* the last part, by the number of the target's parts: past the end of the
\* image's checksums if the target has more of them
LastEqual(image, target) ==
    LET l == PartCount(target) - 1
    IN  IF l < PartCount(image) THEN {Part(image, l) = Part(target, l)}
        ELSE BOOLEAN

BadLastMarks(image, target) ==                          \* one block less
    LET l == PartCount(target) - 1
    IN  {l * K + j : j \in 0..(LastBlockSize(image) \div B - 2)}

LastMarks(image, target) ==
    LET l == PartCount(target) - 1
    IN  {l * K + j : j \in 0..(LastBlockSize(image) \div B - 1)}

BadMarks(image, target, stray, lastEqual) ==            \* j up to 1024, too
    {i * K + j : i \in WholeParts(image, target) \cup stray, j \in 0..K}
      \cup IF lastEqual THEN LastMarks(image, target) ELSE {}

\* the blocks that are set in ready, lastEqual \in LastEqual(image, target);
\* the sums of stray \subseteq Unsummed(image, target) are read past the end of
\* the target's and happen to be equal
Marks(image, target, stray, lastEqual) ==
    {i * K + j : i \in WholeParts(image, target) \cup stray, j \in 0..(K - 1)}
      \cup IF lastEqual THEN LastMarks(image, target) ELSE {}
=============================================================================
