------------------------------- MODULE RSParser -------------------------------
(***************************************************************************)
(* RS::Parser (src/common/rs/rsparser.cpp), which cuts what comes from a   *)
(* connection into the lines of a header: one parseHeader call for each    *)
(* read, whatever part of the header that read returns.                    *)
(***************************************************************************)
EXTENDS Integers, Sequences

CONSTANTS Headers,     \* sets of lines that may come, each without its end
          Bodies,      \* what may follow the empty line
          Size,        \* 4096: length of the buffer
          CutAnywhere  \* FALSE: where a read ends is limited by EndsWell

ASSUME ParserAssumption == Size \in Nat \ {0}

CR == "cr"
LF == "lf"
NUL == "nul"

VARIABLES header, body,  \* what the peer sends
          pos,           \* how much of it has been read
          helper,        \* Parser::Helper
          lines,
          pc,            \* "read", "lines", "done" or "closed"
          retval         \* of the last call that returned; 1: call me again

vars == <<header, body, pos, helper, lines, pc, retval>>

\* the first n of these lines, and all of them with the empty line
Ended(ls, n) == LET upTo[k \in 0..Len(ls)] ==
                      IF k = 0 THEN <<>> ELSE upTo[k - 1] \o ls[k] \o <<CR, LF>>
                IN  upTo[n]

Encoded(ls) == Ended(ls, Len(ls)) \o <<CR, LF>>
Input == Encoded(header) \o body

NewHelper == [buffer |-> [i \in 0..Size |-> NUL], offset |-> 0,
              offset_eol |-> 0, hasEOL |-> FALSE, posEOL |-> 0,
              normalEOL |-> FALSE, tempString |-> <<>>]

Init == /\ header \in Headers /\ body \in Bodies
        /\ pos = 0 /\ lines = <<>> /\ pc = "read" /\ retval = 1
        /\ helper = NewHelper

-----------------------------------------------------------------------------
BadFound(h, i, normal) ==                   \* the next line begins with its LF
    [h EXCEPT !.hasEOL = TRUE, !.normalEOL = normal, !.posEOL = i,
              !.offset_eol = i + 1]

Found(h, i, normal) ==
    [h EXCEPT !.hasEOL = TRUE, !.normalEOL = normal, !.posEOL = i,
              !.offset_eol = i + (IF normal THEN 2 ELSE 1)]

\* the loop of updateLength from i on; a CR that no LF follows is skipped
\* with the character after it (what lies before the buffer is not modelled)
EOLFrom(h, n) ==
    LET scan[i \in 0..(Size + 1)] ==
          IF i >= n THEN h
          ELSE IF h.buffer[i] = CR
               THEN IF h.buffer[i + 1] = LF THEN Found(h, i, TRUE)
                    ELSE scan[i + 2]
          ELSE IF h.buffer[i] = LF THEN Found(h, i, FALSE)
          ELSE scan[i + 1]
    IN  IF h.offset_eol < 0 THEN h ELSE scan[h.offset_eol]

BadUpdateLength(h, n) ==                    \* always searches the new part
    LET g == IF h.hasEOL THEN h
             ELSE EOLFrom([h EXCEPT !.offset_eol = h.offset], h.offset + n)
    IN  [g EXCEPT !.offset = @ + n,
                  !.offset_eol = IF g.hasEOL THEN @ ELSE @ + n]

updateLength(h, n) ==
    LET g == IF h.hasEOL THEN h ELSE EOLFrom(h, h.offset + n)
    IN  [g EXCEPT !.offset = @ + n,
                  !.offset_eol = IF g.hasEOL THEN @ ELSE @ + n]

getEOL == IF helper.hasEOL THEN helper.posEOL ELSE -1

\* what is after the first line is moved to the front, and searched; posEOL
\* and normalEOL are those of the last end of line that was found, even if
\* there is none now
LineLength(h) == h.posEOL + (IF h.normalEOL THEN 2 ELSE 1)

Shortened(h) ==
    updateLength([h EXCEPT !.offset = @ - LineLength(h),
                           !.offset_eol = @ - LineLength(h),
                           !.hasEOL = FALSE], 0)

BadMoved(h) == h.buffer                              \* buffer is not moved
Moved(h) == [i \in 0..Size |-> IF i < Size - LineLength(h)
                               THEN h.buffer[i + LineLength(h)]
                               ELSE h.buffer[i]]

BadStays(h, forced) == \/ (~ h.hasEOL /\ ~ forced)   \* keeps the empty line
                       \/ h.offset = 0 \/ (h.hasEOL /\ h.posEOL = 0)
Stays(h, forced) == (~ h.hasEOL /\ ~ forced) \/ h.offset = 0

removeLine(h, forced) ==
    IF Stays(h, forced) THEN h ELSE Shortened([h EXCEPT !.buffer = Moved(h)])

\* tempString += buffer, a string that ends where a NUL is written at i
Appended(h, i) ==
    LET cut == [h.buffer EXCEPT ![i] = NUL]
        end == CHOOSE n \in 0..i : /\ cut[n] = NUL
                                   /\ \A m \in 0..(n - 1) : cut[m] # NUL
    IN  [h EXCEPT !.buffer = cut,
                  !.tempString = @ \o [k \in 1..end |-> cut[k - 1]]]

-----------------------------------------------------------------------------
\* where a line ends, in the body, or after the first character of a line that
\* has more of them: the only one before which posEOL is right by chance
EndsWell(n) == \/ n >= Len(Encoded(header))
               \/ n > 1 /\ SubSeq(Input, n - 1, n) = <<CR, LF>>
               \/ n = 1 /\ Len(header[1]) > 1

\* select reports the socket readable; read returns n bytes
read(n) ==
    /\ pc = "read" /\ retval = 1 /\ helper.offset >= 0
    /\ n <= Size - helper.offset /\ pos + n <= Len(Input)
    /\ CutAnywhere \/ EndsWell(pos + n)
    /\ pos' = pos + n
    /\ helper' = updateLength([helper EXCEPT !.buffer =
                    [i \in 0..Size |->
                        IF i \in helper.offset..(helper.offset + n - 1)
                        THEN Input[pos + i - helper.offset + 1] ELSE @[i]]], n)
    /\ pc' = "lines"
    /\ UNCHANGED <<header, body, lines, retval>>

\* read returns less than 1, also because the buffer is full, or recv of the
\* out-of-band byte fails: the connection is closed
fail == /\ pc = "read" /\ retval = 1 /\ pc' = "closed" /\ retval' = -1
        /\ UNCHANGED <<header, body, pos, helper, lines>>

\* the loop of parseHeader: one line that is not empty
takeLine == /\ pc = "lines" /\ helper.offset # 0 /\ getEOL > 0
            /\ helper.offset > 0     \* what a negative one does is left out
            /\ LET h == Appended(helper, getEOL)
               IN  /\ lines' = Append(lines, h.tempString)
                   /\ helper' = removeLine([h EXCEPT !.tempString = <<>>],
                                           FALSE)
            /\ UNCHANGED <<header, body, pos, pc, retval>>

\* the ifs after it: an empty line ends the header; the beginning of a line
\* is kept in tempString
finish == /\ pc = "lines" /\ ~ (helper.offset # 0 /\ getEOL > 0)
          /\ helper.offset >= 0
          /\ \/ /\ getEOL = 0
                /\ helper' = removeLine(helper, TRUE) /\ retval' = 0
             \/ /\ getEOL = -1 /\ helper.offset # 0
                /\ helper' = removeLine(Appended(helper, helper.offset), TRUE)
                /\ retval' = 1
             \/ /\ getEOL = -1 /\ helper.offset = 0
                /\ helper' = helper /\ retval' = 1
             \/ /\ getEOL > 0               \* removeLine does nothing: no data
                /\ helper' = Appended(helper, getEOL) /\ retval' = 1
          /\ pc' = IF retval' = 0 THEN "done" ELSE "read"
          /\ UNCHANGED <<header, body, pos, lines>>

Next == fail \/ takeLine \/ finish \/ \E n \in 1..Size : read(n)

Spec == Init /\ [][Next]_vars

-----------------------------------------------------------------------------
getRemainingData == [k \in 1..helper.offset |-> helper.buffer[k - 1]]

(* The offsets stay in the buffer: no length is negative. *)
TypeOK == /\ pc \in {"read", "lines", "done", "closed"}
          /\ retval \in {-1, 0, 1}
          /\ pos \in 0..Len(Input)
          /\ helper.offset \in 0..Size /\ helper.offset_eol \in 0..Size
          /\ helper.posEOL \in 0..Size
          /\ helper.hasEOL => helper.posEOL < helper.offset

(* The header is cut into its lines (fejlesztoi.tex: the parser copies it line
   by line), and only the empty line ends it. *)
LineByLine == /\ \A k \in DOMAIN lines :
                    k <= Len(header) /\ lines[k] = header[k]
              /\ pc = "done" => lines = header

(* What was read beyond the header is kept for getRemainingData, and no header
   that has come is waited for. *)
NothingLeftBehind ==
    /\ pc = "done" =>
          getRemainingData = SubSeq(Input, Len(Encoded(header)) + 1, pos)
    /\ pc = "read" => pos < Len(Encoded(header))
-----------------------------------------------------------------------------
\* the line that is being cut, the empty one after the others; how much of what
\* has come is no more in the buffer; how much of the line is still to come
Line == IF Len(lines) < Len(header) THEN header[Len(lines) + 1] ELSE <<>>
Start == Len(Ended(header, Len(lines))) + Len(helper.tempString)
Rest == Len(Line) - Len(helper.tempString)

(* What the parser relies on between two of its steps.  The buffer holds what
   has come since Start.  If that is anything, it is the first character of all
   and nothing has been found, or the end of the line has been found where it
   is.  posEOL, which removeLine reads even then, is 0 before the first line.
   The parser is not done before the whole header has come. *)
Cutting ==
    /\ TypeOK /\ LineByLine /\ NothingLeftBehind
    /\ pos = 0 \/ EndsWell(pos)
    /\ pos <= 1 => helper.posEOL = 0 /\ ~ helper.normalEOL
    /\ pc = "done" => pos >= Len(Encoded(header))
    /\ pc \in {"read", "lines"} =>
          /\ retval = 1 /\ pos = Start + helper.offset
          /\ \A i \in 0..(helper.offset - 1) :
                helper.buffer[i] = Input[Start + i + 1]
          /\ \/ helper.tempString = <<>>
             \/ /\ lines = <<>> /\ Len(header[1]) > 1
                /\ helper.tempString = <<header[1][1]>>
          /\ \/ helper.offset = 0 /\ helper.offset_eol = 0 /\ ~ helper.hasEOL
             \/ /\ pc = "lines" /\ pos = 1 /\ helper.offset = 1
                /\ helper.offset_eol = 1 /\ ~ helper.hasEOL
             \/ /\ pc = "lines" /\ helper.hasEOL /\ helper.normalEOL
                /\ helper.posEOL = Rest /\ helper.offset_eol = Rest + 2
                /\ Rest + 2 <= helper.offset
=============================================================================
