------------------------------- MODULE Helpers --------------------------------
(***************************************************************************)
(* Texts, which are sequences of characters, and what common/helpers.cpp   *)
(* cuts them into.  A word that nobody looks into may be one character.    *)
(***************************************************************************)
LOCAL INSTANCE Integers
LOCAL INSTANCE Sequences

Blanks == {" ", "tab"}

\* the first position from i on with a character that is not (is) one of
\* these, or the one after the end
Skip(text, i, chars) ==
    CHOOSE j \in i..(Len(text) + 1) :
       /\ \A k \in i..(j - 1) : text[k] \in chars
       /\ j <= Len(text) => text[j] \notin chars

Find(text, i, chars) ==
    CHOOSE j \in i..(Len(text) + 1) :
       /\ \A k \in i..(j - 1) : text[k] \notin chars
       /\ j <= Len(text) => text[j] \in chars

\* what is between these characters, if only an empty text
Parts(text, chars) ==
    LET ends == SelectSeq([i \in 1..(Len(text) + 1) |-> i],
                   LAMBDA i : i <= Len(text) => text[i] \in chars)
    IN  [k \in DOMAIN ends |->
           SubSeq(text, IF k = 1 THEN 1 ELSE ends[k - 1] + 1, ends[k] - 1)]

\* the words that are separated by blanks: a character that is not a blank
\* begins a word or belongs to the last one
split(text) ==
    LET words[n \in 0..Len(text)] ==
          IF n = 0 THEN <<>>
          ELSE LET before == words[n - 1] IN
               IF text[n] \in Blanks THEN before
               ELSE IF n = 1 \/ text[n - 1] \in Blanks
               THEN Append(before, <<text[n]>>)
               ELSE [before EXCEPT ![Len(before)] = Append(@, text[n])]
    IN  words[Len(text)]

\* at the first delimiter only; <<>> of an empty text
splitByEx(delimiter, text) ==
    LET p == Find(text, 1, {delimiter})
    IN  IF text = <<>> THEN <<>>
        ELSE IF p > Len(text) THEN <<text>>
        ELSE <<SubSeq(text, 1, p - 1), SubSeq(text, p + 1, Len(text))>>

BadTrimEx(text) == text                                \* nothing is cut

\* the first word, whatever follows it
trimEx(text) == LET i == Skip(text, 1, {" "})
                IN  SubSeq(text, i, Find(text, i, {" "}) - 1)
=============================================================================
