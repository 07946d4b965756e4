------------------------------ MODULE ConfigFile ------------------------------
(***************************************************************************)
(* Configuration files: ConfigParser (common/confparser.cpp), which both   *)
(* programs read them with, and their validateConfig.  A file is a         *)
(* sequence of lines; names of options are single characters.              *)
(***************************************************************************)
EXTENDS Integers, Sequences, Helpers
LOCAL INSTANCE SequencesExt

Separators == Blanks \cup {"="}

\* an empty line or a comment
Ignored(line) == LET i == Skip(line, 1, Blanks)
                 IN  i > Len(line) \/ line[i] = "#"

\* Any number of equal signs and blanks is between the two; blanks at the end
\* are part of the value.  The line is refused if no value is left.
nameOf(line) == LET i == Skip(line, 1, Blanks)
                IN  SubSeq(line, i, Find(line, i, Separators) - 1)

valueOf(line) ==
    LET end == Find(line, Skip(line, 1, Blanks), Separators)
    IN  SubSeq(line, Skip(line, end, Separators), Len(line))

\* nothing is said of the data of a file that is refused
parse(file) ==
    LET options == SelectSeq(file, LAMBDA line : ~ Ignored(line))
        names == [k \in DOMAIN options |-> nameOf(options[k])]
        only(n) == CHOOSE k \in DOMAIN names : names[k] = n
    IN  [valid |-> /\ \A k \in DOMAIN options : valueOf(options[k]) # <<>>
                   /\ IsInjective(names),
         data |-> [n \in {names[k] : k \in DOMAIN names} |->
                      valueOf(options[only(n)])]]

getValueDefault(data, name, default) ==
    IF name \in DOMAIN data THEN data[name] ELSE default
getValue(data, name) == getValueDefault(data, name, <<>>)

-----------------------------------------------------------------------------
(* the server *)

\* its own split: what comes after a name that is repeated is left out
distinctWords(text) ==
    LET words == split(text)
        distinct(n) == IsInjective(SubSeq(words, 1, n))
    IN  SubSeq(words, 1, CHOOSE n \in 0..Len(words) :
                            /\ distinct(n)
                            /\ n < Len(words) => ~ distinct(n + 1))

Digit == [d \in {"0", "1", "2", "3", "4", "5", "6", "7", "8", "9"} |->
             CHOOSE n \in 0..9 : ToString(n) = d]

\* up to nine digits: more of them may be too many for atoi
Number(digits) ==
    LET upTo[k \in 0..Len(digits)] ==
          IF k = 0 THEN 0 ELSE 10 * upTo[k - 1] + Digit[digits[k]]
    IN  upTo[Len(digits)]

validPort(text) == /\ text # <<>> /\ \A k \in DOMAIN text :
                                        text[k] \in DOMAIN Digit
                   /\ Number(text) \in 1..65535

validateConfig(data) == /\ validPort(getValue(data, <<"port">>))
                        /\ getValue(data, <<"names">>) # <<>>

-----------------------------------------------------------------------------
(* the client *)

\* Numbers without leading zeros; of three digits the first is not above 2.
validAddress(text) ==
    LET parts == Parts(text, {"."}) IN
    /\ Len(parts) = 4 /\ parts[4] # <<>>
    /\ \A k \in 1..4 :
          /\ \A i \in DOMAIN parts[k] : parts[k][i] \in DOMAIN Digit
          /\ Len(parts[k]) <= 3
          /\ Len(parts[k]) > 1 => parts[k][1] # "0"
          /\ Len(parts[k]) = 3 => Digit[parts[k][1]] <= 2

validateClient(data) ==
    /\ validAddress(getValue(data, <<"server-ip">>))
    /\ \A port \in {"broadcast-port", "server-req-port", "server-port"} :
          validPort(getValue(data, <<port>>))
=============================================================================
