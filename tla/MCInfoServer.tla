----------------------------- MODULE MCInfoServer -----------------------------
(* Two images, of one part at first, one of whose names begins like the other's:
   one that is named from the start, and grows or vanishes, and one that is named
   later; two clients, one for each. *)
EXTENDS InfoServer, SequencesExt

CONSTANTS x, y, c1, c2, both, one, blank

a == <<"a">>
b == <<"a", "b">>
TwoImages == {a, b}

SomeAsks == (c1 :> a) @@ (c2 :> b)
SomeDisk == (a :> <<x>>) @@ (b :> <<y>>)
GrowsOrVanishes == {<<a, <<x, y>>>>, <<a, NoFile>>}

\* the examples under conf/ are written in both ways
Both == << <<"#", "x">>, <<"port", " ", "8", "7">>, <<>>,
           <<"names", " ", "=", " ", " ", "a", " ", "a", "b">>,
           <<"a", " ", "f">>, <<"tab", "a", "b", "=", "g">> >>
One == << <<"port", "=", "8", "7">>, <<"names", " ", "a">>,
          <<"a", " ", "f">> >>
BlankAfterPort == [One EXCEPT ![1] = @ \o <<" ">>]
SomeTexts == (both :> Both) @@ (one :> One) @@ (blank :> BlankAfterPort)

-----------------------------------------------------------------------------
(* conf/server.conf and conf/client.conf, without comments; some values cut *)
ServerConf == << <<"broadcast", " ", "1">>,
                 <<"broadcast-port", " ", "8", "7">>,
                 <<"info-port", " ", "8", "8">>, <<"port", " ", "8", "9">>,
                 <<"cache-directory", " ", "/tmp">>, <<>>,
                 <<"names", " ", "=", " ", " ", "img0", " ", "img6">>,
                 <<"img0", " ", "/tmp/a">> >>
ClientConf == << <<"server-ip", " ", "=", " ", "1", "0", ".", "0", ".", "1",
                   ".", "1", "0", "1">>,
                 <<"server-port", " ", "=", " ", "8", "7">>, <<>>,
                 <<"broadcast-port", " ", "=", " ", "8", "9">>,
                 <<"server-req-port", " ", "8", "6">> >>

ASSUME ExamplesAreValid ==
    LET server == Conf!parse(ServerConf)
        client == Conf!parse(ClientConf)
    IN  /\ server.valid /\ Conf!validateConfig(server.data)
        /\ client.valid /\ Conf!validateClient(client.data)

(* An option is read as confparser.hh:46-57 writes it, if blanks or an equal
   sign separate its name from a value that does not begin with them. *)
ASSUME OptionsAreRead ==
    \A w1, w2, w3 \in {<<>>, <<" ">>, <<"tab", " ">>}, eq \in {<<>>, <<"=">>},
       n \in {<<"x">>, <<"x", "y">>},
       v \in {<<"v">>, <<"#", "v">>, <<"v", " ", "=", "w">>, <<"v", " ">>} :
          w2 \o eq \o w3 # <<>> =>
             LET line == w1 \o n \o w2 \o eq \o w3 \o v
             IN  /\ ~ Conf!Ignored(line)
                 /\ Conf!nameOf(line) = n /\ Conf!valueOf(line) = v

(* The names after one that is repeated are dropped. *)
ASSUME NamesEndAtARepeatedOne ==
    LET text == [Both EXCEPT ![4] = <<"names", " ", "a", " ", "a", " ", "a", "b">>]
    IN  Conf!distinctWords(Conf!getValue(Conf!parse(text).data, <<"names">>)) = <<a>>

(* What the client takes for a number of an address: 0..255, but also 256..299
   and, except at the end, nothing at all. *)
ASSUME AddressesAreAccepted ==
    LET digits == {"0", "2", "5", "6"}
        dots == [k \in 1..4 |-> IF k = 4 THEN <<>> ELSE <<".">>]
        text(i, g) == FlattenSeq([k \in 1..4 |->
                         (IF k = i THEN g ELSE <<"1">>) \o dots[k]])
    IN  \A i \in 1..4, g \in UNION {[1..n -> digits] : n \in 0..4} :
           Conf!validAddress(text(i, g)) <=>
              IF g = <<>> THEN i < 4
              ELSE Conf!Number(g) < 300 /\ (g[1] = "0" => Len(g) = 1)
=============================================================================
