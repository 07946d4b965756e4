------------------------------ MODULE MCRestore ------------------------------
(* One client of an image of two blocks; two clients that want the same
   image or two different ones that are broadcast on the same port. *)
EXTENDS Restore, TLC

CONSTANTS a, b, d, c1, c2, a0, a1, b0, d0

NoEdits == {}
NoHeader == {-1}

TwoBlocks == a :> <<a0, a1>>
AllImages == TwoBlocks @@ (b :> <<b0>>) @@ (d :> <<d0>>)

WantOne  == {c1 :> a}
WantAny  == {(c1 :> a) @@ (c2 :> a), (c1 :> b) @@ (c2 :> d)}

\* the targets do not exist yet
OneFresh  == c1 :> <<>>
BothFresh == (c1 :> <<>>) @@ (c2 :> <<>>)

\* request threads are alike, and so are the clients, with the images they want
Swaps == Permutations(Handlers) \cup
         {(c1 :> c2) @@ (c2 :> c1) @@ (b :> d) @@ (d :> b)
            @@ (b0 :> d0) @@ (d0 :> b0)}
=============================================================================
