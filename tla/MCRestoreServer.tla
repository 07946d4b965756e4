--------------------------- MODULE MCRestoreServer ---------------------------
(* Files and headers for the runs of RestoreServer.  A block's contents do not
   matter here, so all blocks are the same. *)
EXTENDS RestoreServer, TLC

CONSTANTS a, b, block

TwoImages == (a :> <<block, block, block>>) @@ (b :> <<block>>)
OneImage  == a :> <<block, block>>

NoEdits   == {}
Vanishes  == {<<a, <<>>>>, <<a, <<block, block, block>>>>}
Grows     == {<<a, <<block, block, block>>>>}

Valid     == {-1, 1}
ValidTo   == {-1, 1}
All       == {-1}
=============================================================================
