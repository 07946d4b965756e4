--------------------------- MODULE MCClientCompare ---------------------------
(* Images of up to three parts of two blocks of two units. *)
EXTENDS ClientCompare

Units == {0, 1}

FilesOf(sizes) == UNION {[1..n -> Units] : n \in sizes}

Images == {[u \in 1..n |-> IF u = n THEN last ELSE 0] :
              n \in {1, 3, 5, 6, 9}, last \in Units}

\* images that end within a part, and targets that have no more parts
Partial == UNION {{f} \X FilesOf({n \in {0, 1, 2, 5, 6} :
                                     n \div M <= Len(f) \div M})
                      : f \in Images}

\* an image of one whole part, and what it was restored to
Whole == {<<<<0, 0, 0, 0>>, <<0, 0, 0, 0>>>>}
=============================================================================
