--------------------------- MODULE MCRequestedRef ---------------------------
(* Three refs: the tag v2 and its values.yaml spelling 2, and the tag 1     *)
(* that the spec starts with.                                              *)
EXTENDS RequestedRef

CONSTANTS h1, h2

MCRefs == {"1", "2", "v2"}

\* One request per ref, one that carries two, and two that are refused.
MCRequests ==
    LET Signed(a, b, c, d) == [refs |-> <<a, b, c, d>>, proofs |-> {"hmac"}]
    IN  {Signed("2", NoRef, NoRef, NoRef), Signed(NoRef, "v2", NoRef, "1"),
         Signed(NoRef, NoRef, "1", NoRef), Signed(NoRef, NoRef, NoRef, NoRef),
         [refs |-> <<NoRef, NoRef, NoRef, "2">>, proofs |-> {"bearer"}]}

MCNorm == [r \in MCRefs |-> IF r = "v2" THEN "2" ELSE r]

=============================================================================
