---------------------------- MODULE MCController ----------------------------
EXTENDS Controller

CONSTANTS main, v2, bare2, c1, c2, c3, p1, p2

\* Tags v2 and 2 are the same to the clearing of the annotation.
MCNorm == [r \in Refs |-> IF r = v2 THEN bare2 ELSE r]

\* Every ref starts at a commit of its own.
MCRemote == [r \in Refs |-> IF r = main THEN c1 ELSE c2]
=============================================================================
