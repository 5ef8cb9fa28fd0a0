------------------------ MODULE MCStatusConfigMap ------------------------
(* Two agents: the main loop m1 and the post-commission goroutine p1 of    *)
(* gateway gw1, and the main loop m2 of gateway gw2.                       *)
EXTENDS StatusConfigMap, TLC

CONSTANTS m1, p1, m2, gw1, gw2, s1, s2

MCWriters == {m1, p1, m2}

MCKeys == {gw1, gw2}

MCKeyOf == [w \in MCWriters |-> IF w = m2 THEN gw2 ELSE gw1]

MCValues == {s1, s2}

\* Statuses are interchangeable, and so are the two writers of gateway gw1.
MCSymmetry == Permutations({s1, s2}) \cup Permutations({m1, p1})

=============================================================================
