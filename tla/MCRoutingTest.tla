--------------------------- MODULE MCRoutingTest ---------------------------
(* TLC instances of RoutingTest: the values of its constants and a symmetry. *)
EXTENDS RoutingTest, TLC

CONSTANTS i1, i2, i3

OneId    == {i1}
TwoIds   == {i1, i2}
ThreeIds == {i1, i2, i3}
IdSymmetry == Permutations(ThreeIds)

\* Every branch of process_line; and, where liveness is checked, a command that releases
\* its slot when its send fails and one that does not.
AllLines  == Lines
LoopLines == {"c +", "s"}
=============================================================================
