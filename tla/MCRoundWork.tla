----------------------------- MODULE MCRoundWork -----------------------------
(***************************************************************************)
(* Instances of RoundWork for TLC.                                         *)
(***************************************************************************)
EXTENDS RoundWork, TLC

CONSTANTS p1, p2, p3, r1   \* participants, as model values

TwoContributors == {p1, p2}
ThreeContributors == {p1, p2, p3}

NoReplacement == << >>
OneReplacement == <<r1>>

ContributorSymmetry == Permutations(Contributors)
=============================================================================
