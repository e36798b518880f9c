------------------------------- MODULE MCDisk -------------------------------
(***************************************************************************)
(* An instance of Disk for TLC.                                            *)
(***************************************************************************)
EXTENDS Disk

\* Rounds 9 and 10, a chunk, contributions 0 and 10 of round 9.
SomeLocators ==
    {RoundHeight, RoundState(9),
     ContributionFile(9, 0, 0, TRUE), ContributionFile(9, 0, 10, FALSE),
     ContributionFileSignature(9, 0, 10, FALSE), ContributionFile(10, 0, 0, TRUE)}

\* Bound: the files there are at once.
FewFiles == Cardinality(DOMAIN files) <= 5
=============================================================================
