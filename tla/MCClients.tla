------------------------------ MODULE MCClients ------------------------------
(***************************************************************************)
(* Instances of Clients for TLC.                                           *)
(***************************************************************************)
EXTENDS Clients, TLC

CONSTANTS p1, p2, r1, r2   \* participants, as model values

TwoContributors == {p1, p2}
TwoReplacements == <<r1, r2>>

\* The contributors are alike and the order of their IDs is never looked at, so
\* one assignment of buckets and IDs stands for all of them.
MCInit ==
    /\ ClientsInit
    /\ info[p1].bucket = 0
    /\ round.contributor_ids[1] = p1

MCSpec == MCInit /\ [][ClientsNext]_allvars /\ ClientsFairness
=============================================================================
