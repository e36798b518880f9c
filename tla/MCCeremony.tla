----------------------------- MODULE MCCeremony -----------------------------
(***************************************************************************)
(* Instances of Ceremony for TLC: rounds of one and of two without         *)
(* coordinator contributors, as in the tests, and rounds of two with one,  *)
(* which two drops call on twice.                                          *)
(***************************************************************************)
EXTENDS Ceremony

CONSTANTS p1, p2, r1

TwoContributors == {p1, p2}

ThreeEnvironments ==
    {[minimum |-> 1, maximum |-> 1, ban_threshold |-> 1,
      allow_current_in_queue |-> TRUE, replacement |-> {}],
     [minimum |-> 1, maximum |-> 2, ban_threshold |-> 0,
      allow_current_in_queue |-> FALSE, replacement |-> {}],
     [minimum |-> 1, maximum |-> 2, ban_threshold |-> 1,
      allow_current_in_queue |-> FALSE, replacement |-> {r1}]}
=============================================================================
