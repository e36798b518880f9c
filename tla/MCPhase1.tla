------------------------------ MODULE MCPhase1 ------------------------------
(***************************************************************************)
(* Phase1 for the sizes at which its borders meet: chunks that end within, *)
(* at and behind the powers in G2, last chunks of one element, batches     *)
(* smaller than, as large as and larger than a chunk, and the sizes that   *)
(* the tests of phase1/src use for Marlin (2^4 powers, batches of 15).     *)
(***************************************************************************)
EXTENDS Phase1

Bls == [g1 |-> 96, g2 |-> 192, g1_compressed |-> 48, g2_compressed |-> 96]
BW6 == [g1 |-> 192, g2 |-> 192, g1_compressed |-> 96, g2_compressed |-> 96]

Setting(proving_system, power, chunk_size, batch_size, curve) ==
    [mode |-> IF chunk_size = 0 THEN "Full" ELSE "Chunked", proving_system |-> proving_system,
     power |-> power, chunk_size |-> chunk_size, batch_size |-> batch_size, curve |-> curve]

MCSettings ==
    {Setting("Groth16", 1, c, b, BW6) : c \in {0, 2}, b \in {2, 3}}
    \cup {Setting("Groth16", 2, c, b, Bls) : c \in {0, 2, 3, 4, 5}, b \in {2, 3, 4}}
    \cup {Setting("Groth16", 3, c, b, BW6) : c \in {4, 6, 7}, b \in {3, 5, 8, 16}}
    \cup {Setting("Marlin", 2, c, 9, Bls) : c \in {0, 2, 3}}
    \cup {Setting("Marlin", 4, c, 15, BW6) : c \in {0, 5, 15}}
=============================================================================
