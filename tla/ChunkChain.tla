----------------------------- MODULE ChunkChain -----------------------------
(***************************************************************************)
(* What the work of a round promises, without locks, task lists, files and *)
(* verification queues: every chunk has a chain of contributions by        *)
(* different contributors of the round, each added after its predecessor   *)
(* was verified.  A contributor who is dropped is replaced, and with its   *)
(* contributions go exactly those built on top of them; or the round       *)
(* starts again without it.  Nothing else ever removes a contribution.     *)
(***************************************************************************)
EXTENDS Integers, Sequences, FiniteSets, Functions

CONSTANTS Participants, Chunks

VARIABLES
    team,      \* the contributors of the round
    chain,     \* the contributors of each chunk's contributions, in order
    verified   \* how many contributions of each chunk are verified

vars == <<team, chain, verified>>

EmptyChains == [c \in Chunks |-> << >>]
NothingVerified == [c \in Chunks |-> 0]

Init ==
    /\ team \in SUBSET Participants
    /\ chain = EmptyChains
    /\ verified = NothingVerified

Contribute(c, p) ==
    /\ p \in team
    /\ p \notin Range(chain[c])
    /\ verified[c] = Len(chain[c])
    /\ chain' = [chain EXCEPT ![c] = Append(@, p)]
    /\ UNCHANGED <<team, verified>>

Verify(c) ==
    /\ verified[c] < Len(chain[c])
    /\ verified' = [verified EXCEPT ![c] = Len(chain[c])]
    /\ UNCHANGED <<team, chain>>

\* The number of contributions of s before the first one by p.
Before(s, p) ==
    IF p \in Range(s)
    THEN (CHOOSE i \in DOMAIN s : s[i] = p /\ \A j \in 1..(i - 1) : s[j] # p) - 1
    ELSE Len(s)

\* The replacement may be one that is already at work in the round.
Replace(p, q) ==
    /\ p \in team
    /\ q \in Participants \ {p}
    /\ team' = (team \ {p}) \cup {q}
    /\ chain' = [c \in Chunks |-> SubSeq(chain[c], 1, Before(chain[c], p))]
    /\ verified' = [c \in Chunks |->
                       IF verified[c] < Before(chain[c], p) THEN verified[c]
                       ELSE Before(chain[c], p)]

Restart(p) ==
    /\ p \in team
    /\ team' = team \ {p}
    /\ chain' = EmptyChains
    /\ verified' = NothingVerified

Next ==
    \/ \E c \in Chunks, p \in Participants : Contribute(c, p)
    \/ \E c \in Chunks : Verify(c)
    \/ \E p, q \in Participants : Replace(p, q)
    \/ \E p \in Participants : Restart(p)

Spec == Init /\ [][Next]_vars

-----------------------------------------------------------------------------
TypeOK ==
    /\ team \subseteq Participants
    /\ chain \in [Chunks -> Seq(Participants)]
    /\ verified \in [Chunks -> Nat]

\* Each contribution on a chunk is by a different contributor of the round,
\* and only the last one may still wait for its verification.
ChainsOfTheTeam ==
    \A c \in Chunks :
        /\ Range(chain[c]) \subseteq team
        /\ IsInjective(chain[c])
        /\ verified[c] \in {Len(chain[c]) - 1, Len(chain[c])}
=============================================================================
