-------------------------- MODULE ChunkChainProofs --------------------------
(***************************************************************************)
(* Proofs about ChunkChain, for all sets of participants and chunks.       *)
(***************************************************************************)
EXTENDS ChunkChain, TLAPS, SequenceTheorems

\* ChainsOfTheTeam for one chunk.
ChainOK(s, v, T) ==
    /\ Range(s) \subseteq T
    /\ IsInjective(s)
    /\ v \in {Len(s) - 1, Len(s)}

ChainInv == TypeOK /\ ChainsOfTheTeam

\* The same in terms of the elements of the chain.
Shape(s, v, T) ==
    /\ \A i \in 1..Len(s) : s[i] \in T
    /\ \A i, j \in 1..Len(s) : s[i] = s[j] => i = j
    /\ v \in {Len(s) - 1, Len(s)}

\* A chain is in order exactly when its elements are.
LEMMA ChainOKShape ==
    ASSUME NEW s \in Seq(Participants), NEW v, NEW T
    PROVE  ChainOK(s, v, T) <=> Shape(s, v, T)
<1>1. DOMAIN s = 1..Len(s)
  OBVIOUS
<1>2. Range(s) \subseteq T <=> \A i \in 1..Len(s) : s[i] \in T
  BY <1>1 DEF Range
<1>3. IsInjective(s) <=> \A i, j \in 1..Len(s) : s[i] = s[j] => i = j
  BY <1>1 DEF IsInjective
<1> QED
  BY <1>2, <1>3 DEF ChainOK, Shape

\* One who is not in a chain is at none of its places.
LEMMA NotInRange ==
    ASSUME NEW s \in Seq(Participants), NEW p
    PROVE  p \notin Range(s) <=> \A i \in 1..Len(s) : s[i] # p
BY DEF Range

\* A contribution by a new member of the team extends the chain.
LEMMA ContributeKeepsChain ==
    ASSUME NEW T \in SUBSET Participants, NEW s \in Seq(Participants), NEW p \in T,
           p \notin Range(s), ChainOK(s, Len(s), T)
    PROVE  /\ Append(s, p) \in Seq(Participants)
           /\ ChainOK(Append(s, p), Len(s), T)
<1> DEFINE new == Append(s, p)
<1>1. /\ new \in Seq(Participants)
      /\ Len(new) = Len(s) + 1
      /\ \A i \in 1..Len(s) : new[i] = s[i]
      /\ new[Len(s) + 1] = p
      /\ Len(s) \in Nat
  BY AppendProperties
<1>2. Shape(s, Len(s), T) /\ \A i \in 1..Len(s) : s[i] # p
  BY ChainOKShape, NotInRange
<1> HIDE DEF new
<1>3. \A i \in 1..Len(new) : new[i] \in T
  BY <1>1, <1>2 DEF Shape
<1>4. \A i, j \in 1..Len(new) : new[i] = new[j] => i = j
  BY <1>1, <1>2 DEF Shape
<1>5. Shape(new, Len(s), T)
  BY <1>1, <1>3, <1>4 DEF Shape
<1>6. ChainOK(new, Len(s), T)
  BY <1>1, <1>5, ChainOKShape
<1> QED
  BY <1>1, <1>6 DEF new

\* The cut that the replacement of p makes in a chain.
LEMMA BeforeProperties ==
    ASSUME NEW s \in Seq(Participants), NEW p,
           \A i, j \in 1..Len(s) : s[i] = s[j] => i = j
    PROVE  /\ Before(s, p) \in 0..Len(s)
           /\ \A i \in 1..Before(s, p) : s[i] # p
<1> DEFINE Is(i) == s[i] = p /\ \A j \in 1..(i - 1) : s[j] # p
<1>1. DOMAIN s = 1..Len(s) /\ Len(s) \in Nat
  OBVIOUS
<1>2. CASE p \in Range(s)
  <2>1. PICK k \in 1..Len(s) : s[k] = p
    BY <1>2, NotInRange
  <2>2. Is(k)
    BY <2>1
  <2>3. \E i \in DOMAIN s : Is(i)
    BY <1>1, <2>1, <2>2
  <2>4. PICK i \in DOMAIN s : i = (CHOOSE x \in DOMAIN s : Is(x)) /\ Is(i)
    BY <2>3
  <2>5. Before(s, p) = i - 1
    BY <1>2, <2>4 DEF Before
  <2> QED
    BY <1>1, <2>4, <2>5
<1>3. CASE p \notin Range(s)
  <2>1. Before(s, p) = Len(s)
    BY <1>3 DEF Before
  <2>2. \A i \in 1..Len(s) : s[i] # p
    BY <1>3, NotInRange
  <2> QED
    BY <1>1, <2>1, <2>2
<1> QED
  BY <1>2, <1>3

\* A replacement cuts the chain before the place of the dropped contributor, so
\* that what is left is of the new team.
LEMMA ReplaceKeepsChain ==
    ASSUME NEW T \in SUBSET Participants, NEW s \in Seq(Participants), NEW v \in Nat,
           NEW p, ChainOK(s, v, T)
    PROVE  LET n == Before(s, p)
               new == SubSeq(s, 1, n)
           IN  /\ n \in Nat
               /\ new \in Seq(Participants)
               /\ ChainOK(new, IF v < n THEN v ELSE n, T \ {p})
<1> DEFINE n == Before(s, p)
           new == SubSeq(s, 1, n)
           w == IF v < n THEN v ELSE n
<1>1. Shape(s, v, T) /\ Len(s) \in Nat
  BY ChainOKShape
<1>2. n \in 0..Len(s) /\ \A i \in 1..n : s[i] # p
  BY <1>1, BeforeProperties DEF Shape
<1> HIDE DEF n
<1>3. /\ new \in Seq(Participants)
      /\ Len(new) = n
      /\ \A i \in 1..n : new[i] = s[i]
  BY <1>1, <1>2, SubSeqProperties
<1> HIDE DEF new
<1>4. \A i \in 1..Len(new) : new[i] \in T \ {p}
  BY <1>1, <1>2, <1>3 DEF Shape
<1>5. \A i, j \in 1..Len(new) : new[i] = new[j] => i = j
  BY <1>1, <1>2, <1>3 DEF Shape
<1>6. w \in {Len(new) - 1, Len(new)}
  BY <1>1, <1>2, <1>3 DEF Shape
<1> HIDE DEF w
<1>7. Shape(new, w, T \ {p})
  BY <1>4, <1>5, <1>6 DEF Shape
<1>8. ChainOK(new, w, T \ {p})
  BY <1>3, <1>7, ChainOKShape
<1> QED
  BY <1>2, <1>3, <1>8 DEF n, new, w

-----------------------------------------------------------------------------
\* A chain without contributions is in order.
LEMMA EmptyChainOK == ASSUME NEW T PROVE ChainOK(<< >>, 0, T)
BY DEF ChainOK, Range, IsInjective

\* The chains are in order at first.
LEMMA InitChainInv == Init => ChainInv
<1> SUFFICES ASSUME Init PROVE ChainInv
  OBVIOUS
<1>1. TypeOK
  BY DEF Init, TypeOK, EmptyChains, NothingVerified
<1>2. ChainOK(<< >>, 0, team)
  BY EmptyChainOK
<1>3. ChainsOfTheTeam
  BY <1>2 DEF Init, EmptyChains, NothingVerified, ChainsOfTheTeam, ChainOK
<1> QED
  BY <1>1, <1>3 DEF ChainInv

\* The chain of a chunk under the invariant.
LEMMA ChainOfTheTeam ==
    ASSUME ChainInv, NEW c \in Chunks
    PROVE  /\ team \in SUBSET Participants
           /\ chain[c] \in Seq(Participants)
           /\ verified[c] \in Nat
           /\ ChainOK(chain[c], verified[c], team)
BY DEF ChainInv, TypeOK, ChainsOfTheTeam, ChainOK

\* Each action leaves every chain in shape for the new team.
LEMMA ChainsStep ==
    ASSUME team' \in SUBSET Participants,
           chain' \in [Chunks -> Seq(Participants)],
           verified' \in [Chunks -> Nat],
           \A c \in Chunks : ChainOK(chain'[c], verified'[c], team')
    PROVE  ChainInv'
BY DEF ChainInv, TypeOK, ChainsOfTheTeam, ChainOK

\* Every step keeps the chains in order.
LEMMA NextChainInv == ChainInv /\ [Next]_vars => ChainInv'
<1> SUFFICES ASSUME ChainInv, [Next]_vars PROVE ChainInv'
  OBVIOUS
<1>0. /\ team \in SUBSET Participants
      /\ chain \in [Chunks -> Seq(Participants)]
      /\ verified \in [Chunks -> Nat]
      /\ \A c \in Chunks : ChainOK(chain[c], verified[c], team)
  BY ChainOfTheTeam DEF ChainInv, TypeOK
<1>1. ASSUME NEW c \in Chunks, NEW p \in Participants, Contribute(c, p) PROVE ChainInv'
  <2> DEFINE new == Append(chain[c], p)
  <2>1. /\ p \in team /\ p \notin Range(chain[c]) /\ verified[c] = Len(chain[c])
        /\ chain' = [chain EXCEPT ![c] = new]
        /\ team' = team /\ verified' = verified
    BY <1>1 DEF Contribute
  <2>2. new \in Seq(Participants) /\ ChainOK(new, verified[c], team)
    BY <1>0, <2>1, ContributeKeepsChain
  <2> HIDE DEF new
  <2>3. chain' \in [Chunks -> Seq(Participants)]
    BY <1>0, <2>1, <2>2
  <2>4. \A x \in Chunks : ChainOK(chain'[x], verified'[x], team')
    BY <1>0, <2>1, <2>2
  <2> QED
    BY <1>0, <2>1, <2>3, <2>4, ChainsStep
<1>2. ASSUME NEW c \in Chunks, Verify(c) PROVE ChainInv'
  <2> DEFINE n == Len(chain[c])
  <2>1. /\ verified' = [verified EXCEPT ![c] = n]
        /\ team' = team /\ chain' = chain
    BY <1>2 DEF Verify
  <2>2. n \in Nat /\ ChainOK(chain[c], n, team)
    BY <1>0 DEF ChainOK
  <2> HIDE DEF n
  <2>3. verified' \in [Chunks -> Nat]
    BY <1>0, <2>1, <2>2
  <2>4. \A x \in Chunks : ChainOK(chain'[x], verified'[x], team')
    BY <1>0, <2>1, <2>2
  <2> QED
    BY <1>0, <2>1, <2>3, <2>4, ChainsStep
<1>3. ASSUME NEW p \in Participants, NEW q \in Participants, Replace(p, q) PROVE ChainInv'
  <2> DEFINE n(c) == Before(chain[c], p)
             new(c) == SubSeq(chain[c], 1, n(c))
             w(c) == IF verified[c] < n(c) THEN verified[c] ELSE n(c)
  <2>1. /\ team' = (team \ {p}) \cup {q}
        /\ chain' = [c \in Chunks |-> new(c)]
        /\ verified' = [c \in Chunks |-> w(c)]
    BY <1>3 DEF Replace
  <2>2. \A c \in Chunks : /\ n(c) \in Nat
                          /\ new(c) \in Seq(Participants)
                          /\ ChainOK(new(c), w(c), team \ {p})
    BY <1>0, ReplaceKeepsChain
  <2>3. \A c \in Chunks : w(c) \in Nat
    BY <1>0, <2>2
  <2> HIDE DEF n, new, w
  <2>4. \A c \in Chunks : ChainOK(new(c), w(c), team')
    BY <2>1, <2>2 DEF ChainOK
  <2> QED
    BY <1>0, <2>1, <2>2, <2>3, <2>4, ChainsStep
<1>4. ASSUME NEW p \in Participants, Restart(p) PROVE ChainInv'
  <2>1. ChainOK(<< >>, 0, team')
    BY EmptyChainOK
  <2>2. /\ team' = team \ {p}
        /\ chain' = [c \in Chunks |-> << >>]
        /\ verified' = [c \in Chunks |-> 0]
    BY <1>4 DEF Restart, EmptyChains, NothingVerified
  <2>3. \A c \in Chunks : ChainOK(chain'[c], verified'[c], team')
    BY <2>1, <2>2
  <2>4. chain' \in [Chunks -> Seq(Participants)] /\ verified' \in [Chunks -> Nat]
    BY <2>2
  <2> QED
    BY <1>0, <2>2, <2>3, <2>4, ChainsStep
<1>5. CASE UNCHANGED vars
  BY <1>0, <1>5, ChainsStep DEF vars
<1> QED
  BY <1>1, <1>2, <1>3, <1>4, <1>5 DEF Next

\* What the work of a round promises, for any number of participants and chunks:
\* after any contributions, verifications, replacements and restarts the
\* contributions of a chunk are by different members of the team, and all of
\* them but possibly the last are verified.
THEOREM ChainsOfTheTeamHold == Spec => [](TypeOK /\ ChainsOfTheTeam)
<1>1. ChainInv <=> TypeOK /\ ChainsOfTheTeam
  BY DEF ChainInv
<1> QED
  BY <1>1, InitChainInv, NextChainInv, PTL DEF Spec
=============================================================================
