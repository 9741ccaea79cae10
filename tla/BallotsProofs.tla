---------------------------- MODULE BallotsProofs ----------------------------
(***************************************************************************)
(* Ballots are totally ordered (Ord for Ballot), Ballot::default() is the  *)
(* smallest one, and finitely many ballots have a largest one.             *)
(***************************************************************************)
EXTENDS Ballots, FiniteSetTheorems, TLAPS

\* The order on ballots (Ord for Ballot) is transitive.
LEMMA BallotTransitive ==
  ASSUME NEW a \in Ballot, NEW b \in Ballot, NEW c \in Ballot,
         a \preceq b, b \preceq c
  PROVE  a \preceq c
BY DEF Ballot, \prec, \preceq

\* A ballot is smaller than another if one of the steps to it is.
LEMMA BallotStrictlyTransitive ==
  ASSUME NEW a \in Ballot, NEW b \in Ballot, NEW c \in Ballot,
         (a \prec b /\ b \preceq c) \/ (a \preceq b /\ b \prec c)
  PROVE  a \prec c
BY DEF Ballot, \prec, \preceq

\* The order on ballots is reflexive.
LEMMA BallotReflexive == \A a : a \preceq a
BY DEF \preceq

\* No ballot is smaller than itself.
LEMMA BallotIrreflexive == \A a \in Ballot : ~ (a \prec a)
BY DEF Ballot, \prec

\* Two ballots are comparable: Ord for Ballot looks at every field.
LEMMA BallotTotal ==
  ASSUME NEW a \in Ballot, NEW b \in Ballot
  PROVE  a \preceq b \/ b \prec a
BY DEF Ballot, \prec, \preceq

\* A ballot is not smaller than one below it.
LEMMA BallotAsymmetric ==
  ASSUME NEW a \in Ballot, NEW b \in Ballot, a \preceq b
  PROVE  ~ (b \prec a)
BY DEF Ballot, \prec, \preceq

\* Ballot::default() is a ballot.
LEMMA DefaultBallotType == DefaultBallot \in Ballot
BY DEF DefaultBallot, Ballot

\* No ballot is below Ballot::default().
LEMMA DefaultBallotSmallest ==
  ASSUME NEW b \in Ballot
  PROVE  DefaultBallot \preceq b
BY DEF DefaultBallot, Ballot, \prec, \preceq

\* Finitely many ballots, numbered in any way, have a largest one:
\* Iterator::max in update_leader.
LEMMA LargestBallotExists ==
  ASSUME NEW N \in Nat, NEW P \in SUBSET (1 .. N), P # {}, NEW f \in [P -> Ballot]
  PROVE  \E r \in P : \A s \in P : f[s] \preceq f[r]
<1> DEFINE Below(k) == {r \in P : r <= k}
           HasMax(k) == \E r \in Below(k) : \A s \in Below(k) : f[s] \preceq f[r]
           T == {k \in Nat : Below(k) # {} /\ ~ HasMax(k)}
<1>1. P \subseteq Nat \ {0} /\ \A r \in P : f[r] \in Ballot
  OBVIOUS
<1>2. T = {}
  <2> SUFFICES ASSUME T # {} PROVE FALSE
    OBVIOUS
  <2>1. T \subseteq Nat
    OBVIOUS
  <2>2. PICK k \in T : \A j \in T : ~ (j < k)
    <3> DEFINE R == {ss \in Nat \X Nat : ss[1] < ss[2]}
    <3>1. IsWellFoundedOn(R, Nat)
      BY NatLessThanWellFounded, Zenon DEF OpToRel
    <3> HIDE DEF R
    <3>2. PICK k \in T : \A j \in T : ~ (<< j, k >> \in R)
      BY <2>1, <3>1, WFMin, Zenon
    <3>3. \A j \in T : j < k => << j, k >> \in R
      BY <2>1, <3>2 DEF R
    <3> QED BY <3>2, <3>3
  <2>3. k \in Nat /\ Below(k) # {} /\ ~ HasMax(k)
    OBVIOUS
  <2>4. k > 0 /\ k - 1 \in Nat
    <3>1. PICK r \in P : r <= k
      BY <2>3
    <3>2. r \in Nat /\ r > 0
      BY <1>1
    <3> QED BY <3>1, <3>2, <2>3
  <2>5. k - 1 \notin T
    BY <2>2, <2>4
  <2>6. Below(k) = Below(k - 1) \cup (P \cap {k})
    <3>1. \A r \in P : r <= k <=> r <= k - 1 \/ r = k
      BY <2>3, <1>1
    <3>2. \A r : r \in Below(k) <=> r \in Below(k - 1) \cup (P \cap {k})
      BY <3>1
    <3> QED BY <3>2, Zenon
  <2>7. CASE Below(k - 1) = {}
    <3>1. k \in P /\ Below(k) = {k} /\ f[k] \preceq f[k]
      BY <2>3, <2>6, <2>7, BallotReflexive
    <3> QED BY <3>1, <2>3
  <2>8. CASE Below(k - 1) # {}
    <3>1. PICK m \in Below(k - 1) : \A s \in Below(k - 1) : f[s] \preceq f[m]
      BY <2>4, <2>5, <2>8
    <3>2. m \in P /\ m \in Below(k) /\ Below(k - 1) \subseteq P
      BY <2>6
    <3> HIDE DEF Below
    <3>3. CASE k \in P /\ f[m] \preceq f[k]
      <4>1. k \in Below(k) /\ \A s \in Below(k) : f[s] \preceq f[k]
        BY <3>1, <3>2, <3>3, <2>6, <1>1, BallotTransitive, BallotReflexive
      <4> QED BY <4>1, <2>3
    <3>4. CASE ~ (k \in P /\ f[m] \preceq f[k])
      <4>1. k \in P => f[k] \preceq f[m]
        BY <3>2, <3>4, <1>1, BallotTotal DEF \preceq
      <4>2. \A s \in Below(k) : f[s] \preceq f[m]
        BY <4>1, <3>1, <2>6
      <4> QED BY <4>2, <3>2, <2>3
    <3> QED BY <3>3, <3>4
  <2> QED BY <2>7, <2>8
<1>3. \A r \in P : r <= N
  OBVIOUS
<1>4. Below(N) = P
  BY <1>3
<1> QED BY <1>2, <1>4

\* So do finitely many ballots, however they are found.
LEMMA LargestBallotOfFinite ==
  ASSUME NEW S, IsFiniteSet(S), NEW f \in [S -> Ballot],
         NEW T \in SUBSET {f[x] : x \in S}, T # {}
  PROVE  \E b \in T : \A c \in T : c \preceq b
<1>1. PICK n \in Nat : ExistsSurjection(1 .. n, S)
  BY FS_NatSurjection
<1>2. PICK e \in [1 .. n -> S] : \A x \in S : \E i \in 1 .. n : e[i] = x
  BY <1>1 DEF ExistsSurjection, Surjection
<1> DEFINE P == {i \in 1 .. n : f[e[i]] \in T}
           g == [i \in P |-> f[e[i]]]
<1>3. g \in [P -> Ballot] /\ P \in SUBSET (1 .. n)
  BY <1>2
<1>4. \A b \in T : \E i \in P : g[i] = b
  <2> SUFFICES ASSUME NEW b \in T PROVE \E i \in P : g[i] = b
    OBVIOUS
  <2>1. PICK x \in S : f[x] = b
    OBVIOUS
  <2>2. PICK i \in 1 .. n : e[i] = x
    BY <1>2
  <2> QED BY <2>1, <2>2
<1>5. \A i \in P : g[i] \in T
  OBVIOUS
<1>6. P # {}
  BY <1>4
<1> HIDE DEF g, P
<1>7. PICK i \in P : \A j \in P : g[j] \preceq g[i]
  BY <1>3, <1>6, LargestBallotExists
<1>8. \A c \in T : c \preceq g[i]
  BY <1>4, <1>7
<1> QED BY <1>5, <1>7, <1>8
==============================================================================
